---------------------------- MODULE HostChannel -----------------------------
(***************************************************************************)
(* How sandboxed programs talk to their host: vm/src/agent_module.rs (ask, *)
(* checkpoint, rollback, report) and check_policy of process_module.rs,    *)
(* which asks before a command runs.  A question is a node of the memory   *)
(* mount, its reply another; neither carries an identifier.                *)
(*                                                                         *)
(* A step is one call of the root tree.  Polling reads that find nothing   *)
(* change nothing and are left out; a deadline may pass at any time.       *)
(***************************************************************************)
EXTENDS Integers, Sequences, SequencesExt

CONSTANTS
  Channels,         \* "ask", "checkpoint", "rollback": a pair of nodes each
  Callers,          \* threads that call agent::ask / checkpoint / rollback or process::*
  PolicyCallers,    \* those of them that run commands, through check_policy
  ChannelOf,        \* the pair of nodes each of them uses
  Questions,        \* what an agent::* call passes
  Commands,         \* argument vectors: sequences of words
  Shells,           \* the words shell_command refuses
  Policies,         \* what the host may have put into local/zbuddy/policy
  NoPolicy,         \* that node does not exist
  Reporters,        \* threads that call agent::report
  Missing           \* a node that does not exist

ASSUME CallersAssumption ==
  /\ PolicyCallers \subseteq Callers
  /\ ChannelOf \in [Callers -> Channels]

VARIABLES
  request,    \* the question node of every channel
  reply,      \* its reply node
  host,       \* the question the host is deciding
  pc,         \* where each caller is
  question,   \* the question of its present or last call
  outcome,    \* what that call returned
  alone,      \* history: no other question was about during the call
  reports,    \* the node local/zbuddy/reports
  reporter,   \* where each call of agent::report is
  kept        \* history: reports made while nobody was about to make the list

asking == <<request, reply, host, pc, question, outcome, alone>>
reporting == <<reports, reporter, kept>>
vars == <<asking, reporting>>

Question == [by : Callers, what : Questions \cup Commands]
Reply == [ok : BOOLEAN, to : Question, during : SUBSET Callers]

ASSUME MissingAssumption ==
  /\ Missing \notin Question \cup Reply
  /\ \A reported \in SUBSET Reporters : reported # Missing

\* What a call returned.  history: the reply was written during the call
\* (fresh); it answers the question of the call (own).
Outcome == [ok : BOOLEAN, fresh : BOOLEAN, own : BOOLEAN]
Nothing == [ok |-> FALSE, fresh |-> TRUE, own |-> TRUE]

Init ==
  /\ request = [ch \in Channels |-> Missing]
  /\ reply = [ch \in Channels |-> Missing]
  /\ host = [ch \in Channels |-> Missing]
  /\ pc = [c \in Callers |-> "idle"]
  /\ question = [c \in Callers |-> Missing]
  /\ outcome = [c \in Callers |-> Nothing]
  /\ alone = [c \in Callers |-> TRUE]
  /\ reports = Missing
  /\ reporter = [r \in Reporters |-> "idle"]
  /\ kept = {}

-----------------------------------------------------------------------------
(* check_policy: what the policy says of a command.                        *)

\* argv_matches: the words of the rule begin the command.
ArgvMatches(rule, command) == rule # <<>> /\ IsPrefix(rule, command)

Verdict(policy, command) ==
  IF policy = NoPolicy THEN "run"
  ELSE IF Head(command) \in Shells THEN "refuse"
  ELSE IF policy.autoApprove \/ \E rule \in policy.allow : ArgvMatches(rule, command) THEN "run"
  ELSE "ask"

-----------------------------------------------------------------------------
(* A question and its reply.                                               *)

Others(c) == {d \in Callers \ {c} : ChannelOf[d] = ChannelOf[c] /\ pc[d] # "idle"}

\* The channel is quiet: no question waits, none is being decided.
Quiet(c) ==
  /\ request[ChannelOf[c]] = Missing /\ host[ChannelOf[c]] = Missing
  /\ Others(c) = {}

\* Mutant of Begin: an old reply stays.
BeginOverOldReply(c, what) ==
  /\ question' = [question EXCEPT ![c] = [by |-> c, what |-> what]]
  /\ outcome' = [outcome EXCEPT ![c] = Nothing]
  /\ alone' = [d \in Callers |-> IF d = c THEN Quiet(c) ELSE alone[d] /\ d \notin Others(c)]
  /\ pc' = [pc EXCEPT ![c] = "asking"]
  /\ UNCHANGED <<request, reply, host>>

\* The reply of an earlier question is removed.
Begin(c, what) ==
  /\ reply' = [reply EXCEPT ![ChannelOf[c]] = Missing]
  /\ question' = [question EXCEPT ![c] = [by |-> c, what |-> what]]
  /\ outcome' = [outcome EXCEPT ![c] = Nothing]
  /\ alone' = [d \in Callers |-> IF d = c THEN Quiet(c) ELSE alone[d] /\ d \notin Others(c)]
  /\ pc' = [pc EXCEPT ![c] = "asking"]
  /\ UNCHANGED <<request, host>>

\* agent_ask, agent_checkpoint, agent_rollback
AgentCall(c) ==
  /\ c \notin PolicyCallers
  /\ pc[c] = "idle"
  /\ \E what \in Questions : Begin(c, what)
  /\ UNCHANGED reporting

\* check_policy, for a command the policy settles ...
Settled(c) ==
  /\ c \in PolicyCallers
  /\ pc[c] = "idle"
  /\ \E policy \in Policies, command \in Commands :
       /\ Verdict(policy, command) # "ask"
       /\ outcome' = [outcome EXCEPT ![c] = [Nothing EXCEPT !.ok = Verdict(policy, command) = "run"]]
  /\ UNCHANGED <<request, reply, host, pc, question, alone, reporting>>

\* ... and for one it does not.
PolicyCall(c) ==
  /\ c \in PolicyCallers
  /\ pc[c] = "idle"
  /\ \E policy \in Policies, command \in Commands :
       Verdict(policy, command) = "ask" /\ Begin(c, command)
  /\ UNCHANGED reporting

\* root::add replaces whatever question is there.
Ask(c) ==
  /\ pc[c] = "asking"
  /\ request' = [request EXCEPT ![ChannelOf[c]] = question[c]]
  /\ pc' = [pc EXCEPT ![c] = "waiting"]
  /\ UNCHANGED <<reply, host, question, outcome, alone, reporting>>

\* The poll finds a map in the reply node.
Read(c) ==
  LET r == reply[ChannelOf[c]]
  IN  /\ pc[c] = "waiting" /\ r # Missing
      /\ outcome' = [outcome EXCEPT ![c] =
                       [ok |-> r.ok, fresh |-> c \in r.during, own |-> r.to = question[c]]]
      /\ pc' = [pc EXCEPT ![c] = "read"]
      /\ UNCHANGED <<request, reply, host, question, alone, reporting>>

\* Mutant of GiveUp: no deadline unless a reply is there.
GiveUpNever(c) ==
  /\ pc[c] = "waiting" /\ reply[ChannelOf[c]] # Missing
  /\ outcome' = [outcome EXCEPT ![c] = Nothing]
  /\ pc' = [pc EXCEPT ![c] = IF c \in PolicyCallers THEN "withdrawing" ELSE "read"]
  /\ UNCHANGED <<request, reply, host, question, alone, reporting>>

\* The deadline has passed: denied, or {ok: false} for the snapshots.
GiveUp(c) ==
  /\ pc[c] = "waiting"
  /\ outcome' = [outcome EXCEPT ![c] = Nothing]
  /\ pc' = [pc EXCEPT ![c] = IF c \in PolicyCallers THEN "withdrawing" ELSE "read"]
  /\ UNCHANGED <<request, reply, host, question, alone, reporting>>

\* After a reply, and in agent::* after the deadline too, the reply node goes.
Finish(c) ==
  /\ pc[c] = "read"
  /\ reply' = [reply EXCEPT ![ChannelOf[c]] = Missing]
  /\ pc' = [pc EXCEPT ![c] = "idle"]
  /\ UNCHANGED <<request, host, question, outcome, alone, reporting>>

\* Mutant of Withdraw: the reply node is removed where the question was meant.
WithdrawReply(c) ==
  /\ pc[c] = "withdrawing"
  /\ reply' = [reply EXCEPT ![ChannelOf[c]] = Missing]
  /\ pc' = [pc EXCEPT ![c] = "idle"]
  /\ UNCHANGED <<request, host, question, outcome, alone, reporting>>

\* After the deadline, check_policy removes the question node.
Withdraw(c) ==
  /\ pc[c] = "withdrawing"
  /\ request' = [request EXCEPT ![ChannelOf[c]] = Missing]
  /\ pc' = [pc EXCEPT ![c] = "idle"]
  /\ UNCHANGED <<reply, host, question, outcome, alone, reporting>>

\* The host, which is not part of the repository: it takes a question, and
\* some time later writes what it decided.
HostTakes(ch) ==
  /\ request[ch] # Missing /\ host[ch] = Missing
  /\ host' = [host EXCEPT ![ch] = request[ch]]
  /\ request' = [request EXCEPT ![ch] = Missing]
  /\ UNCHANGED <<reply, pc, question, outcome, alone, reporting>>

HostAnswers(ch) ==
  /\ host[ch] # Missing
  /\ \E ok \in BOOLEAN :
       reply' = [reply EXCEPT ![ch] =
                   [ok |-> ok, to |-> host[ch], during |-> {c \in Callers : pc[c] # "idle"}]]
  /\ host' = [host EXCEPT ![ch] = Missing]
  /\ UNCHANGED <<request, pc, question, outcome, alone, reporting>>

-----------------------------------------------------------------------------
(* agent::report: push, and when that fails add_list and push again.       *)

Pushed(r) ==
  /\ reports' = reports \cup {r}
  /\ reporter' = [reporter EXCEPT ![r] = "reported"]
  /\ kept' = IF \E other \in Reporters \ {r} : reporter[other] = "adding" THEN kept ELSE kept \cup {r}

\* Mutant of Report: every report begins with a new list.
ReportAnew(r) ==
  /\ reporter[r] = "idle"
  /\ reporter' = [reporter EXCEPT ![r] = "adding"]
  /\ UNCHANGED <<reports, kept>>
  /\ UNCHANGED asking

Report(r) ==
  /\ reporter[r] = "idle"
  /\ IF reports = Missing
     THEN reporter' = [reporter EXCEPT ![r] = "adding"] /\ UNCHANGED <<reports, kept>>
     ELSE Pushed(r)
  /\ UNCHANGED asking

\* add_list makes a new list whatever is there.
AddReports(r) ==
  /\ reporter[r] = "adding"
  /\ reports' = {}
  /\ reporter' = [reporter EXCEPT ![r] = "again"]
  /\ UNCHANGED <<asking, kept>>

ReportAgain(r) ==
  /\ reporter[r] = "again"
  /\ IF reports = Missing
     THEN reporter' = [reporter EXCEPT ![r] = "failed"] /\ UNCHANGED <<reports, kept>>
     ELSE Pushed(r)
  /\ UNCHANGED asking

\* The host takes the reports, and the node with them.
HostDrains ==
  /\ reports # Missing
  /\ reports' = Missing
  /\ kept' = {}
  /\ UNCHANGED <<asking, reporter>>

-----------------------------------------------------------------------------
Call(c) ==
  \/ Ask(c)
  \/ Read(c)
  \/ GiveUp(c)
  \/ Finish(c)
  \/ Withdraw(c)

Next ==
  \/ \E c \in Callers : AgentCall(c) \/ Settled(c) \/ PolicyCall(c) \/ Call(c)
  \/ \E ch \in Channels : HostTakes(ch) \/ HostAnswers(ch)
  \/ \E r \in Reporters : Report(r) \/ AddReports(r) \/ ReportAgain(r)
  \/ HostDrains

\* A caller's thread is scheduled, and its clock runs.  The host owes nothing.
Spec == Init /\ [][Next]_vars /\ \A c \in Callers : WF_vars(Call(c))

-----------------------------------------------------------------------------
(* Properties *)

\* The types of the variables.
TypeOK ==
  /\ request \in [Channels -> Question \cup {Missing}]
  /\ host \in [Channels -> Question \cup {Missing}]
  /\ reply \in [Channels -> Reply \cup {Missing}]
  /\ pc \in [Callers -> {"idle", "asking", "waiting", "read", "withdrawing"}]
  /\ question \in [Callers -> Question \cup {Missing}]
  /\ outcome \in [Callers -> Outcome]
  /\ alone \in [Callers -> BOOLEAN]
  /\ reports = Missing \/ reports \subseteq Reporters
  /\ reporter \in [Reporters -> {"idle", "adding", "again", "reported", "failed"}]
  /\ kept \subseteq Reporters

\* A reply written before the call began is never taken for its answer,
\* however many callers share the nodes (the removal before the question).
FreshReply == \A c \in Callers : outcome[c].fresh

\* A caller whose question is the only one about is served.  An answer it gets is
\* to that question; while it waits the question is not lost, but in the node,
\* with the host, or answered; and once it no longer waits, a command is not left
\* for the host to decide (check_policy's removal at the deadline; agent::* leaves
\* its question).
AloneIsServed ==
  \A c \in Callers : alone[c] =>
    LET ch == ChannelOf[c]
        asked == request[ch] # Missing /\ request[ch].by = c
    IN  /\ outcome[c].own
        /\ pc[c] = "waiting" => \/ question[c] \in {request[ch], host[ch]}
                                \/ reply[ch] # Missing /\ reply[ch].to = question[c]
        /\ c \in PolicyCallers /\ asked => pc[c] # "idle"

\* A report that was made is there for the host until the host takes it.  Only
\* one made while another thread, which had found no list, was about to make one
\* can be lost (agent_report calls add_list without looking again).
ReportsKept == kept # {} => reports # Missing /\ kept \subseteq reports

\* No caller hangs while the host is away (the module's documentation, 14-15).
AskReturns == \A c \in Callers : pc[c] = "waiting" ~> pc[c] = "idle"

\* process_module.rs:1027-1028: what the host approves is the real command.
\* The code: a reply carries no identifier, and is taken by whoever waits.
AnswersTheQuestion == \A c \in PolicyCallers : outcome[c].ok => outcome[c].own
=============================================================================
