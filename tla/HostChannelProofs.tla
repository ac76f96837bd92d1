------------------------- MODULE HostChannelProofs --------------------------
(***************************************************************************)
(* The safety of the channel to the host, for any number of callers,       *)
(* channels and reporters.                                                 *)
(***************************************************************************)
EXTENDS HostChannel, TLAPS

-----------------------------------------------------------------------------
(* Types                                                                   *)

\* A call that begins leaves the types alone.
LEMMA BeginTypes ==
  ASSUME TypeOK, NEW c \in Callers, NEW what \in Questions \cup Commands, Begin(c, what),
         UNCHANGED reporting
  PROVE  TypeOK'
<1>1. [by |-> c, what |-> what] \in Question
  BY DEF Question
<1>2. Nothing \in Outcome
  BY DEF Nothing, Outcome
<1>3. alone' \in [Callers -> BOOLEAN]
  <2>1. \A d \in Callers :
          (IF d = c THEN Quiet(c) ELSE alone[d] /\ d \notin Others(c)) \in BOOLEAN
    BY DEF TypeOK, Quiet
  <2> QED
    BY <2>1 DEF Begin
<1> QED
  BY <1>1, <1>2, <1>3 DEF TypeOK, Begin, reporting

\* A push leaves the types alone.
LEMMA PushedTypes ==
  ASSUME TypeOK, NEW r \in Reporters, reports # Missing, Pushed(r), UNCHANGED asking
  PROVE  TypeOK'
BY DEF TypeOK, Pushed, asking

\* So does every step.
LEMMA StepTypes == ASSUME TypeOK, [Next]_vars PROVE TypeOK'
<1>1. ASSUME NEW c \in Callers, AgentCall(c) PROVE TypeOK'
  BY <1>1, BeginTypes DEF AgentCall
<1>2. ASSUME NEW c \in Callers, Settled(c) PROVE TypeOK'
  <2>1. \A b \in BOOLEAN : [Nothing EXCEPT !.ok = b] \in Outcome
    BY DEF Nothing, Outcome
  <2>2. PICK b \in BOOLEAN : outcome' = [outcome EXCEPT ![c] = [Nothing EXCEPT !.ok = b]]
    BY <1>2, Zenon DEF Settled
  <2> QED
    BY <1>2, <2>1, <2>2 DEF TypeOK, Settled, reporting
<1>3. ASSUME NEW c \in Callers, PolicyCall(c) PROVE TypeOK'
  BY <1>3, BeginTypes DEF PolicyCall
<1>4. ASSUME NEW c \in Callers, Ask(c) PROVE TypeOK'
  BY <1>4, CallersAssumption DEF TypeOK, Ask, reporting
<1>5. ASSUME NEW c \in Callers, Read(c) PROVE TypeOK'
  <2> DEFINE r == reply[ChannelOf[c]]
             fresh == c \in r.during
             own == r.to = question[c]
  <2>1. r.ok \in BOOLEAN
    BY <1>5, CallersAssumption DEF TypeOK, Read, Reply
  <2>2. fresh \in BOOLEAN /\ own \in BOOLEAN
    OBVIOUS
  <2>3. outcome' = [outcome EXCEPT ![c] = [ok |-> r.ok, fresh |-> fresh, own |-> own]]
    BY <1>5, Zenon DEF Read
  <2> HIDE DEF r, fresh, own
  <2>4. [ok |-> r.ok, fresh |-> fresh, own |-> own] \in Outcome
    BY <2>1, <2>2 DEF Outcome
  <2> QED
    BY <1>5, <2>3, <2>4 DEF TypeOK, Read, reporting
<1>6. ASSUME NEW c \in Callers, GiveUp(c) PROVE TypeOK'
  BY <1>6 DEF TypeOK, GiveUp, Nothing, Outcome, reporting
<1>7. ASSUME NEW c \in Callers, Finish(c) PROVE TypeOK'
  BY <1>7 DEF TypeOK, Finish, reporting
<1>8. ASSUME NEW c \in Callers, Withdraw(c) PROVE TypeOK'
  BY <1>8 DEF TypeOK, Withdraw, reporting
<1>9. ASSUME NEW ch \in Channels, HostTakes(ch) PROVE TypeOK'
  BY <1>9 DEF TypeOK, HostTakes, reporting
<1>10. ASSUME NEW ch \in Channels, HostAnswers(ch) PROVE TypeOK'
  BY <1>10 DEF TypeOK, HostAnswers, Reply, reporting
<1>11. ASSUME NEW r \in Reporters, Report(r) PROVE TypeOK'
  <2>1. CASE reports = Missing
    BY <1>11, <2>1 DEF TypeOK, Report, asking
  <2>2. CASE reports # Missing
    BY <1>11, <2>2, PushedTypes DEF Report
  <2> QED
    BY <2>1, <2>2
<1>12. ASSUME NEW r \in Reporters, AddReports(r) PROVE TypeOK'
  BY <1>12 DEF TypeOK, AddReports, asking
<1>13. ASSUME NEW r \in Reporters, ReportAgain(r) PROVE TypeOK'
  <2>1. CASE reports = Missing
    BY <1>13, <2>1 DEF TypeOK, ReportAgain, asking
  <2>2. CASE reports # Missing
    BY <1>13, <2>2, PushedTypes DEF ReportAgain
  <2> QED
    BY <2>1, <2>2
<1>14. CASE HostDrains
  BY <1>14 DEF TypeOK, HostDrains, asking
<1>15. CASE UNCHANGED vars
  BY <1>15 DEF TypeOK, vars, asking, reporting
<1> QED
  BY <1>1, <1>2, <1>3, <1>4, <1>5, <1>6, <1>7, <1>8, <1>9, <1>10, <1>11, <1>12, <1>13,
     <1>14, <1>15
  DEF Next, Call

\* The types of the variables hold throughout: the nodes hold questions and replies
\* or nothing, and a call is at one of its five points.
THEOREM TypesHold == Spec => []TypeOK
<1>1. Init => TypeOK
  BY DEF Init, TypeOK, Nothing, Outcome
<1> QED
  BY <1>1, StepTypes, PTL DEF Spec

-----------------------------------------------------------------------------
(* Freshness                                                               *)

Asking(c) == pc[c] \in {"asking", "waiting"}

\* A reply that is there while a caller asks was written since it began.
FreshInv ==
  \A c \in Callers :
    /\ outcome[c].fresh
    /\ Asking(c) /\ reply[ChannelOf[c]] # Missing => c \in reply[ChannelOf[c]].during

\* A call that begins takes the old reply away.
LEMMA BeginFresh ==
  ASSUME TypeOK, FreshInv, NEW c \in Callers, NEW what, Begin(c, what)
  PROVE  FreshInv'
BY CallersAssumption DEF TypeOK, FreshInv, Asking, Begin, Nothing

\* Every step keeps replies fresh.
LEMMA StepFresh == ASSUME TypeOK, FreshInv, [Next]_vars PROVE FreshInv'
<1>1. ASSUME NEW c \in Callers, AgentCall(c) PROVE FreshInv'
  BY <1>1, BeginFresh DEF AgentCall
<1>2. ASSUME NEW c \in Callers, Settled(c) PROVE FreshInv'
  <2>1. \A b \in BOOLEAN : [Nothing EXCEPT !.ok = b].fresh
    BY DEF Nothing
  <2>2. PICK b \in BOOLEAN : outcome' = [outcome EXCEPT ![c] = [Nothing EXCEPT !.ok = b]]
    BY <1>2, Zenon DEF Settled
  <2> QED
    BY <1>2, <2>1, <2>2 DEF TypeOK, FreshInv, Asking, Settled
<1>3. ASSUME NEW c \in Callers, PolicyCall(c) PROVE FreshInv'
  BY <1>3, BeginFresh DEF PolicyCall
<1>4. ASSUME NEW c \in Callers, Ask(c) PROVE FreshInv'
  BY <1>4 DEF TypeOK, FreshInv, Asking, Ask
<1>5. ASSUME NEW c \in Callers, Read(c) PROVE FreshInv'
  <2>1. c \in reply[ChannelOf[c]].during
    BY <1>5 DEF FreshInv, Asking, Read
  <2>2. PICK ok, own :
          outcome' = [outcome EXCEPT ![c] =
                        [ok |-> ok, fresh |-> c \in reply[ChannelOf[c]].during, own |-> own]]
    BY <1>5, Zenon DEF Read
  <2>3. outcome'[c].fresh /\ \A d \in Callers \ {c} : outcome'[d] = outcome[d]
    BY <2>1, <2>2 DEF TypeOK
  <2> QED
    BY <1>5, <2>3 DEF TypeOK, FreshInv, Asking, Read
<1>6. ASSUME NEW c \in Callers, GiveUp(c) PROVE FreshInv'
  BY <1>6 DEF TypeOK, FreshInv, Asking, GiveUp, Nothing
<1>7. ASSUME NEW c \in Callers, Finish(c) PROVE FreshInv'
  BY <1>7, CallersAssumption DEF TypeOK, FreshInv, Asking, Finish
<1>8. ASSUME NEW c \in Callers, Withdraw(c) PROVE FreshInv'
  BY <1>8 DEF TypeOK, FreshInv, Asking, Withdraw
<1>9. ASSUME NEW ch \in Channels, HostTakes(ch) PROVE FreshInv'
  BY <1>9 DEF FreshInv, Asking, HostTakes
<1>10. ASSUME NEW ch \in Channels, HostAnswers(ch) PROVE FreshInv'
  <2>1. \A c \in Callers : Asking(c) => c \in {d \in Callers : pc[d] # "idle"}
    BY DEF Asking
  <2> QED
    BY <1>10, <2>1, CallersAssumption DEF TypeOK, FreshInv, Asking, HostAnswers
<1>11. CASE UNCHANGED asking
  BY <1>11 DEF FreshInv, Asking, asking
<1> QED
  BY <1>1, <1>2, <1>3, <1>4, <1>5, <1>6, <1>7, <1>8, <1>9, <1>10, <1>11
  DEF Next, Call, Report, AddReports, ReportAgain, HostDrains, vars

\* A call never takes a reply that was written before it began, however many
\* callers share the nodes: each call removes the reply first.
THEOREM RepliesAreFresh == Spec => []FreshReply
<1>1. Init => FreshInv
  BY DEF Init, FreshInv, Asking, Nothing
<1>2. FreshInv => FreshReply
  BY DEF FreshInv, FreshReply
<1> QED
  BY <1>1, <1>2, StepFresh, TypesHold, PTL DEF Spec

-----------------------------------------------------------------------------
(* Reports                                                                 *)

\* Nobody is about to make the list while it holds reports to keep.
ReportInv ==
  /\ ReportsKept
  /\ (\E r \in Reporters : reporter[r] = "adding") => kept = {}

\* A push adds to the reports and takes none.
LEMMA PushedReport ==
  ASSUME TypeOK, ReportInv, NEW r \in Reporters, reports # Missing, Pushed(r)
  PROVE  ReportInv'
<1>1. reports' \in SUBSET Reporters /\ reports' # Missing
  BY MissingAssumption DEF TypeOK, Pushed
<1>2. kept' \subseteq reports'
  BY DEF ReportInv, ReportsKept, Pushed
<1>3. ASSUME NEW s \in Reporters, reporter'[s] = "adding" PROVE kept' = {}
  <2>1. s # r /\ reporter[s] = "adding"
    BY <1>3 DEF TypeOK, Pushed
  <2> QED
    BY <2>1 DEF ReportInv, Pushed
<1> QED
  BY <1>1, <1>2, <1>3 DEF ReportInv, ReportsKept

\* Every step keeps the reports.
LEMMA StepReport == ASSUME TypeOK, ReportInv, [Next]_vars PROVE ReportInv'
<1>1. ASSUME NEW r \in Reporters, Report(r) PROVE ReportInv'
  <2>1. CASE reports = Missing
    BY <1>1, <2>1 DEF TypeOK, ReportInv, ReportsKept, Report
  <2>2. CASE reports # Missing
    BY <1>1, <2>2, PushedReport DEF Report
  <2> QED
    BY <2>1, <2>2
<1>2. ASSUME NEW r \in Reporters, AddReports(r) PROVE ReportInv'
  BY <1>2 DEF TypeOK, ReportInv, ReportsKept, AddReports
<1>3. ASSUME NEW r \in Reporters, ReportAgain(r) PROVE ReportInv'
  <2>1. CASE reports = Missing
    BY <1>3, <2>1 DEF TypeOK, ReportInv, ReportsKept, ReportAgain
  <2>2. CASE reports # Missing
    BY <1>3, <2>2, PushedReport DEF ReportAgain
  <2> QED
    BY <2>1, <2>2
<1>4. CASE HostDrains
  BY <1>4 DEF ReportInv, ReportsKept, HostDrains
<1>5. CASE UNCHANGED reporting
  BY <1>5 DEF ReportInv, ReportsKept, reporting
<1>6. \A c \in Callers :
        AgentCall(c) \/ Settled(c) \/ PolicyCall(c) \/ Call(c) => UNCHANGED reporting
  BY DEF AgentCall, Settled, PolicyCall, Call, Ask, Read, GiveUp, Finish, Withdraw, reporting
<1>7. \A ch \in Channels : HostTakes(ch) \/ HostAnswers(ch) => UNCHANGED reporting
  BY DEF HostTakes, HostAnswers, reporting
<1> QED
  BY <1>1, <1>2, <1>3, <1>4, <1>5, <1>6, <1>7 DEF Next, vars

\* Reports pushed while no thread was about to make the list stay until the host takes
\* them, for any number of reporting threads.
THEOREM ReportsAreKept == Spec => []ReportsKept
<1>1. Init => ReportInv
  BY DEF Init, ReportInv, ReportsKept
<1>2. ReportInv => ReportsKept
  BY DEF ReportInv
<1> QED
  BY <1>1, <1>2, StepReport, TypesHold, PTL DEF Spec

-----------------------------------------------------------------------------
(* The only question about                                                 *)

\* A caller inside a call has a question, and it is its own.
AskedInv ==
  \A c \in Callers : pc[c] # "idle" => question[c] \in Question /\ question[c].by = c

Answered(c) == reply[ChannelOf[c]] # Missing

\* The only question about, through its life: it is nowhere, then in one of three
\* places, and, if it was a command, nowhere again.
Mine(c) ==
  LET ch == ChannelOf[c]
  IN  /\ Others(c) = {}
      /\ request[ch] \in {Missing, question[c]}
      /\ host[ch] \in {Missing, question[c]}
      /\ Answered(c) => reply[ch].to = question[c]
      /\ pc[c] = "asking" => request[ch] = Missing /\ host[ch] = Missing /\ ~Answered(c)
      /\ pc[c] = "waiting" => request[ch] # Missing \/ host[ch] # Missing \/ Answered(c)
      /\ host[ch] # Missing => request[ch] = Missing /\ ~Answered(c)
      /\ Answered(c) => request[ch] = Missing
      /\ pc[c] = "read" /\ c \in PolicyCallers => request[ch] = Missing

\* A caller whose question is the only one about: in the call the question is in its
\* place, and after a call of check_policy it is not in the node.
Served(c) ==
  /\ outcome[c].own
  /\ pc[c] # "idle" => Mine(c)
  /\ pc[c] = "idle" /\ c \in PolicyCallers /\ request[ChannelOf[c]] # Missing =>
       request[ChannelOf[c]].by # c

AloneInv == AskedInv /\ \A c \in Callers : alone[c] => Served(c)

\* A call that begins alone is served so far, and one that does not leaves the others
\* either no longer alone or undisturbed.
LEMMA BeginAlone ==
  ASSUME TypeOK, AloneInv, NEW c \in Callers, NEW what \in Questions \cup Commands,
         pc[c] = "idle", Begin(c, what)
  PROVE  AloneInv'
<1>1. AskedInv'
  BY DEF TypeOK, AloneInv, AskedInv, Begin, Question
<1>2. ASSUME alone'[c] PROVE Served(c)'
  <2>1. Quiet(c)
    BY <1>2 DEF TypeOK, Begin
  <2>2. Others(c)' = {}
    BY <2>1 DEF TypeOK, Quiet, Others, Begin
  <2>3. outcome'[c].own /\ pc'[c] = "asking"
    BY DEF TypeOK, Begin, Nothing
  <2>4. /\ request'[ChannelOf[c]] = Missing /\ host'[ChannelOf[c]] = Missing
        /\ reply'[ChannelOf[c]] = Missing
    BY <2>1, CallersAssumption DEF TypeOK, Quiet, Begin
  <2> QED
    BY <2>2, <2>3, <2>4 DEF Served, Mine, Answered
<1>3. ASSUME NEW d \in Callers \ {c}, alone'[d] PROVE Served(d)'
  <2>1. alone[d] /\ d \notin Others(c)
    BY <1>3 DEF Begin
  <2>2. Served(d)
    BY <2>1 DEF AloneInv
  <2>3. pc'[d] = pc[d] /\ question'[d] = question[d] /\ outcome'[d] = outcome[d]
    BY DEF TypeOK, Begin
  <2>4. CASE pc[d] = "idle"
    BY <2>2, <2>3, <2>4 DEF Served, Begin
  <2>5. CASE pc[d] # "idle"
    <3>1. ChannelOf[d] # ChannelOf[c]
      BY <2>1, <2>5 DEF Others
    <3>2. reply'[ChannelOf[d]] = reply[ChannelOf[d]]
      BY <3>1, CallersAssumption DEF TypeOK, Begin
    <3>3. Others(d)' = Others(d)
      BY <3>1 DEF TypeOK, Others, Begin
    <3> QED
      BY <2>2, <2>3, <2>5, <3>2, <3>3 DEF Served, Mine, Answered, Begin
  <2> QED
    BY <2>4, <2>5
<1> QED
  BY <1>1, <1>2, <1>3 DEF AloneInv

\* What a step of c inside its call does to the others that are alone: nothing, since
\* one on the same channel is not in a call.
LEMMA OtherAlone ==
  ASSUME TypeOK, AloneInv, NEW c \in Callers, pc[c] # "idle",
         NEW d \in Callers \ {c}, alone[d],
         question' = question,
         outcome'[d] = outcome[d], \A e \in Callers \ {c} : pc'[e] = pc[e],
         \A ch \in Channels \ {ChannelOf[c]} :
           request'[ch] = request[ch] /\ host'[ch] = host[ch] /\ reply'[ch] = reply[ch],
         request'[ChannelOf[c]] \in {request[ChannelOf[c]], question[c], Missing}
  PROVE  Served(d)'
<1>1. Served(d)
  BY DEF AloneInv
<1>2. CASE ChannelOf[d] = ChannelOf[c]
  <2>1. c \in Others(d)
    BY <1>2 DEF Others
  <2>2. pc[d] = "idle" /\ pc'[d] = "idle"
    BY <1>1, <2>1 DEF Served, Mine
  <2>3. question[c].by = c
    BY DEF AloneInv, AskedInv
  <2> QED
    BY <1>1, <1>2, <2>2, <2>3 DEF Served
<1>3. CASE ChannelOf[d] # ChannelOf[c]
  <2>1. Others(d)' = Others(d)
    BY <1>3 DEF Others
  <2>2. ChannelOf[d] \in Channels \ {ChannelOf[c]}
    BY <1>3, CallersAssumption
  <2> QED
    BY <1>1, <2>1, <2>2 DEF Served, Mine, Answered
<1> QED
  BY <1>2, <1>3

\* A step of a caller inside its call.
LEMMA CallAlone ==
  ASSUME TypeOK, AloneInv, NEW c \in Callers, Call(c)
  PROVE  AloneInv'
<1> DEFINE ch == ChannelOf[c]
<1>1. pc[c] # "idle" /\ question[c] \in Question /\ question[c].by = c /\ question[c] # Missing
  BY MissingAssumption DEF Call, Ask, Read, GiveUp, Finish, Withdraw, AloneInv, AskedInv
<1>2. question' = question /\ alone' = alone /\ host' = host
  BY DEF Call, Ask, Read, GiveUp, Finish, Withdraw
<1>3. \A e \in Callers \ {c} : pc'[e] = pc[e] /\ outcome'[e] = outcome[e]
  BY DEF Call, Ask, Read, GiveUp, Finish, Withdraw, TypeOK
<1>4. \A k \in Channels \ {ch} : request'[k] = request[k] /\ reply'[k] = reply[k]
  BY DEF Call, Ask, Read, GiveUp, Finish, Withdraw, TypeOK
<1>5. request'[ch] \in {request[ch], question[c], Missing}
  BY CallersAssumption DEF Call, Ask, Read, GiveUp, Finish, Withdraw, TypeOK
<1>6. AskedInv'
  BY <1>1, <1>2, <1>3 DEF AloneInv, AskedInv
<1>7. ASSUME NEW d \in Callers \ {c}, alone[d] PROVE Served(d)'
  BY <1>1, <1>2, <1>3, <1>4, <1>5, <1>7, OtherAlone
<1>8. ASSUME alone[c] PROVE Served(c)'
  <2>1. outcome[c].own /\ Mine(c)
    BY <1>1, <1>8 DEF AloneInv, Served
  <2>2. Others(c)' = {}
    BY <1>3, <2>1 DEF Others, Mine
  <2>3. CASE Ask(c)
    <3>1. pc[c] = "asking" /\ pc'[c] = "waiting" /\ outcome' = outcome /\ reply' = reply
      BY <2>3 DEF TypeOK, Ask
    <3>2. request'[ch] = question[c]
      BY <2>3, CallersAssumption DEF TypeOK, Ask
    <3> QED
      BY <1>1, <1>2, <2>1, <2>2, <3>1, <3>2 DEF Served, Mine, Answered
  <2>4. CASE Read(c)
    <3>1. pc[c] = "waiting" /\ pc'[c] = "read" /\ request' = request /\ reply' = reply
      BY <2>4 DEF TypeOK, Read
    <3>2. Answered(c)
      BY <2>4 DEF Read, Answered
    <3>3. reply[ch].to = question[c] /\ request[ch] = Missing
      BY <2>1, <3>2 DEF Mine
    <3>4. PICK ok, fresh :
            outcome' = [outcome EXCEPT ![c] =
                          [ok |-> ok, fresh |-> fresh, own |-> reply[ch].to = question[c]]]
      BY <2>4, Zenon DEF Read
    <3>5. outcome'[c].own
      BY <3>3, <3>4 DEF TypeOK
    <3> QED
      BY <1>2, <2>1, <2>2, <3>1, <3>2, <3>3, <3>5 DEF Served, Mine, Answered
  <2>5. CASE GiveUp(c)
    <3>1. /\ pc[c] = "waiting" /\ request' = request /\ reply' = reply
          /\ pc'[c] = (IF c \in PolicyCallers THEN "withdrawing" ELSE "read")
          /\ outcome'[c].own
      BY <2>5 DEF TypeOK, GiveUp, Nothing
    <3> QED
      BY <1>2, <2>1, <2>2, <3>1 DEF Served, Mine, Answered
  <2>6. CASE Finish(c)
    <3>1. pc[c] = "read" /\ pc'[c] = "idle" /\ outcome' = outcome /\ request' = request
      BY <2>6 DEF TypeOK, Finish
    <3> QED
      BY <2>1, <3>1 DEF Served, Mine
  <2>7. CASE Withdraw(c)
    <3>1. pc'[c] = "idle" /\ outcome' = outcome /\ request'[ch] = Missing
      BY <2>7, CallersAssumption DEF TypeOK, Withdraw
    <3> QED
      BY <2>1, <3>1 DEF Served
  <2> QED
    BY <2>3, <2>4, <2>5, <2>6, <2>7 DEF Call
<1> QED
  BY <1>2, <1>6, <1>7, <1>8 DEF AloneInv

\* A step of the host on the channel of a caller.
LEMMA HostAlone ==
  ASSUME TypeOK, AloneInv, NEW k \in Channels, HostTakes(k) \/ HostAnswers(k)
  PROVE  AloneInv'
<1>1. /\ question' = question /\ alone' = alone /\ pc' = pc /\ outcome' = outcome
      /\ \A j \in Channels \ {k} :
           request'[j] = request[j] /\ host'[j] = host[j] /\ reply'[j] = reply[j]
  BY DEF HostTakes, HostAnswers, TypeOK
<1>2. AskedInv'
  BY <1>1 DEF AloneInv, AskedInv
<1>3. ASSUME NEW c \in Callers, alone[c] PROVE Served(c)'
  <2>1. Served(c)
    BY <1>3 DEF AloneInv
  <2>2. Others(c)' = Others(c)
    BY <1>1 DEF Others
  <2>3. CASE ChannelOf[c] # k
    <3>1. ChannelOf[c] \in Channels \ {k}
      BY <2>3, CallersAssumption
    <3> QED
      BY <1>1, <2>1, <2>2, <3>1 DEF Served, Mine, Answered
  <2>4. CASE ChannelOf[c] = k /\ HostTakes(k)
    <3>1. /\ request[k] # Missing /\ host[k] = Missing /\ reply' = reply
          /\ request'[k] = Missing /\ host'[k] = request[k]
      BY <2>4 DEF TypeOK, HostTakes
    <3> QED
      BY <1>1, <2>1, <2>2, <2>4, <3>1 DEF Served, Mine, Answered
  <2>5. CASE ChannelOf[c] = k /\ HostAnswers(k)
    <3>1. /\ host[k] # Missing /\ host'[k] = Missing /\ request' = request
          /\ reply'[k] \in Reply /\ reply'[k].to = host[k]
      BY <2>5 DEF TypeOK, HostAnswers, Reply
    <3>2. reply'[k] # Missing
      BY <3>1, MissingAssumption
    <3> QED
      BY <1>1, <2>1, <2>2, <2>5, <3>1, <3>2 DEF Served, Mine, Answered
  <2> QED
    BY <2>3, <2>4, <2>5
<1> QED
  BY <1>1, <1>2, <1>3 DEF AloneInv

\* Every step serves those who are alone.
LEMMA StepAlone == ASSUME TypeOK, AloneInv, [Next]_vars PROVE AloneInv'
<1>1. ASSUME NEW c \in Callers, AgentCall(c) PROVE AloneInv'
  BY <1>1, BeginAlone DEF AgentCall
<1>2. ASSUME NEW c \in Callers, Settled(c) PROVE AloneInv'
  <2>1. \A b \in BOOLEAN : [Nothing EXCEPT !.ok = b].own
    BY DEF Nothing
  <2>2. PICK b \in BOOLEAN : outcome' = [outcome EXCEPT ![c] = [Nothing EXCEPT !.ok = b]]
    BY <1>2, Zenon DEF Settled
  <2>3. \A d \in Callers : outcome[d].own => outcome'[d].own
    BY <2>1, <2>2 DEF TypeOK
  <2> QED
    BY <1>2, <2>3 DEF AloneInv, AskedInv, Served, Mine, Answered, Others, Settled
<1>3. ASSUME NEW c \in Callers, PolicyCall(c) PROVE AloneInv'
  BY <1>3, BeginAlone DEF PolicyCall
<1>4. CASE UNCHANGED asking
  BY <1>4 DEF AloneInv, AskedInv, Served, Mine, Answered, Others, asking
<1> QED
  BY <1>1, <1>2, <1>3, <1>4, CallAlone, HostAlone
  DEF Next, Report, AddReports, ReportAgain, HostDrains, vars

\* A caller whose question is the only one on its channel is served: an answer it gets
\* is to that question, the question is not lost while it waits, and a command is not
\* left to be decided once check_policy has returned.
THEOREM TheLoneCallerIsServed == Spec => []AloneIsServed
<1>1. Init => AloneInv
  BY CallersAssumption DEF Init, AloneInv, AskedInv, Served, Nothing
<1>2. ASSUME TypeOK, AloneInv PROVE AloneIsServed
  <2> SUFFICES ASSUME NEW c \in Callers, alone[c]
               PROVE  LET ch == ChannelOf[c]
                          asked == request[ch] # Missing /\ request[ch].by = c
                      IN  /\ outcome[c].own
                          /\ pc[c] = "waiting" =>
                               \/ question[c] \in {request[ch], host[ch]}
                               \/ reply[ch] # Missing /\ reply[ch].to = question[c]
                          /\ c \in PolicyCallers /\ asked => pc[c] # "idle"
    BY DEF AloneIsServed
  <2>1. Served(c)
    BY <1>2 DEF AloneInv
  <2> QED
    BY <2>1 DEF Served, Mine, Answered
<1> QED
  BY <1>1, <1>2, StepAlone, TypesHold, PTL DEF Spec
=============================================================================
