------------------------------ MODULE WsServer ------------------------------
(***************************************************************************)
(* The WebSocket side of http::serve, vm/src/http_module.rs: the list      *)
(* local/ws of the memory mount (a FixVec), the map WS_SENDERS from an     *)
(* index to the channel of a connection, one task for each connection      *)
(* (handle_socket) with a writer task of its own, and scripts that send to *)
(* an index they learned from a connect message.                           *)
(*                                                                         *)
(* A step holds one lock once, or none: the lock of the list, or the mutex *)
(* of WS_SENDERS.                                                          *)
(***************************************************************************)
EXTENDS FixVec, FiniteSets

CONSTANTS
  Servers,    \* the calls of http::serve
  Conns,      \* the connections, each of which may come back
  Calls,      \* the scripts that call root::send_idx
  Handle,     \* the native handler pushed for every connection
  NoList,     \* local/ws does not exist
  MaxQueue    \* bound on the messages waiting for a writer

\* A list of handlers, the value of local/ws.
WsList == [buf : Seq({Handle, Blank}), useds : Seq(BOOLEAN), len : Nat]

ASSUME WsAssumption ==
  /\ IsFiniteSet(Conns)
  /\ Servers \cap Conns = {}
  /\ NoList \notin WsList

VARIABLES
  list,       \* the node local/ws
  senders,    \* WS_SENDERS: the connection whose channel an index leads to
  pc,         \* where each server and each connection is
  idx,        \* the local variable idx of handle_socket
  writer,     \* the writer task: "none", "on" or "ended"
  queue,      \* the channel out_tx -> out_rx
  calls,      \* the scripts' sends
  peak        \* history: the most connections that held an index at once

vars == <<list, senders, pc, idx, writer, queue, calls, peak>>

Commands == {"send", "close"}

\* A script's send: the index it uses, the connection it was told of under
\* that index (history), whether that connection has begun to leave (history).
NoCall == [state |-> "idle"]
Call == [state : {"held", "found"}, idx : Nat, to : Conns, stale : BOOLEAN]

Init ==
  /\ list = NoList
  /\ senders = [i \in {} |-> NoList]
  /\ pc = [p \in Servers \cup Conns |-> IF p \in Servers THEN "down" ELSE "away"]
  /\ idx = [c \in Conns |-> 0]
  /\ writer = [c \in Conns |-> "none"]
  /\ queue = [c \in Conns |-> <<>>]
  /\ calls = [k \in Calls |-> NoCall]
  /\ peak = 0

\* The connections that hold an index: from push to remove_idx.
Registered == {c \in Conns : pc[c] \in {"pushed", "serving", "closing", "unbound"}}

-----------------------------------------------------------------------------
(* ensure_ws_list: the test, then add_list, which replaces any node.       *)

Goes(p, state) == pc' = [pc EXCEPT ![p] = state]

\* prepare_server_runtime
Serve(s) ==
  /\ pc[s] = "down"
  /\ Goes(s, IF list = NoList THEN "adding" ELSE "up")
  /\ UNCHANGED <<list, senders, idx, writer, queue, calls, peak>>

\* register_ws_sender, for a connection whose upgrade was accepted.
Connect(c) ==
  /\ pc[c] = "away"
  /\ \E s \in Servers : pc[s] = "up"
  /\ Goes(c, IF list = NoList THEN "adding" ELSE "pushing")
  /\ UNCHANGED <<list, senders, idx, writer, queue, calls, peak>>

AddList(p) ==
  /\ pc[p] = "adding"
  /\ list' = NewFixVec
  /\ Goes(p, IF p \in Servers THEN "up" ELSE "pushing")
  /\ UNCHANGED <<senders, idx, writer, queue, calls, peak>>

-----------------------------------------------------------------------------
(* handle_socket *)

\* mount.push; without the list the connection is dropped.
Push(c) ==
  /\ pc[c] = "pushing"
  /\ list # NoList
  /\ idx' = [idx EXCEPT ![c] = FirstFree(list)]
  /\ list' = FixPush(list, Handle)
  /\ Goes(c, "pushed")
  /\ peak' = LET n == Cardinality(Registered) + 1 IN IF n > peak THEN n ELSE peak
  /\ UNCHANGED <<senders, writer, queue, calls>>

\* The channel is registered, the writer spawned, "connect" dispatched.
Bind(c) ==
  /\ pc[c] = "pushed"
  /\ senders' = [i \in DOMAIN senders \cup {idx[c]} |-> IF i = idx[c] THEN c ELSE senders[i]]
  /\ writer' = [writer EXCEPT ![c] = "on"]
  /\ Goes(c, "serving")
  /\ UNCHANGED <<list, idx, queue, calls, peak>>

Aged(c) ==
  [k \in Calls |->
     IF calls[k] # NoCall /\ calls[k].to = c THEN [calls[k] EXCEPT !.stale = TRUE]
     ELSE calls[k]]

\* Mutant of Leave: the slot is given back before the channel is taken down.
LeaveFreesSlot(c) ==
  /\ pc[c] = "serving"
  /\ list' = FixRemove(list, idx[c])
  /\ calls' = Aged(c)
  /\ Goes(c, "closing")
  /\ UNCHANGED <<senders, idx, writer, queue, peak>>

\* The socket closed or failed: "disconnect" is dispatched.
Leave(c) ==
  /\ pc[c] = "serving"
  /\ calls' = Aged(c)
  /\ Goes(c, "closing")
  /\ UNCHANGED <<list, senders, idx, writer, queue, peak>>

\* Mutant of Unbind: the channel stays registered.
UnbindNothing(c) ==
  /\ pc[c] = "closing"
  /\ Goes(c, "unbound")
  /\ UNCHANGED <<list, senders, idx, writer, queue, calls, peak>>

\* senders.remove(&idx_key)
Unbind(c) ==
  /\ pc[c] = "closing"
  /\ senders' = [i \in DOMAIN senders \ {idx[c]} |-> senders[i]]
  /\ Goes(c, "unbound")
  /\ UNCHANGED <<list, idx, writer, queue, calls, peak>>

\* Mutant of Free: the slot is never given back.
FreeNothing(c) ==
  /\ pc[c] = "unbound"
  /\ Goes(c, "freed")
  /\ UNCHANGED <<list, senders, idx, writer, queue, calls, peak>>

\* root::remove_idx("local/ws", idx)
Free(c) ==
  /\ pc[c] = "unbound"
  /\ list' = FixRemove(list, idx[c])
  /\ Goes(c, "freed")
  /\ UNCHANGED <<senders, idx, writer, queue, calls, peak>>

\* writer.abort(): what is still queued is dropped with the channel.
Abort(c) ==
  /\ pc[c] = "freed"
  /\ writer' = [writer EXCEPT ![c] = "none"]
  /\ queue' = [queue EXCEPT ![c] = <<>>]
  /\ idx' = [idx EXCEPT ![c] = 0]
  /\ Goes(c, "away")
  /\ UNCHANGED <<list, senders, calls, peak>>

\* The writer takes a command; a failed send or a close ends it, and the
\* channel with it.  It ends, too, once its sender is gone and nothing waits.
Write(c) ==
  /\ writer[c] = "on"
  /\ \/ /\ queue[c] # <<>> /\ Head(queue[c]) = "send"
        /\ queue' = [queue EXCEPT ![c] = Tail(@)]
        /\ UNCHANGED writer
     \/ /\ queue[c] # <<>> \/ pc[c] \in {"unbound", "freed"}
        /\ queue' = [queue EXCEPT ![c] = <<>>]
        /\ writer' = [writer EXCEPT ![c] = "ended"]
  /\ UNCHANGED <<list, senders, pc, idx, calls, peak>>

-----------------------------------------------------------------------------
(* root::send_idx("local/ws", i, message) from a script. *)

\* A connect handler keeps the index it was given.
Learn(k, c) ==
  /\ calls[k] = NoCall
  /\ pc[c] = "serving"
  /\ calls' = [calls EXCEPT ![k] = [state |-> "held", idx |-> idx[c], to |-> c, stale |-> FALSE]]
  /\ UNCHANGED <<list, senders, pc, idx, writer, queue, peak>>

\* send_idx_msg: get_idx copies the handler out of the list, or fails.
FindHandler(k) ==
  /\ calls[k] # NoCall /\ calls[k].state = "held"
  /\ calls' = [calls EXCEPT ![k] =
                 IF FixContains(list, calls[k].idx) THEN [@ EXCEPT !.state = "found"] ELSE NoCall]
  /\ UNCHANGED <<list, senders, pc, idx, writer, queue, peak>>

\* ws_send_native: the channel of that index, if it has one whose writer lives.
SendNative(k, command) ==
  /\ calls[k] # NoCall /\ calls[k].state = "found"
  /\ calls' = [calls EXCEPT ![k] = NoCall]
  /\ IF calls[k].idx \in DOMAIN senders /\ writer[senders[calls[k].idx]] = "on"
     THEN LET c == senders[calls[k].idx]
          IN  /\ Len(queue[c]) < MaxQueue
              /\ queue' = [queue EXCEPT ![c] = Append(@, command)]
     ELSE UNCHANGED queue
  /\ UNCHANGED <<list, senders, pc, idx, writer, peak>>

Next ==
  \/ \E s \in Servers : Serve(s)
  \/ \E p \in Servers \cup Conns : AddList(p)
  \/ \E c \in Conns :
       \/ Connect(c) \/ Push(c) \/ Bind(c) \/ Leave(c)
       \/ Unbind(c) \/ Free(c) \/ Abort(c) \/ Write(c)
  \/ \E k \in Calls, c \in Conns : Learn(k, c)
  \/ \E k \in Calls : FindHandler(k)
  \/ \E k \in Calls, command \in Commands : SendNative(k, command)

Spec == Init /\ [][Next]_vars

-----------------------------------------------------------------------------
(* Properties *)

\* The types of the variables.
TypeOK ==
  /\ list \in WsList \cup {NoList}
  /\ senders \in [DOMAIN senders -> Conns] /\ DOMAIN senders \subseteq Nat
  /\ \A s \in Servers : pc[s] \in {"down", "adding", "up"}
  /\ \A c \in Conns : pc[c] \in {"away", "adding", "pushing", "pushed", "serving", "closing",
                                 "unbound", "freed"}
  /\ idx \in [Conns -> Nat]
  /\ writer \in [Conns -> {"none", "on", "ended"}]
  /\ queue \in [Conns -> Seq(Commands)]
  /\ calls \in [Calls -> Call \cup {NoCall}]
  /\ peak \in Nat

\* The used slots of local/ws are those of the connections that hold one: a
\* slot is neither lost nor left behind, and the list does not grow with the
\* number of connections served, only with the number served at once (the
\* comment at remove_idx).
SlotsMatch ==
  list # NoList =>
    /\ FixIndices(list) = {idx[c] : c \in Registered}
    /\ list.len <= Capacity(list) /\ Capacity(list) <= peak

\* As long as a connection is served, an index a script learned from it leads
\* to its channel, through however many connections come and go meanwhile.
LiveIdxLeadsHome ==
  \A k \in Calls : calls[k] # NoCall /\ ~calls[k].stale =>
    /\ FixContains(list, calls[k].idx)
    /\ calls[k].idx \in DOMAIN senders
    /\ senders[calls[k].idx] = calls[k].to

\* WS_SENDERS holds no channel of a connection that is gone.
NoOrphanChannel ==
  \A i \in DOMAIN senders : pc[senders[i]] \in {"serving", "closing"} /\ idx[senders[i]] = i

\* The connections use local/ws as a table of slots.
Slots == INSTANCE SlotTable WITH
           Clients <- Conns, held <- [c \in Registered |-> idx[c]]
ImplementsSlotTable == Slots!Spec
=============================================================================
