------------------------------ MODULE Observers ------------------------------
(***************************************************************************)
(* The application main() of py_replica.py on top of the Signal and Replica *)
(* classes: two proxies s and s2 of the one cache "DifferentName", the      *)
(* observers main connects to their Signals before the loop runs, and the   *)
(* change() task that s2's `initialized` observer creates.                  *)
(*                                                                          *)
(* One connection is bound to the cache.  The Node.run task takes the       *)
(* packets of that connection in order (the framing and the dispatch table *)
(* are the business of ReplicaClient) and runs ReplicaPrivate.initialize or *)
(* ReplicaPrivate.invoke; a Signal emission runs every subscriber          *)
(* synchronously, inside that one handler.  An observer's effect is a      *)
(* printed line, an InvokePacket written through ReplicaPrivate.write, or  *)
(* a new task.                                                              *)
(*                                                                          *)
(* The source is a source of Simple as the spec describes it: its first    *)
(* packet is the InitPacket, it answers a property write with a            *)
(* PropertyChangePacket and the notify signal, and it may emit iChanged.    *)
(***************************************************************************)
EXTENDS Naturals, Sequences, SequencesExt

CONSTANTS
    Defaults,   \* Simple.defaults(): [2, -1.]
    InitVal,    \* the property vector of the InitPacket (Simple(3, 3.14))
    F1, F2,     \* the values change() writes to s2.f: 99.5, then 93.9
    IVals,      \* values the source may emit with iChanged
    MaxEmits,   \* bound on the iChanged emissions of the source
    NoPipe, P   \* None, and the one connection

ASSUME /\ Defaults # InitVal
       /\ F1 # F2
       /\ MaxEmits \in Nat

VARIABLES
    inbox,    \* packets of P not yet handled by Node.run, in order
    pipe,     \* ReplicaPrivate.pipe
    props,    \* ReplicaPrivate.properties
    made,     \* history: every InvokePacket the application asked for
    out,      \* InvokePackets written to P that the source has not read
    got,      \* InvokePackets the source has read, in order
    chg,      \* chg[k]: where the k-th change() task is
    emits     \* iChanged emissions of the source so far

vars == <<inbox, pipe, props, made, out, got, chg, emits>>

-----------------------------------------------------------------------------
(* Simple: the signal table, and the InvokePackets of callSlot/callSetter.  *)

Signals == <<"iChanged", "fChanged", "random">>

\* Replica.callSlot(index, *args) and callSetter(index, *args) as packets.
Call(index, callIndex, args) == [index |-> index, call |-> callIndex, args |-> args]

\* Simple.reset(): callSlot(1), Call.InvokeMetaMethod.
ResetCall == Call(1, 0, <<>>)

\* The setter of Simple.f: callSetter(1, f), Call.WriteProperty.
SetF(f) == Call(1, 2, <<f>>)

InitPacket(v)      == [kind |-> "InitPacket", val |-> v]
InvokePacket(i, a) == [kind |-> "InvokePacket", index |-> i, args |-> a]
PropertyChange(v)  == [kind |-> "PropertyChangePacket", val |-> v]

-----------------------------------------------------------------------------
(* Signal: a deque of subscribers.  main() connects them before the loop. *)

\* Signal.connect(func): self._slots.append(func).
Connect(slots, c) ==
    [slots EXCEPT ![c.x][c.sig] = Append(@, c.obs)]

Proxies == {"s", "s2"}

\* Every Signal of every proxy starts with an empty deque.
NoSlots == [x \in Proxies |-> [g \in {"initialized"} \cup ToSet(Signals) |-> <<>>]]

\* The connect calls of main(), in the order main makes them.
MainConnects ==
    << [x |-> "s",  sig |-> "iChanged",    obs |-> "handler3"],
       [x |-> "s",  sig |-> "iChanged",    obs |-> "handler7"],
       [x |-> "s",  sig |-> "initialized", obs |-> "reset"],
       [x |-> "s",  sig |-> "initialized", obs |-> "printNow"],
       [x |-> "s2", sig |-> "iChanged",    obs |-> "handler42"],
       [x |-> "s2", sig |-> "initialized", obs |-> "change"] >>

Slots == FoldLeft(Connect, NoSlots, MainConnects)

-----------------------------------------------------------------------------
(* Effects of the observers, threaded through one emission as a record    *)
(* [out, made, chg]; `bound` is the ReplicaPrivate's pipe while the        *)
(* emission runs.                                                          *)

\* ReplicaPrivate.write via Replica.sendInvokePacket: dropped without a pipe.
Write(st, bound, c) ==
    [st EXCEPT !.made = Append(@, c),
               !.out = IF bound = NoPipe THEN @ ELSE Append(@, c)]

(* One subscriber called.  The handlers and printNow only print, which    *)
(* changes no state of the model.                                          *)
Fire(bound, st, obs) ==
    CASE obs = "reset" -> Write(st, bound, ResetCall)
      [] obs = "change" -> [st EXCEPT !.chg = Append(@, "sleep1")]
      [] OTHER -> st

\* Signal.emit on each instance of the WeakSet, in the WeakSet's order.
Emit(bound, order, sig, st) ==
    FoldLeft(LAMBDA acc, obs : Fire(bound, acc, obs), st,
             FlattenSeq([k \in 1..Len(order) |-> Slots[order[k]][sig]]))

Effects == [out |-> out, made |-> made, chg |-> chg]

\* Set the three variables an emission changes from its result.
Apply(st) == /\ out' = st.out /\ made' = st.made /\ chg' = st.chg

\* The iteration order of the WeakSet (by object hash): any order.
Orders == SetToSeqs(Proxies)

-----------------------------------------------------------------------------
(* Node.run handling the next packet of P.                                 *)

\* (mutant) initialize emits before it binds the pipe and the properties
InitializeEmitFirst(v, order) ==
    /\ Apply(Emit(pipe, order, "initialized", Effects))
    /\ pipe' = P /\ props' = v

\* ReplicaPrivate.initialize: bind the pipe, replace the properties, then
\* Replica.initialize emits `initialized` on every instance.
Initialize(v, order) ==
    /\ pipe' = P /\ props' = v
    /\ Apply(Emit(P, order, "initialized", Effects))

\* ReplicaPrivate.invoke: emit Signals[index] on every instance.
Invoke(index, args, order) ==
    /\ Apply(Emit(pipe, order, Signals[index + 1], Effects))
    /\ UNCHANGED <<pipe, props>>

\* Node.run: take the next packet and run its handler.  onPropertyChangePacket
\* only logs the value.
Dispatch ==
    LET pkt == Head(inbox) IN
    /\ inbox # <<>>
    /\ inbox' = Tail(inbox)
    /\ \E order \in Orders :
         CASE pkt.kind = "InitPacket"   -> Initialize(pkt.val, order)
           [] pkt.kind = "InvokePacket" -> Invoke(pkt.index, pkt.args, order)
           [] OTHER -> UNCHANGED <<pipe, props, made, out, chg>>
    /\ UNCHANGED <<got, emits>>

-----------------------------------------------------------------------------
(* change(): sleep 1.5 s, s2.f = 99.5, sleep 0.5 s, s2.f = 93.9.          *)

\* (mutant) the second assignment writes the first value again
ChangeStepSameValue(k) ==
    /\ chg[k] \in {"sleep1", "sleep2"}
    /\ LET st == Write(Effects, pipe, SetF(F1)) IN
         /\ out' = st.out /\ made' = st.made
    /\ chg' = [chg EXCEPT ![k] = IF @ = "sleep1" THEN "sleep2" ELSE "done"]
    /\ UNCHANGED <<inbox, pipe, props, got, emits>>

\* One sleep of change() ends and the next assignment to s2.f runs.
ChangeStep(k) ==
    /\ chg[k] \in {"sleep1", "sleep2"}
    /\ LET st == Write(Effects, pipe, SetF(IF chg[k] = "sleep1" THEN F1 ELSE F2)) IN
         /\ out' = st.out /\ made' = st.made
    /\ chg' = [chg EXCEPT ![k] = IF @ = "sleep1" THEN "sleep2" ELSE "done"]
    /\ UNCHANGED <<inbox, pipe, props, got, emits>>

-----------------------------------------------------------------------------
(* The source (spec): it reads the client's InvokePackets in order; a      *)
(* property write is applied and announced with a PropertyChangePacket and *)
(* the notify signal fChanged; the reset slot of source.py only prints.    *)

SourceRead ==
    LET c == Head(out) IN
    /\ out # <<>>
    /\ out' = Tail(out)
    /\ got' = Append(got, c)
    /\ inbox' = IF c.call = 2
                THEN inbox \o <<PropertyChange(c.args[1]), InvokePacket(1, c.args)>>
                ELSE inbox
    /\ UNCHANGED <<pipe, props, made, chg, emits>>

\* The source's i changes and it emits iChanged(i).
SourceEmit(v) ==
    /\ emits < MaxEmits
    /\ emits' = emits + 1
    /\ inbox' = Append(inbox, InvokePacket(0, <<v>>))
    /\ UNCHANGED <<pipe, props, made, out, got, chg>>

-----------------------------------------------------------------------------
\* main(): both proxies acquired and every observer connected; the source's
\* InitPacket is the first packet of P.
Init ==
    /\ inbox = <<InitPacket(InitVal)>>
    /\ pipe = NoPipe
    /\ props = Defaults
    /\ made = <<>>
    /\ out = <<>>
    /\ got = <<>>
    /\ chg = <<>>
    /\ emits = 0

Next ==
    \/ Dispatch
    \/ \E k \in DOMAIN chg : ChangeStep(k)
    \/ SourceRead
    \/ \E v \in IVals : SourceEmit(v)

(* asyncio runs every ready callback: the Node.run task with a packet      *)
(* queued, a change() task whose sleep has ended, and (the spec's source)  *)
(* the reading of the client's packets are never starved.  The source's    *)
(* own emissions are not fair.                                             *)
Fairness ==
    /\ WF_vars(Dispatch)
    /\ WF_vars(SourceRead)
    /\ \A k \in 1..2 : WF_vars(k \in DOMAIN chg /\ ChangeStep(k))

Spec == Init /\ [][Next]_vars /\ Fairness

-----------------------------------------------------------------------------
(* No InvokePacket the application asks for is lost: main's observers and *)
(* the change() task only call after the cache is bound, so                *)
(* ReplicaPrivate.write never drops one, and the source reads them in the  *)
(* order they were made.                                                   *)
CallsReachSource == made = got \o out

(* main()'s script completes at the source: it ends up having received     *)
(* exactly reset() (from s's `initialized` observer), then f = 99.5 and    *)
(* f = 93.9 (from the change() task s2's observer starts), whatever the    *)
(* source emits meanwhile and in whichever order the WeakSet is iterated.  *)
ScriptCompletes == <>[](got = <<ResetCall, SetF(F1), SetF(F2)>>)
=============================================================================
