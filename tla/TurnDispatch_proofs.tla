------------------------- MODULE TurnDispatch_proofs -------------------------
(***************************************************************************)
(* What holds of the dispatch of a turn for any number of recovering       *)
(* controllers, of failing writes and of resumed containments: the four    *)
(* invariants of TurnDispatch, and that a final record replaces exactly    *)
(* the record that was audited.                                            *)
(*                                                                         *)
(* DispatchInv is the inductive invariant.  It says of every copy of the   *)
(* dispatch record (on disk, in a memory, in a scan) that it claims only   *)
(* what is true (Truthful), of every controller what its program point     *)
(* has established (Established), and of the controllers before the write  *)
(* of turn/start that nothing was written yet (Unwritten).                 *)
(***************************************************************************)
EXTENDS TurnDispatch, TLAPS

(* Types. *)

\* The points of start_turn up to the write of the request, and all of them.
UnsentPoint == {"intent", "prepare", "reserve", "observe", "write"}
StartPoint == UnsentPoint \cup {"wait", "uncertain", "bind", "unbound", "acknowledge"}

Point ==
  StartPoint \cup Idle \cup
    {"detached", "crashed", "contain", "collect", "read", "interrupt", "settle", "prove",
     "archive", "precursor", "audit", "resume-audit", "final", "summary"}

Event == {"turn-intent", "turn-bound", "turn-absent", "interrupt-observed",
          "archive-observed", "containment-audited"}

App == [pc : Point, cur : Record, scan : Record, capability : BOOLEAN, sweeping : BOOLEAN,
        contained : BOOLEAN]
Store == [open : BOOLEAN, at : SUBSET Event, observer : {"none", "pending", "observed"}]
Ledger == [events : SUBSET Event, evidence : Record, ahead : BOOLEAN]

DispatchTypeOK ==
  /\ request \in {"none", "sent", "started", "rejected"}
  /\ turn \in {"none", "active", "terminal"}
  /\ response \in {"none", "turn", "error", "unobserved", "invalid", "taken"}
  /\ ledger \in Ledger
  /\ store \in [Controller -> Store]
  /\ record \in Record
  /\ lock \in Controller \cup {Nobody}
  /\ app \in [Controller -> App]
  /\ faults \in 0..MaxFaults
  /\ calls \in [Controller -> 0..MaxCalls]

-----------------------------------------------------------------------------
(* The inductive invariant.  Its parts are about values (q the request, t the *)
(* turn, l the ledger, r a record, a the local variables of a controller), so *)
(* that they can be used before and after a step alike.                       *)

\* The turn is over, or there is none and none can start.
Stopped(q, t) == t = "terminal" \/ q = "rejected"

\* A copy of the dispatch record claims only what happened.
Truthful(r, t, l) ==
  /\ r.discovered => t # "none"
  /\ r.terminal => t = "terminal"
  /\ r.resolution = "turn-bound" => "turn-bound" \in l.events
  /\ r.resolution = "verified-absent" => "turn-absent" \in l.events
  /\ r.archived => "archive-observed" \in l.events

\* What a controller with these local variables has established.
Established(a, q, t, l) ==
  /\ Truthful(a.cur, t, l)
  /\ Truthful(a.scan, t, l)
  /\ a.capability => q = "rejected"
  /\ a.pc \in {"bind", "unbound", "acknowledge"} => t # "none"
  /\ a.pc = "acknowledge" => "turn-bound" \in l.events
  /\ a.pc = "archive" => Stopped(q, t)
  /\ a.contained \/ a.pc = "audit" => Stopped(q, t) /\ "archive-observed" \in l.events
  /\ a.pc = "final" => /\ "containment-audited" \in l.events
                       /\ l.evidence = WithStatus(a.cur, "failed-contained")

\* Only the dispatcher is ever in start_turn, and until it writes the request
\* nothing was written; the write finds the intent and the record on disk.
Unwritten(c, a, q, l, r) ==
  /\ a.pc \in StartPoint => c = Dispatcher
  /\ a.pc \in UnsentPoint => q = "none"
  /\ a.pc \in UnsentPoint \ {"intent"} => "turn-intent" \in l.events
  /\ a.pc \in {"observe", "write"} => r.status \notin {"none", "prepared"}

\* The request, its turn and its response p agree.
Agree(q, t, p) ==
  /\ t # "none" <=> q = "started"
  /\ p # "none" => q \in {"started", "rejected"}
  /\ p = "turn" => q = "started"
  /\ p = "error" => q = "rejected"

\* The events are true, and the evidence is that of the only audit.
TrueLedger(q, t, l) ==
  /\ "turn-absent" \in l.events => q = "rejected"
  /\ "turn-bound" \in l.events => t # "none"
  /\ "containment-audited" \in l.events => "archive-observed" \in l.events /\ Stopped(q, t)
  /\ "containment-audited" \notin l.events => l.evidence = NoRecord

\* The record on disk is true, was there before the request, and is only final
\* when its audit is in the ledger.
TrueDisk(q, t, l, r) ==
  /\ Truthful(r, t, l)
  /\ q # "none" => "turn-intent" \in l.events /\ r.status \notin {"none", "prepared"}
  /\ r.status = "failed-contained" => "containment-audited" \in l.events /\ l.evidence = r

\* The record is locked from the audit to the final record, by a controller
\* that is about to write it, and no other record gets in between.
FinalUnderLock ==
  \A c \in Controller :
    /\ lock = c <=> app[c].pc = "final"
    /\ app[c].pc = "final" => record = app[c].cur

DispatchInv ==
  /\ DispatchTypeOK
  /\ Agree(request, turn, response)
  /\ TrueLedger(request, turn, ledger)
  /\ TrueDisk(request, turn, ledger, record)
  /\ FinalUnderLock
  /\ \A c \in Controller :
       /\ store[c].observer = "observed" => request = "rejected"
       /\ Established(app[c], request, turn, ledger)
       /\ Unwritten(c, app[c], request, ledger, record)

-----------------------------------------------------------------------------
(* What steps have in common. *)

\* What happened stays so: from (q, t, l) to (q2, t2, l2).
Grows(q, t, l, q2, t2, l2) ==
  /\ l.events \subseteq l2.events
  /\ "containment-audited" \in l.events => l2.evidence = l.evidence
  /\ t # "none" => t2 # "none"
  /\ t = "terminal" => t2 = "terminal"
  /\ q = "rejected" => q2 = "rejected"

\* The stores stay well formed and learn of no negative response.
StoreKept ==
  /\ store' \in [Controller -> Store]
  /\ \A d \in Controller : store'[d].observer = "observed" => store[d].observer = "observed"

\* The record before there is one, and a controller that knows nothing.
LEMMA FreshValues ==
  /\ NoRecord \in Record
  /\ NoRecord.status = "none" /\ NoRecord.resolution = "pending"
  /\ NoRecord.discovered = FALSE /\ NoRecord.terminal = FALSE /\ NoRecord.archived = FALSE
  /\ FreshApp \in App
  /\ FreshApp.cur = NoRecord /\ FreshApp.scan = NoRecord
  /\ FreshApp.capability = FALSE /\ FreshApp.contained = FALSE /\ FreshApp.pc = "detached"
  /\ ClosedStore \in Store /\ ClosedStore.observer = "none"
<1>1. NoRecord \in Record
  BY DEF NoRecord, Record, Status, Resolution
<1>2. /\ NoRecord.status = "none" /\ NoRecord.resolution = "pending"
      /\ NoRecord.discovered = FALSE /\ NoRecord.terminal = FALSE /\ NoRecord.archived = FALSE
  BY DEF NoRecord
<1>3. FreshApp \in App
  BY <1>1 DEF FreshApp, App, Point
<1>4. /\ FreshApp.cur = NoRecord /\ FreshApp.scan = NoRecord
      /\ FreshApp.capability = FALSE /\ FreshApp.contained = FALSE /\ FreshApp.pc = "detached"
  BY DEF FreshApp
<1>5. ClosedStore \in Store /\ ClosedStore.observer = "none"
  BY DEF ClosedStore, Store, Event
<1> QED BY <1>1, <1>2, <1>3, <1>4, <1>5

\* The record before there is one claims nothing.
LEMMA NoRecordTrue == ASSUME NEW t, NEW l PROVE Truthful(NoRecord, t, l)
  BY FreshValues DEF Truthful

\* What a record claims stays true.
LEMMA TruthStays ==
  ASSUME NEW r, NEW q, NEW t, NEW l, NEW q2, NEW t2, NEW l2,
         Truthful(r, t, l), Grows(q, t, l, q2, t2, l2)
  PROVE  Truthful(r, t2, l2)
  BY DEF Truthful, Grows

\* What a controller has established stays so.
LEMMA EstablishedStays ==
  ASSUME NEW a, NEW q, NEW t, NEW l, NEW q2, NEW t2, NEW l2,
         Established(a, q, t, l), Grows(q, t, l, q2, t2, l2)
  PROVE  Established(a, q2, t2, l2)
<1>1. Truthful(a.cur, t2, l2) /\ Truthful(a.scan, t2, l2)
  BY TruthStays DEF Established
<1> QED BY <1>1 DEF Established, Grows, Stopped

\* A step of one controller keeps the invariant when the shared state it leaves
\* is sound and its own new local variables are.
LEMMA ControllerStep ==
  ASSUME DispatchInv, NEW c \in Controller, NEW a \in App,
         app' = [app EXCEPT ![c] = a],
         request' \in {"none", "sent", "started", "rejected"},
         turn' \in {"none", "active", "terminal"},
         response' \in {"none", "turn", "error", "unobserved", "invalid", "taken"},
         ledger' \in Ledger, record' \in Record,
         faults' \in 0..MaxFaults, calls' \in [Controller -> 0..MaxCalls],
         StoreKept,
         Grows(request, turn, ledger, request', turn', ledger'),
         Agree(request', turn', response'),
         TrueLedger(request', turn', ledger'),
         TrueDisk(request', turn', ledger', record'),
         c # Dispatcher => request' = request,
         c # Dispatcher => record' = record \/ record'.status \notin {"none", "prepared"},
         Established(a, request', turn', ledger'),
         Unwritten(c, a, request', ledger', record'),
         lock' = c <=> a.pc = "final",
         a.pc = "final" => record' = a.cur,
         lock' = c \/ lock' = Nobody \/ lock' = lock,
         lock \in {Nobody, c} \/ (lock' = lock /\ record' = record)
  PROVE  DispatchInv'
<1> USE DEF DispatchInv
<1>1. app' \in [Controller -> App] /\ app'[c] = a
  BY DEF DispatchTypeOK
<1>2. \A d \in Controller : d # c => app'[d] = app[d]
  BY DEF DispatchTypeOK
<1>3. lock' \in Controller \cup {Nobody}
  BY DEF DispatchTypeOK
<1>4. DispatchTypeOK'
  BY <1>1, <1>3 DEF DispatchTypeOK, StoreKept
<1>5. ASSUME NEW d \in Controller
      PROVE  /\ lock' = d <=> app'[d].pc = "final"
             /\ app'[d].pc = "final" => record' = app'[d].cur
  <2>1. CASE d = c
    BY <1>1, <2>1
  <2>2. CASE d # c
    <3>1. app'[d] = app[d]
      BY <1>2, <2>2
    <3>2. d # Nobody
      BY ControllerAssumption
    <3>3. lock' = d <=> lock = d
      BY <2>2, <3>2
    <3>4. lock = d => record' = record
      BY <2>2, <3>2
    <3> QED BY <3>1, <3>3, <3>4 DEF FinalUnderLock
  <2> QED BY <2>1, <2>2
<1>6. FinalUnderLock'
  BY <1>5 DEF FinalUnderLock
<1>7. ASSUME NEW d \in Controller
      PROVE  /\ store'[d].observer = "observed" => request' = "rejected"
             /\ Established(app'[d], request', turn', ledger')
             /\ Unwritten(d, app'[d], request', ledger', record')
  <2>1. store'[d].observer = "observed" => request' = "rejected"
    BY DEF StoreKept, Grows
  <2>2. CASE d = c
    BY <1>1, <2>1, <2>2
  <2>3. CASE d # c
    <3>1. app'[d] = app[d]
      BY <1>2, <2>3
    <3>2. Established(app[d], request', turn', ledger')
      BY EstablishedStays
    <3>3. Unwritten(d, app[d], request', ledger', record')
      BY <2>3 DEF Unwritten, Grows, StartPoint, UnsentPoint
    <3> QED BY <2>1, <3>1, <3>2, <3>3
  <2> QED BY <2>2, <2>3
<1> QED BY <1>4, <1>6, <1>7

\* The ways in which a step changes the stores keep them, those excepted that
\* register an observer.
LEMMA StoreMoves ==
  ASSUME DispatchInv, NEW c \in Controller
  PROVE  /\ UNCHANGED store => StoreKept
         /\ Disarm(c) => StoreKept
         /\ \A e \in SUBSET Event : Arm(c, e) => StoreKept
         /\ FullValidation(c) => StoreKept
<1>1. store \in [Controller -> Store] /\ ledger.events \in SUBSET Event
  BY DEF DispatchInv, DispatchTypeOK, Ledger
<1>2. UNCHANGED store => StoreKept
  BY <1>1 DEF StoreKept
<1>3. Disarm(c) => StoreKept
  BY <1>1, FreshValues DEF StoreKept, Disarm
<1>4. ASSUME NEW e \in SUBSET Event, Arm(c, e) PROVE StoreKept
  <2> DEFINE s1 == [store[c] EXCEPT !.open = TRUE]
             s2 == [s1 EXCEPT !.at = e]
  <2>1. s1 \in Store /\ s1.observer = store[c].observer
    BY <1>1 DEF Store
  <2>2. s2 \in Store /\ s2.observer = store[c].observer
    BY <2>1 DEF Store
  <2>3. store' = [store EXCEPT ![c] = s2]
    BY <1>1, <1>4 DEF Arm
  <2> HIDE DEF s2
  <2> QED BY <1>1, <2>2, <2>3 DEF StoreKept
<1> QED BY <1>1, <1>2, <1>3, <1>4 DEF FullValidation

\* The local variables of a controller, and those it has after an exception, at
\* the end of a call and at another point.
LEMMA AppShapes ==
  ASSUME DispatchInv, NEW c \in Controller
  PROVE  /\ app[c] \in App /\ app[c].cur \in Record /\ app[c].scan \in Record
         /\ Established(app[c], request, turn, ledger)
         /\ Unwritten(c, app[c], request, ledger, record)
         /\ Raised(c) \in App /\ Raised(c).pc \in {"raised", "summary"} /\ Raised(c).cur = app[c].cur
         /\ Established(Raised(c), request, turn, ledger)
         /\ Ended(c) \in App /\ Ended(c).pc \in {"ended", "summary"} /\ Ended(c).cur = app[c].cur
         /\ Established(Ended(c), request, turn, ledger)
<1>1. app[c] \in App /\ Established(app[c], request, turn, ledger)
  BY DEF DispatchInv, DispatchTypeOK
<1>2. Unwritten(c, app[c], request, ledger, record)
  BY DEF DispatchInv
<1>3. /\ app[c].cur \in Record /\ app[c].scan \in Record
      /\ Truthful(app[c].cur, turn, ledger)
  BY <1>1 DEF App, Established
<1>4. ASSUME NEW p \in {"raised", "ended", "summary"}, NEW a,
             a = [FreshApp EXCEPT !.pc = p, !.cur = app[c].cur]
      PROVE  /\ a \in App /\ a.pc = p /\ a.cur = app[c].cur
             /\ Established(a, request, turn, ledger)
  <2> DEFINE a1 == [FreshApp EXCEPT !.pc = p]
             a2 == [a1 EXCEPT !.cur = app[c].cur]
  <2>1. a1 \in App
    BY FreshValues DEF App, Point, Idle
  <2>2. a2 \in App
    BY <1>3, <2>1 DEF App
  <2>3. a = a2
    BY <1>4, FreshValues DEF App
  <2>4. /\ a2.pc = p /\ a2.cur = app[c].cur /\ a2.scan = NoRecord
        /\ a2.capability = FALSE /\ a2.contained = FALSE
    BY FreshValues DEF App
  <2> HIDE DEF a2
  <2>5. Established(a2, request, turn, ledger)
    BY <1>3, <2>4, NoRecordTrue DEF Established
  <2> QED BY <2>2, <2>3, <2>4, <2>5
<1>5. /\ Raised(c) \in App /\ Raised(c).pc \in {"raised", "summary"} /\ Raised(c).cur = app[c].cur
      /\ Established(Raised(c), request, turn, ledger)
  <2>1. Left(c, "raised") \in {"raised", "summary"}
    BY DEF Left
  <2> HIDE DEF Left
  <2>2. Raised(c) = [FreshApp EXCEPT !.pc = Left(c, "raised"), !.cur = app[c].cur]
    BY DEF Raised
  <2> QED BY <1>4, <2>1, <2>2
<1>6. /\ Ended(c) \in App /\ Ended(c).pc \in {"ended", "summary"} /\ Ended(c).cur = app[c].cur
      /\ Established(Ended(c), request, turn, ledger)
  <2>1. Left(c, "ended") \in {"ended", "summary"}
    BY DEF Left
  <2> HIDE DEF Left
  <2>2. Ended(c) = [FreshApp EXCEPT !.pc = Left(c, "ended"), !.cur = app[c].cur]
    BY DEF Ended
  <2> QED BY <1>4, <2>1, <2>2
<1> QED BY <1>1, <1>2, <1>3, <1>5, <1>6

\* The points whose controller has established something by being there.
MarkedPoint == {"bind", "unbound", "acknowledge", "archive", "audit", "final"}

\* A controller that only moves to another point.
LEMMA AtShape ==
  ASSUME DispatchInv, NEW c \in Controller, NEW p \in Point
  PROVE  /\ At(c, p) \in App
         /\ At(c, p).pc = p /\ At(c, p).cur = app[c].cur /\ At(c, p).scan = app[c].scan
         /\ At(c, p).capability = app[c].capability /\ At(c, p).contained = app[c].contained
         /\ p \notin MarkedPoint => Established(At(c, p), request, turn, ledger)
<1>1. app[c] \in App /\ Established(app[c], request, turn, ledger)
  BY AppShapes
<1>2. /\ At(c, p) \in App
      /\ At(c, p).pc = p /\ At(c, p).cur = app[c].cur /\ At(c, p).scan = app[c].scan
      /\ At(c, p).capability = app[c].capability /\ At(c, p).contained = app[c].contained
  BY <1>1 DEF App, At
<1>3. p \notin MarkedPoint => Established(At(c, p), request, turn, ledger)
  BY <1>1, <1>2 DEF Established, MarkedPoint
<1> QED BY <1>2, <1>3

\* A step that changes only the local variables of a controller, the store and
\* whether the response was taken.
LEMMA LocalStep ==
  ASSUME DispatchInv, NEW c \in Controller, NEW a \in App,
         app' = [app EXCEPT ![c] = a],
         UNCHANGED <<request, turn, ledger, record, lock, faults>>,
         response' = response \/ (response # "none" /\ response' = "taken"),
         calls' \in [Controller -> 0..MaxCalls],
         StoreKept,
         app[c].pc # "final", a.pc # "final",
         Established(a, request, turn, ledger),
         Unwritten(c, a, request, ledger, record)
  PROVE  DispatchInv'
<1>1. /\ request \in {"none", "sent", "started", "rejected"}
      /\ turn \in {"none", "active", "terminal"}
      /\ response' \in {"none", "turn", "error", "unobserved", "invalid", "taken"}
      /\ ledger \in Ledger /\ record \in Record /\ faults \in 0..MaxFaults
  BY DEF DispatchInv, DispatchTypeOK
<1>2. Grows(request, turn, ledger, request, turn, ledger)
  BY DEF Grows
<1>3. /\ TrueLedger(request, turn, ledger)
      /\ TrueDisk(request, turn, ledger, record)
      /\ Agree(request, turn, response')
  BY DEF DispatchInv, Agree
<1>4. lock # c
  BY DEF DispatchInv, FinalUnderLock
<1> QED BY <1>1, <1>2, <1>3, <1>4, ControllerStep

\* A write of the record, which may fail before or after the file is replaced.
LEMMA PersistStep ==
  ASSUME DispatchInv, NEW c \in Controller,
         NEW r \in Record, NEW n \in App, NEW x \in App,
         Persist(c, r, n, x),
         UNCHANGED <<request, turn, response, ledger, calls>>,
         lock' = IF lock = c THEN Nobody ELSE lock,
         StoreKept,
         Truthful(r, turn, ledger),
         r.status = "failed-contained" =>
           "containment-audited" \in ledger.events /\ ledger.evidence = r,
         \/ r.status \notin {"none", "prepared"}
         \/ c = Dispatcher /\ request = "none",
         n.pc # "final", Established(n, request, turn, ledger),
         Unwritten(c, n, request, ledger, r),
         x.pc \notin StartPoint \cup {"final"}, Established(x, request, turn, ledger)
  PROVE  DispatchInv'
<1>1. /\ request \in {"none", "sent", "started", "rejected"}
      /\ turn \in {"none", "active", "terminal"}
      /\ response \in {"none", "turn", "error", "unobserved", "invalid", "taken"}
      /\ ledger \in Ledger /\ record \in Record /\ faults \in 0..MaxFaults
      /\ calls \in [Controller -> 0..MaxCalls]
  BY DEF DispatchInv, DispatchTypeOK
<1>2. Grows(request, turn, ledger, request, turn, ledger)
  BY DEF Grows
<1>3. /\ TrueLedger(request, turn, ledger)
      /\ TrueDisk(request, turn, ledger, record)
      /\ Agree(request, turn, response)
  BY DEF DispatchInv
<1>4. TrueDisk(request, turn, ledger, r)
  BY <1>3 DEF TrueDisk
<1>5. lock \in {Nobody, c} /\ lock' = Nobody /\ lock' # c
  BY ControllerAssumption DEF Persist
<1>6. ASSUME NEW m \in App, m.pc # "final", Established(m, request, turn, ledger)
      PROVE  /\ [m EXCEPT !.cur = r] \in App
             /\ [m EXCEPT !.cur = r].pc = m.pc
             /\ Established([m EXCEPT !.cur = r], request, turn, ledger)
  <2>1. /\ [m EXCEPT !.cur = r] \in App
        /\ [m EXCEPT !.cur = r].pc = m.pc /\ [m EXCEPT !.cur = r].cur = r
        /\ [m EXCEPT !.cur = r].scan = m.scan
        /\ [m EXCEPT !.cur = r].capability = m.capability
        /\ [m EXCEPT !.cur = r].contained = m.contained
    BY DEF App
  <2> QED BY <1>6, <2>1 DEF Established
<1>7. CASE record' = r /\ UNCHANGED faults /\ Set(c, [n EXCEPT !.cur = r])
  <2> DEFINE a == [n EXCEPT !.cur = r]
  <2>1. a \in App /\ a.pc = n.pc /\ Established(a, request, turn, ledger)
    BY <1>6
  <2>2. app' = [app EXCEPT ![c] = a]
    BY <1>7 DEF Set
  <2> HIDE DEF a
  <2>3. Unwritten(c, a, request, ledger, r)
    BY <2>1 DEF Unwritten
  <2> QED BY <1>1, <1>2, <1>3, <1>4, <1>5, <1>7, <2>1, <2>2, <2>3, ControllerStep
<1>8. CASE /\ faults < MaxFaults /\ faults' = faults + 1
           /\ record' \in {record, r}
           /\ Set(c, [x EXCEPT !.cur = r])
  <2> DEFINE a == [x EXCEPT !.cur = r]
  <2>1. a \in App /\ a.pc = x.pc /\ Established(a, request, turn, ledger)
    BY <1>6
  <2>2. app' = [app EXCEPT ![c] = a]
    BY <1>8 DEF Set
  <2> HIDE DEF a
  <2>3. Unwritten(c, a, request, ledger, record')
    BY <2>1 DEF Unwritten, StartPoint, UnsentPoint
  <2>4. faults' \in 0..MaxFaults
    BY <1>1, <1>8, ControllerAssumption
  <2>5. record' \in Record /\ TrueDisk(request, turn, ledger, record')
    BY <1>1, <1>3, <1>4, <1>8
  <2>6. c # Dispatcher => record' = record \/ record'.status \notin {"none", "prepared"}
    BY <1>8
  <2> QED BY <1>1, <1>2, <1>3, <1>5, <2>1, <2>2, <2>3, <2>4, <2>5, <2>6, ControllerStep
<1> QED BY <1>7, <1>8 DEF Persist

\* The ledger after an attempt to append an event: unchanged, at most its audit
\* log excepted, or with the event and, of an audit, the evidence.
Appended(event, evidence, l2) ==
  /\ l2 \in Ledger
  /\ \/ l2.events = ledger.events /\ l2.evidence = ledger.evidence
     \/ /\ l2.events = ledger.events \cup {event}
        /\ l2.evidence = IF event = "containment-audited" THEN evidence ELSE ledger.evidence

\* What _append does, whether it succeeds or not.
LEMMA AppendShape ==
  ASSUME DispatchInv, NEW c \in Controller, NEW event \in Event, NEW evidence \in Record,
         NEW ok \in BOOLEAN, Append(c, event, evidence, ok)
  PROVE  /\ Appended(event, evidence, ledger')
         /\ StoreKept
         /\ faults' \in 0..MaxFaults
         /\ ok => /\ event \in ledger'.events
                  /\ event = "containment-audited" => ledger'.evidence = evidence
<1>1. ledger \in Ledger /\ faults \in 0..MaxFaults /\ ledger.events \in SUBSET Event
  BY DEF DispatchInv, DispatchTypeOK, Ledger
<1> DEFINE n1 == [ledger EXCEPT !.events = ledger.events \cup {event}]
           v == IF event = "containment-audited" THEN evidence ELSE ledger.evidence
           n2 == [n1 EXCEPT !.evidence = v]
<1>2. /\ n1 \in Ledger /\ n1.events = ledger.events \cup {event}
      /\ n1.evidence = ledger.evidence
  BY <1>1 DEF Ledger
<1>3. v \in Record
  BY <1>1 DEF Ledger
<1> HIDE DEF v
<1>4. n2 \in Ledger /\ n2.events = ledger.events \cup {event} /\ n2.evidence = v
  BY <1>2, <1>3 DEF Ledger
<1>5. With(event, evidence) = n2
  BY <1>1 DEF With, v, Ledger
<1>6. /\ Appended(event, evidence, n2)
      /\ event \in n2.events
      /\ event = "containment-audited" => n2.evidence = evidence
  BY <1>4 DEF Appended, v
<1> HIDE DEF n2
<1>7. CASE /\ ok /\ Trusted(c)
           /\ ledger' = With(event, evidence)
           /\ Arm(c, ledger.events \cup {event})
           /\ UNCHANGED faults
  <2>1. StoreKept
    BY <1>1, <1>7, StoreMoves
  <2> QED BY <1>1, <1>5, <1>6, <1>7, <2>1
<1>8. CASE ~ok /\ Disarm(c) /\ UNCHANGED <<ledger, faults>>
  <2>1. StoreKept
    BY <1>8, StoreMoves
  <2> QED BY <1>1, <1>8, <2>1 DEF Appended
<1>9. CASE /\ ~ok /\ faults < MaxFaults
           /\ ledger' \in {ledger, [ledger EXCEPT !.ahead = TRUE], With(event, evidence)}
           /\ Disarm(c)
           /\ faults' = faults + 1
  <2>1. StoreKept
    BY <1>9, StoreMoves
  <2>2. faults' \in 0..MaxFaults
    BY <1>1, <1>9, ControllerAssumption
  <2>3. /\ [ledger EXCEPT !.ahead = TRUE] \in Ledger
        /\ [ledger EXCEPT !.ahead = TRUE].events = ledger.events
        /\ [ledger EXCEPT !.ahead = TRUE].evidence = ledger.evidence
    BY <1>1 DEF Ledger
  <2>4. Appended(event, evidence, ledger')
    BY <1>1, <1>5, <1>6, <1>9, <2>3 DEF Appended
  <2> QED BY <1>9, <2>1, <2>2, <2>4
<1> QED BY <1>7, <1>8, <1>9 DEF Append

\* A true event keeps the ledger and the record on disk sound.
LEMMA LedgerStep ==
  ASSUME DispatchInv, NEW event \in Event, NEW evidence, NEW t, NEW l2,
         Appended(event, evidence, l2),
         turn # "none" <=> t # "none", turn = "terminal" => t = "terminal",
         event = "turn-absent" => request = "rejected",
         event = "turn-bound" => turn # "none",
         event = "containment-audited" =>
           /\ "containment-audited" \notin ledger.events
           /\ "archive-observed" \in ledger.events /\ Stopped(request, turn)
  PROVE  /\ Grows(request, turn, ledger, request, t, l2)
         /\ TrueLedger(request, t, l2)
         /\ TrueDisk(request, t, l2, record)
         /\ Agree(request, t, response)
<1>1. /\ TrueLedger(request, turn, ledger) /\ TrueDisk(request, turn, ledger, record)
      /\ Agree(request, turn, response)
  BY DEF DispatchInv
<1>2. Grows(request, turn, ledger, request, t, l2)
  BY DEF Grows, Appended
<1>3. TrueLedger(request, t, l2)
  BY <1>1 DEF TrueLedger, Appended, Stopped
<1>4. Truthful(record, t, l2)
  BY <1>1, <1>2, TruthStays DEF TrueDisk
<1>5. "containment-audited" \in ledger.events => event # "containment-audited"
  OBVIOUS
<1>6. TrueDisk(request, t, l2, record)
  BY <1>1, <1>2, <1>4, <1>5 DEF TrueDisk, Grows
<1>7. Agree(request, t, response)
  BY <1>1 DEF Agree
<1> QED BY <1>2, <1>3, <1>6, <1>7

\* An event that is already there, or one that is not recorded, is no append.
LEMMA LifecycleShape ==
  ASSUME DispatchInv, NEW c \in Controller, NEW event \in Event, NEW ok \in BOOLEAN,
         \/ RecordLifecycle(c, event, ok)
         \/ ~ok /\ UNCHANGED <<ledger, store, faults>>
  PROVE  /\ Appended(event, NoRecord, ledger')
         /\ StoreKept
         /\ faults' \in 0..MaxFaults
         /\ ok => event \in ledger'.events
<1>1. ledger \in Ledger /\ faults \in 0..MaxFaults
  BY DEF DispatchInv, DispatchTypeOK
<1>2. CASE UNCHANGED <<ledger, store, faults>> /\ (ok => event \in ledger.events)
  BY <1>1, <1>2, StoreMoves DEF Appended
<1>3. CASE Append(c, event, NoRecord, ok)
  BY <1>3, AppendShape, FreshValues
<1> QED BY <1>2, <1>3 DEF RecordLifecycle

\* A step of a controller that appends a true event, or tries to.
LEMMA AppendStep ==
  ASSUME DispatchInv, NEW c \in Controller, NEW a \in App, NEW event \in Event, NEW evidence,
         app' = [app EXCEPT ![c] = a],
         UNCHANGED <<request, response, record, lock, calls>>,
         turn' \in {"none", "active", "terminal"},
         turn # "none" <=> turn' # "none", turn = "terminal" => turn' = "terminal",
         Appended(event, evidence, ledger'), StoreKept, faults' \in 0..MaxFaults,
         event = "turn-absent" => request = "rejected",
         event = "turn-bound" => turn # "none",
         event # "containment-audited",
         app[c].pc # "final", a.pc # "final",
         Established(a, request, turn', ledger'),
         Unwritten(c, a, request, ledger', record)
  PROVE  DispatchInv'
<1>1. /\ request \in {"none", "sent", "started", "rejected"}
      /\ response \in {"none", "turn", "error", "unobserved", "invalid", "taken"}
      /\ record \in Record /\ calls \in [Controller -> 0..MaxCalls]
  BY DEF DispatchInv, DispatchTypeOK
<1>2. ledger' \in Ledger
  BY DEF Appended
<1>3. /\ Grows(request, turn, ledger, request, turn', ledger')
      /\ TrueLedger(request, turn', ledger')
      /\ TrueDisk(request, turn', ledger', record)
      /\ Agree(request, turn', response)
  BY LedgerStep
<1>4. lock # c
  BY DEF DispatchInv, FinalUnderLock
<1> QED BY <1>1, <1>2, <1>3, <1>4, ControllerStep

-----------------------------------------------------------------------------
(* start_turn. *)

\* A record with another status claims the same.
LEMMA StatusShape ==
  ASSUME NEW r \in Record, NEW s \in Status, NEW t, NEW l, Truthful(r, t, l)
  PROVE  /\ WithStatus(r, s) \in Record
         /\ WithStatus(r, s).status = s
         /\ WithStatus(r, s).resolution = r.resolution
         /\ Truthful(WithStatus(r, s), t, l)
<1>1. /\ WithStatus(r, s) \in Record
      /\ WithStatus(r, s).status = s
      /\ WithStatus(r, s).resolution = r.resolution
      /\ WithStatus(r, s).discovered = r.discovered
      /\ WithStatus(r, s).terminal = r.terminal
      /\ WithStatus(r, s).archived = r.archived
  BY DEF WithStatus, Record
<1> QED BY <1>1 DEF Truthful

\* A point outside start_turn asks for nothing.
LEMMA OutsideStart ==
  ASSUME NEW c, NEW a, NEW q, NEW l, NEW r, a.pc \notin StartPoint
  PROVE  Unwritten(c, a, q, l, r)
  BY DEF Unwritten, StartPoint, UnsentPoint

\* The steps of start_turn up to the write of the request.
LEMMA BeforeWriteKept ==
  ASSUME DispatchInv, NEW c \in Controller,
         TurnIntent(c) \/ Prepare(c) \/ Reserve(c) \/ RegisterObserver(c) \/ Abandon(c)
  PROVE  DispatchInv'
<1> USE DEF Point, StartPoint, UnsentPoint, Idle
<1>1. /\ app[c].cur \in Record
      /\ Truthful(app[c].cur, turn, ledger)
      /\ Unwritten(c, app[c], request, ledger, record)
      /\ calls \in [Controller -> 0..MaxCalls]
  BY AppShapes DEF Established, DispatchInv, DispatchTypeOK
<1>2. app[c].pc # "final" => lock # c
  BY DEF DispatchInv, FinalUnderLock
<1>3. CASE TurnIntent(c)
  <2>1. PICK ok \in BOOLEAN :
          /\ Append(c, "turn-intent", NoRecord, ok)
          /\ Goto(c, IF ok THEN "prepare" ELSE "raised")
    BY <1>3 DEF TurnIntent
  <2>2. /\ app[c].pc = "intent"
        /\ UNCHANGED <<request, turn, response, record, lock, calls>>
    BY <1>3 DEF TurnIntent, Wire
  <2> DEFINE a == At(c, IF ok THEN "prepare" ELSE "raised")
  <2>3. app' = [app EXCEPT ![c] = a]
    BY <2>1 DEF Goto, Set, At
  <2>4. /\ a \in App /\ a.pc = IF ok THEN "prepare" ELSE "raised"
        /\ Established(a, request, turn, ledger)
    BY AtShape DEF MarkedPoint
  <2> HIDE DEF a
  <2>5. /\ Appended("turn-intent", NoRecord, ledger') /\ StoreKept /\ faults' \in 0..MaxFaults
        /\ ok => "turn-intent" \in ledger'.events
    BY <2>1, AppendShape, FreshValues DEF Event
  <2>6. Grows(request, turn, ledger, request, turn, ledger')
    BY <2>5, LedgerStep DEF Event
  <2>7. Established(a, request, turn', ledger')
    BY <2>2, <2>4, <2>6, EstablishedStays
  <2>8. Unwritten(c, a, request, ledger', record)
    BY <1>1, <2>2, <2>4, <2>5 DEF Unwritten
  <2>9. turn \in {"none", "active", "terminal"}
    BY DEF DispatchInv, DispatchTypeOK
  <2> QED BY <2>2, <2>3, <2>4, <2>5, <2>7, <2>8, <2>9, AppendStep DEF Event
<1>4. CASE Prepare(c)
  <2> DEFINE r == WithStatus(NoRecord, "prepared")
  <2>1. r \in Record /\ r.status = "prepared" /\ Truthful(r, turn, ledger)
    BY FreshValues, NoRecordTrue, StatusShape DEF Status
  <2>2. /\ app[c].pc = "prepare" /\ Persist(c, r, At(c, "reserve"), Raised(c))
        /\ UNCHANGED <<request, turn, response, ledger, store, lock, calls>>
    BY <1>4 DEF Prepare, Wire
  <2> HIDE DEF r
  <2>3. /\ At(c, "reserve") \in App /\ At(c, "reserve").pc = "reserve"
        /\ Established(At(c, "reserve"), request, turn, ledger)
    BY AtShape DEF MarkedPoint
  <2>4. Unwritten(c, At(c, "reserve"), request, ledger, r)
    BY <1>1, <2>2, <2>3 DEF Unwritten
  <2>5. c = Dispatcher /\ request = "none"
    BY <1>1, <2>2 DEF Unwritten
  <2> QED BY <1>2, <2>1, <2>2, <2>3, <2>4, <2>5, AppShapes, StoreMoves, PersistStep
<1>5. CASE Reserve(c)
  <2> DEFINE r == WithStatus(app[c].cur, "dispatching")
  <2>1. r \in Record /\ r.status = "dispatching" /\ Truthful(r, turn, ledger)
    BY <1>1, StatusShape DEF Status
  <2>2. /\ app[c].pc = "reserve" /\ Persist(c, r, At(c, "observe"), Raised(c))
        /\ UNCHANGED <<request, turn, response, ledger, store, lock, calls>>
    BY <1>5 DEF Reserve, Wire
  <2> HIDE DEF r
  <2>3. /\ At(c, "observe") \in App /\ At(c, "observe").pc = "observe"
        /\ Established(At(c, "observe"), request, turn, ledger)
    BY AtShape DEF MarkedPoint
  <2>4. Unwritten(c, At(c, "observe"), request, ledger, r)
    BY <1>1, <2>1, <2>2, <2>3 DEF Unwritten
  <2> QED BY <1>2, <2>1, <2>2, <2>3, <2>4, AppShapes, StoreMoves, PersistStep
<1>6. CASE RegisterObserver(c)
  <2>1. /\ app[c].pc = "observe"
        /\ UNCHANGED <<request, turn, response, ledger, record, lock, faults, calls>>
    BY <1>6 DEF RegisterObserver, Wire
  <2> DEFINE a == At(c, IF Trusted(c) THEN "write" ELSE "raised")
  <2>2. app' = [app EXCEPT ![c] = a]
    BY <1>6 DEF RegisterObserver, Goto, Set, At
  <2>3. /\ a \in App /\ a.pc = IF Trusted(c) THEN "write" ELSE "raised"
        /\ Established(a, request, turn, ledger)
    BY AtShape DEF MarkedPoint
  <2> HIDE DEF a
  <2>4. StoreKept
    <3>1. CASE Trusted(c)
      <4>1. store \in [Controller -> Store]
        BY DEF DispatchInv, DispatchTypeOK
      <4>2. [store[c] EXCEPT !.observer = "pending"] \in Store
        BY <4>1 DEF Store
      <4>3. store' = [store EXCEPT ![c] = [store[c] EXCEPT !.observer = "pending"]]
        BY <1>6, <3>1, <4>1 DEF RegisterObserver
      <4>4. [store[c] EXCEPT !.observer = "pending"].observer = "pending"
        BY <4>1 DEF Store
      <4> QED BY <4>1, <4>2, <4>3, <4>4 DEF StoreKept
    <3>2. CASE ~Trusted(c)
      BY <1>6, <3>2, StoreMoves DEF RegisterObserver
    <3> QED BY <3>1, <3>2
  <2>5. Unwritten(c, a, request, ledger, record)
    BY <1>1, <2>1, <2>3 DEF Unwritten
  <2> QED BY <1>1, <2>1, <2>2, <2>3, <2>4, <2>5, LocalStep
<1>7. CASE Abandon(c)
  <2>1. /\ app[c].pc # "final" /\ app' = [app EXCEPT ![c] = Raised(c)]
        /\ UNCHANGED <<request, turn, response, ledger, store, record, lock, faults, calls>>
    BY <1>7 DEF Abandon, Wire, Set
  <2>2. Unwritten(c, Raised(c), request, ledger, record)
    BY AppShapes, OutsideStart
  <2> QED BY <1>1, <2>1, <2>2, AppShapes, StoreMoves, LocalStep
<1> QED BY <1>3, <1>4, <1>5, <1>6, <1>7

\* The write of the request and the wait for its response.
LEMMA WriteKept ==
  ASSUME DispatchInv, NEW c \in Controller,
         WriteRequest(c) \/ WaitEnds(c) \/ TakeResponse(c)
  PROVE  DispatchInv'
<1> USE DEF Point, StartPoint, UnsentPoint, Idle
<1>1. /\ app[c] \in App
      /\ Unwritten(c, app[c], request, ledger, record)
      /\ Established(app[c], request, turn, ledger)
      /\ calls \in [Controller -> 0..MaxCalls]
  BY AppShapes DEF DispatchInv, DispatchTypeOK
<1>2. app[c].pc # "final" => lock # c
  BY DEF DispatchInv, FinalUnderLock
<1>3. /\ TrueLedger(request, turn, ledger) /\ TrueDisk(request, turn, ledger, record)
      /\ Agree(request, turn, response)
  BY DEF DispatchInv
<1>4. CASE WriteRequest(c)
  <2>1. PICK p \in {"wait", "uncertain"} : app' = [app EXCEPT ![c] = At(c, p)]
    BY <1>4 DEF WriteRequest, Goto, Set, At
  <2>2. /\ app[c].pc = "write" /\ request' \in {"none", "sent"}
        /\ UNCHANGED <<turn, response, ledger, store, record, lock, faults, calls>>
    BY <1>4 DEF WriteRequest
  <2>3. /\ c = Dispatcher /\ request = "none" /\ "turn-intent" \in ledger.events
        /\ record.status \notin {"none", "prepared"}
    BY <1>1, <2>2 DEF Unwritten
  <2>4. Grows(request, turn, ledger, request', turn, ledger)
    BY <2>3 DEF Grows
  <2>5. turn = "none" /\ response = "none"
    BY <1>3, <2>3 DEF Agree
  <2>6. Agree(request', turn, response)
    BY <2>2, <2>5 DEF Agree
  <2>7. TrueLedger(request', turn, ledger)
    BY <1>3, <2>3, <2>5 DEF TrueLedger, Stopped
  <2>8. TrueDisk(request', turn, ledger, record)
    BY <1>3, <2>3 DEF TrueDisk
  <2>9. /\ At(c, p) \in App /\ At(c, p).pc = p
        /\ Established(At(c, p), request, turn, ledger)
    BY AtShape DEF MarkedPoint
  <2>10. Established(At(c, p), request', turn, ledger)
    BY <2>4, <2>9, EstablishedStays
  <2>11. Unwritten(c, At(c, p), request', ledger, record)
    BY <2>3, <2>9 DEF Unwritten
  <2>12. /\ turn \in {"none", "active", "terminal"} /\ record \in Record /\ ledger \in Ledger
         /\ response \in {"none", "turn", "error", "unobserved", "invalid", "taken"}
         /\ faults \in 0..MaxFaults
    BY DEF DispatchInv, DispatchTypeOK
  <2>13. request' \in {"none", "sent", "started", "rejected"} /\ StoreKept /\ lock # c
    BY <1>2, <2>2, StoreMoves
  <2> QED BY <1>1, <2>1, <2>2, <2>3, <2>4, <2>6, <2>7, <2>8, <2>9, <2>10, <2>11, <2>12, <2>13,
             ControllerStep
<1>5. CASE WaitEnds(c)
  <2>1. /\ app[c].pc = "wait" /\ app' = [app EXCEPT ![c] = At(c, "uncertain")]
        /\ UNCHANGED <<request, turn, response, ledger, store, record, lock, faults, calls>>
    BY <1>5 DEF WaitEnds, Wire, Goto, Set, At
  <2>2. /\ At(c, "uncertain") \in App /\ At(c, "uncertain").pc = "uncertain"
        /\ Established(At(c, "uncertain"), request, turn, ledger)
    BY AtShape DEF MarkedPoint
  <2>3. Unwritten(c, At(c, "uncertain"), request, ledger, record)
    BY <1>1, <2>1, <2>2 DEF Unwritten
  <2> QED BY <1>1, <2>1, <2>2, <2>3, StoreMoves, LocalStep
<1>6. CASE TakeResponse(c)
  <2>1. /\ app[c].pc = "wait" /\ response # "none" /\ response' = "taken"
        /\ UNCHANGED <<request, turn, ledger, store, record, lock, faults, calls>>
    BY <1>6 DEF TakeResponse
  <2>2. PICK p \in {"bind", "uncertain"}, k \in BOOLEAN :
          /\ app' = [app EXCEPT ![c] = [app[c] EXCEPT !.pc = p, !.capability = k]]
          /\ p = "bind" => response = "turn"
          /\ k => response = "error"
    BY <1>6 DEF TakeResponse, Set
  <2>3. (k => request = "rejected") /\ (p = "bind" => turn # "none")
    BY <1>3, <2>2 DEF Agree
  <2> DEFINE a1 == At(c, p)
             a == [a1 EXCEPT !.capability = k]
  <2>4. /\ a1 \in App /\ a1.pc = p /\ a1.cur = app[c].cur /\ a1.scan = app[c].scan
        /\ a1.contained = app[c].contained
    BY AtShape
  <2>5. /\ a \in App /\ a.pc = p /\ a.cur = app[c].cur /\ a.scan = app[c].scan
        /\ a.capability = k /\ a.contained = app[c].contained
    BY <2>4 DEF App
  <2>6. app' = [app EXCEPT ![c] = a]
    BY <1>1, <2>2 DEF At, App
  <2> HIDE DEF a
  <2>7. Established(a, request, turn, ledger)
    BY <1>1, <2>3, <2>5 DEF Established
  <2>8. Unwritten(c, a, request, ledger, record)
    BY <1>1, <2>1, <2>5 DEF Unwritten
  <2> QED BY <1>1, <2>1, <2>5, <2>6, <2>8, <2>7, StoreMoves, LocalStep
<1> QED BY <1>4, <1>5, <1>6

\* The end of start_turn: the turn is bound and acknowledged, or containment
\* begins.
LEMMA OutcomeKept ==
  ASSUME DispatchInv, NEW c \in Controller,
         Uncertain(c) \/ BindTurn(c) \/ BindFailed(c) \/ Acknowledge(c)
  PROVE  DispatchInv'
<1> USE DEF Point, StartPoint, UnsentPoint, Idle
<1>1. /\ app[c] \in App /\ app[c].cur \in Record
      /\ Unwritten(c, app[c], request, ledger, record)
      /\ Established(app[c], request, turn, ledger)
      /\ Truthful(app[c].cur, turn, ledger)
      /\ calls \in [Controller -> 0..MaxCalls]
  BY AppShapes DEF DispatchInv, DispatchTypeOK, Established
<1>2. app[c].pc # "final" => lock # c
  BY DEF DispatchInv, FinalUnderLock
<1>3. /\ At(c, "contain") \in App /\ At(c, "contain").pc = "contain"
      /\ Established(At(c, "contain"), request, turn, ledger)
      /\ At(c, "acknowledged") \in App /\ At(c, "acknowledged").pc = "acknowledged"
      /\ Established(At(c, "acknowledged"), request, turn, ledger)
  BY AtShape DEF MarkedPoint
<1>4. \A r : /\ Unwritten(c, At(c, "contain"), request, ledger, r)
             /\ Unwritten(c, At(c, "acknowledged"), request, ledger, r)
  BY <1>3, OutsideStart
<1>5. CASE Uncertain(c)
  <2> DEFINE r == WithStatus(app[c].cur, "failed-ambiguous")
  <2>1. r \in Record /\ r.status = "failed-ambiguous" /\ Truthful(r, turn, ledger)
    BY <1>1, StatusShape DEF Status
  <2>2. /\ app[c].pc = "uncertain" /\ Persist(c, r, At(c, "contain"), Raised(c))
        /\ UNCHANGED <<request, turn, response, ledger, store, lock, calls>>
    BY <1>5 DEF Uncertain, Wire
  <2> HIDE DEF r
  <2> QED BY <1>2, <1>3, <1>4, <2>1, <2>2, AppShapes, StoreMoves, PersistStep
<1>6. CASE BindTurn(c)
  <2>1. PICK ok \in BOOLEAN :
          /\ Append(c, "turn-bound", NoRecord, ok)
          /\ Goto(c, IF ok THEN "acknowledge" ELSE "unbound")
    BY <1>6 DEF BindTurn
  <2>2. /\ app[c].pc = "bind"
        /\ UNCHANGED <<request, turn, response, record, lock, calls>>
    BY <1>6 DEF BindTurn, Wire
  <2>3. turn # "none"
    BY <1>1, <2>2 DEF Established
  <2> DEFINE a == At(c, IF ok THEN "acknowledge" ELSE "unbound")
  <2>4. app' = [app EXCEPT ![c] = a]
    BY <2>1 DEF Goto, Set, At
  <2>5. /\ a \in App /\ a.pc = IF ok THEN "acknowledge" ELSE "unbound"
        /\ a.cur = app[c].cur /\ a.scan = app[c].scan
        /\ a.capability = app[c].capability /\ a.contained = app[c].contained
    BY AtShape
  <2> HIDE DEF a
  <2>6. /\ Appended("turn-bound", NoRecord, ledger') /\ StoreKept /\ faults' \in 0..MaxFaults
        /\ ok => "turn-bound" \in ledger'.events
    BY <2>1, AppendShape, FreshValues DEF Event
  <2>7. Grows(request, turn, ledger, request, turn, ledger')
    BY <2>3, <2>6, LedgerStep DEF Event
  <2>8. Established(app[c], request, turn, ledger')
    BY <1>1, <2>7, EstablishedStays
  <2>9. Established(a, request, turn', ledger')
    BY <2>2, <2>3, <2>5, <2>6, <2>8 DEF Established
  <2>10. Unwritten(c, a, request, ledger', record)
    BY <1>1, <2>2, <2>5 DEF Unwritten
  <2>11. turn \in {"none", "active", "terminal"}
    BY DEF DispatchInv, DispatchTypeOK
  <2> QED BY <2>2, <2>3, <2>4, <2>5, <2>6, <2>9, <2>10, <2>11, AppendStep DEF Event
<1>7. CASE BindFailed(c)
  <2> DEFINE r1 == WithStatus(app[c].cur, "failed-ambiguous")
             r2 == [r1 EXCEPT !.discovered = TRUE]
  <2>1. r1 \in Record /\ r1.status = "failed-ambiguous" /\ Truthful(r1, turn, ledger)
    BY <1>1, StatusShape DEF Status
  <2>2. r2 = [app[c].cur EXCEPT !.status = "failed-ambiguous", !.discovered = TRUE]
    BY <1>1 DEF WithStatus, Record
  <2> HIDE DEF r1
  <2>3. /\ r2 \in Record /\ r2.status = "failed-ambiguous" /\ r2.resolution = r1.resolution
        /\ r2.terminal = r1.terminal /\ r2.archived = r1.archived
    BY <2>1 DEF Record
  <2>4. /\ app[c].pc = "unbound" /\ Persist(c, r2, At(c, "contain"), Raised(c))
        /\ UNCHANGED <<request, turn, response, ledger, store, lock, calls>>
    BY <1>7, <2>2 DEF BindFailed, Wire
  <2> HIDE DEF r2
  <2>5. Truthful(r2, turn, ledger)
    BY <1>1, <2>1, <2>3, <2>4 DEF Truthful, Established
  <2> QED BY <1>2, <1>3, <1>4, <2>3, <2>4, <2>5, AppShapes, StoreMoves, PersistStep
<1>8. CASE Acknowledge(c)
  <2> DEFINE r1 == WithStatus(app[c].cur, "acknowledged")
             r2 == [r1 EXCEPT !.discovered = TRUE]
             r3 == [r2 EXCEPT !.resolution = "turn-bound"]
  <2>1. r1 \in Record /\ r1.status = "acknowledged" /\ Truthful(r1, turn, ledger)
    BY <1>1, StatusShape DEF Status
  <2>2. r3 = [app[c].cur EXCEPT !.status = "acknowledged", !.discovered = TRUE,
                                !.resolution = "turn-bound"]
    BY <1>1 DEF WithStatus, Record
  <2> HIDE DEF r1
  <2>3. r2 \in Record
    BY <2>1 DEF Record
  <2>4. /\ r3 \in Record /\ r3.status = "acknowledged" /\ r3.resolution = "turn-bound"
        /\ r3.terminal = r1.terminal /\ r3.archived = r1.archived
    BY <2>1, <2>3 DEF Record, Resolution
  <2>5. /\ app[c].pc = "acknowledge" /\ Persist(c, r3, At(c, "acknowledged"), Raised(c))
        /\ UNCHANGED <<request, turn, response, ledger, store, lock, calls>>
    BY <1>8, <2>2 DEF Acknowledge, Wire
  <2> HIDE DEF r3
  <2>6. turn # "none" /\ "turn-bound" \in ledger.events
    BY <1>1, <2>5 DEF Established
  <2>7. Truthful(r3, turn, ledger)
    BY <2>1, <2>4, <2>6 DEF Truthful
  <2> QED BY <1>2, <1>3, <1>4, <2>4, <2>5, <2>7, AppShapes, StoreMoves, PersistStep
<1> QED BY <1>5, <1>6, <1>7, <1>8

-----------------------------------------------------------------------------
(* contain_ambiguous_turn_dispatch. *)

\* A controller at another point of containment, with what it found by then.
Scanned(a, p, s) == [a EXCEPT !.pc = p, !.scan = s]

\* Only the point and the scan change.
LEMMA ScanShape ==
  ASSUME NEW a \in App, NEW p \in Point, NEW s \in Record
  PROVE  /\ Scanned(a, p, s) \in App
         /\ Scanned(a, p, s).pc = p
         /\ Scanned(a, p, s).cur = a.cur
         /\ Scanned(a, p, s).scan = s
         /\ Scanned(a, p, s).capability = a.capability
         /\ Scanned(a, p, s).contained = a.contained
<1> DEFINE n1 == [a EXCEPT !.pc = p]
           n2 == [n1 EXCEPT !.scan = s]
<1>1. n1 \in App
  BY DEF App
<1>2. n2 \in App
  BY <1>1 DEF App
<1>3. Scanned(a, p, s) = n2
  BY DEF App, Scanned
<1>4. /\ n2.pc = p /\ n2.cur = a.cur /\ n2.scan = s
      /\ n2.capability = a.capability /\ n2.contained = a.contained
  BY DEF App
<1> HIDE DEF n2
<1> QED BY <1>2, <1>3, <1>4

\* A point of containment that claims nothing by itself.
LEMMA MovedEstablished ==
  ASSUME NEW a, NEW n, NEW q, NEW t, NEW l,
         Established(a, q, t, l), Truthful(n.scan, t, l),
         n.cur = a.cur, n.contained => a.contained, n.capability => q = "rejected",
         n.pc \notin MarkedPoint
  PROVE  Established(n, q, t, l)
  BY DEF Established, MarkedPoint

\* The beginning of containment, and the end of contain_started_threads.
LEMMA BeginKept ==
  ASSUME DispatchInv, NEW c \in Controller,
         Resume(c) \/ Sweep(c) \/ Summarize(c) \/ CheckFinal(c) \/ ReadResolution(c)
  PROVE  DispatchInv'
<1> USE DEF StartPoint, UnsentPoint, Idle
<1>1. /\ app[c] \in App /\ app[c].cur \in Record
      /\ Unwritten(c, app[c], request, ledger, record)
      /\ Established(app[c], request, turn, ledger)
      /\ Truthful(app[c].cur, turn, ledger)
      /\ calls \in [Controller -> 0..MaxCalls]
  BY AppShapes DEF DispatchInv, DispatchTypeOK, Established
<1>2. app[c].pc # "final" => lock # c
  BY DEF DispatchInv, FinalUnderLock
<1>3. CASE Resume(c)
  <2>1. /\ app[c].pc # "final" /\ app' = [app EXCEPT ![c] = At(c, "contain")]
        /\ UNCHANGED <<request, turn, response, ledger, store, record, lock, faults>>
    BY <1>3 DEF Resume, Wire, Goto, Set, At
  <2>2. calls' \in [Controller -> 0..MaxCalls]
    BY <1>1, <1>3, ControllerAssumption DEF Resume
  <2>3. /\ At(c, "contain") \in App /\ At(c, "contain").pc = "contain"
        /\ Established(At(c, "contain"), request, turn, ledger)
    BY AtShape DEF MarkedPoint, Point
  <2>4. Unwritten(c, At(c, "contain"), request, ledger, record)
    BY <2>3, OutsideStart
  <2> QED BY <2>1, <2>2, <2>3, <2>4, StoreMoves, LocalStep
<1>4. CASE CheckFinal(c)
  <2>1. /\ app[c].pc = "contain" /\ FullValidation(c)
        /\ UNCHANGED <<request, turn, response, ledger, lock, calls>>
    BY <1>4 DEF CheckFinal, Wire
  <2>2. StoreKept
    BY <2>1, StoreMoves
  <2>3. CASE ExactlyVerified(app[c].cur)
    <3>1. app' = [app EXCEPT ![c] = Ended(c)] /\ UNCHANGED <<record, faults>>
      BY <1>4, <2>3 DEF CheckFinal, Set
    <3>2. Unwritten(c, Ended(c), request, ledger, record)
      BY AppShapes, OutsideStart
    <3> QED BY <1>1, <2>1, <2>2, <3>1, <3>2, AppShapes, LocalStep
  <2>4. CASE ~ExactlyVerified(app[c].cur)
    <3> DEFINE r == WithStatus(app[c].cur, "failed-ambiguous")
    <3>1. r \in Record /\ r.status = "failed-ambiguous" /\ Truthful(r, turn, ledger)
      BY <1>1, StatusShape DEF Status
    <3>2. Persist(c, r, app[c], Raised(c))
      BY <1>4, <2>4 DEF CheckFinal
    <3> HIDE DEF r
    <3>3. Unwritten(c, app[c], request, ledger, r)
      BY <2>1, OutsideStart
    <3> QED BY <1>1, <1>2, <2>1, <2>2, <3>1, <3>2, <3>3, AppShapes, PersistStep
  <2> QED BY <2>3, <2>4
<1>5. CASE ReadResolution(c)
  <2> DEFINE bound == DurableResolution = "turn-bound"
             k1 == [app[c].cur EXCEPT !.resolution = DurableResolution]
             k2 == [k1 EXCEPT !.discovered = app[c].cur.discovered \/ bound]
             k3 == [k2 EXCEPT !.absence = FALSE]
             k4 == [k3 EXCEPT !.archived = FALSE]
             n == Scanned(app[c], "collect", k4)
  <2>1. /\ app[c].pc = "contain"
        /\ UNCHANGED <<request, turn, response, ledger, record, lock, faults, calls>>
    BY <1>5 DEF ReadResolution, Wire
  <2>2. StoreKept
    BY <1>5, StoreMoves DEF ReadResolution
  <2>3. DurableResolution \in Resolution
    BY DEF DurableResolution, Resolution
  <2>4. k4 = [app[c].cur EXCEPT !.resolution = DurableResolution, !.discovered = @ \/ bound,
                                !.absence = FALSE, !.archived = FALSE]
    BY <1>1 DEF Record
  <2>5. /\ k1 \in Record /\ k1.resolution = DurableResolution
        /\ k1.terminal = app[c].cur.terminal
    BY <1>1, <2>3 DEF Record
  <2>6. app[c].cur.discovered \/ bound \in BOOLEAN
    BY <1>1 DEF Record
  <2> HIDE DEF k1
  <2>7. /\ k2 \in Record /\ k2.resolution = DurableResolution
        /\ k2.terminal = app[c].cur.terminal
        /\ k2.discovered = (app[c].cur.discovered \/ bound)
    BY <2>5, <2>6 DEF Record
  <2> HIDE DEF k2
  <2>8. /\ k3 \in Record /\ k3.resolution = DurableResolution
        /\ k3.terminal = app[c].cur.terminal
        /\ k3.discovered = (app[c].cur.discovered \/ bound)
    BY <2>7 DEF Record
  <2> HIDE DEF k3
  <2>9. /\ k4 \in Record /\ k4.resolution = DurableResolution
        /\ k4.terminal = app[c].cur.terminal /\ k4.archived = FALSE
        /\ k4.discovered = (app[c].cur.discovered \/ bound)
    BY <2>8 DEF Record
  <2>10. /\ DurableResolution = "turn-bound" => "turn-bound" \in ledger.events
         /\ DurableResolution = "verified-absent" => "turn-absent" \in ledger.events
    BY DEF DurableResolution
  <2>11. "turn-bound" \in ledger.events => turn # "none"
    BY DEF DispatchInv, TrueLedger
  <2>12. \/ app' = [app EXCEPT ![c] = Raised(c)]
         \/ app' = [app EXCEPT ![c] = At(c, "resume-audit")]
         \/ app' = [app EXCEPT ![c] = n]
    BY <1>5, <2>4 DEF ReadResolution, Set, Goto, At, Scanned
  <2> HIDE DEF k4
  <2>13. Truthful(k4, turn, ledger)
    BY <1>1, <2>9, <2>10, <2>11 DEF Truthful
  <2>14. "collect" \in Point
    BY DEF Point
  <2>15. /\ n \in App /\ n.pc = "collect" /\ n.cur = app[c].cur /\ n.scan = k4
         /\ n.capability = app[c].capability /\ n.contained = app[c].contained
    BY <1>1, <2>9, <2>14, ScanShape
  <2> HIDE DEF n
  <2>16. Established(n, request, turn, ledger)
    BY <1>1, <2>13, <2>15, MovedEstablished DEF Established, MarkedPoint
  <2>17. /\ At(c, "resume-audit") \in App /\ At(c, "resume-audit").pc = "resume-audit"
         /\ Established(At(c, "resume-audit"), request, turn, ledger)
    BY AtShape DEF MarkedPoint, Point
  <2>18. PICK a \in {Raised(c), At(c, "resume-audit"), n} : app' = [app EXCEPT ![c] = a]
    BY <2>12
  <2>19. /\ a \in App /\ a.pc \notin StartPoint \cup {"final"}
         /\ Established(a, request, turn, ledger)
    BY <2>15, <2>16, <2>17, AppShapes
  <2>20. Unwritten(c, a, request, ledger, record)
    BY <2>19, OutsideStart
  <2> QED BY <1>1, <2>1, <2>2, <2>18, <2>19, <2>20, LocalStep
<1>6. CASE Sweep(c)
  <2> DEFINE m == At(c, "contain")
             n == [m EXCEPT !.sweeping = TRUE]
  <2>1. /\ app[c].pc # "final"
        /\ UNCHANGED <<request, turn, response, ledger, record, lock, faults>>
        /\ UNCHANGED store \/ FullValidation(c)
    BY <1>6 DEF Sweep, Wire
  <2>2. calls' \in [Controller -> 0..MaxCalls]
    BY <1>1, <1>6, ControllerAssumption DEF Sweep
  <2>3. PICK a \in {n, At(c, "summary")} : app' = [app EXCEPT ![c] = a]
    BY <1>6 DEF Sweep, Set, Goto, At
  <2>4. /\ m \in App /\ m.pc = "contain" /\ Established(m, request, turn, ledger)
        /\ At(c, "summary") \in App /\ At(c, "summary").pc = "summary"
        /\ Established(At(c, "summary"), request, turn, ledger)
    BY AtShape DEF MarkedPoint, Point
  <2> HIDE DEF m
  <2>5. /\ n \in App /\ n.pc = m.pc /\ n.cur = m.cur /\ n.scan = m.scan
        /\ n.capability = m.capability /\ n.contained = m.contained
    BY <2>4 DEF App
  <2> HIDE DEF n
  <2>6. Established(n, request, turn, ledger)
    BY <2>4, <2>5 DEF Established
  <2>7. /\ a \in App /\ a.pc \in {"contain", "summary"}
        /\ Established(a, request, turn, ledger)
    BY <2>4, <2>5, <2>6
  <2>8. Unwritten(c, a, request, ledger, record)
    BY <2>7, OutsideStart
  <2>9. StoreKept
    BY <2>1, StoreMoves
  <2> QED BY <2>1, <2>2, <2>3, <2>7, <2>8, <2>9, LocalStep
<1>7. CASE Summarize(c)
  <2>1. /\ app[c].pc # "final" /\ app' = [app EXCEPT ![c] = At(c, "ended")]
        /\ UNCHANGED <<request, turn, response, ledger, record, lock, faults, calls>>
        /\ FullValidation(c)
    BY <1>7 DEF Summarize, Wire, Goto, Set, At
  <2>2. /\ At(c, "ended") \in App /\ At(c, "ended").pc = "ended"
        /\ Established(At(c, "ended"), request, turn, ledger)
    BY AtShape DEF MarkedPoint, Point
  <2>3. Unwritten(c, At(c, "ended"), request, ledger, record)
    BY <2>2, OutsideStart
  <2> QED BY <1>1, <2>1, <2>2, <2>3, StoreMoves, LocalStep
<1> QED BY <1>3, <1>4, <1>5, <1>6, <1>7

\* The scan after thread/read claims no more than the thread showed.
LEMMA ProjectedShape ==
  ASSUME NEW a \in App, NEW shown, NEW notified \in BOOLEAN, NEW ok \in BOOLEAN,
         NEW t, NEW l, Truthful(a.scan, t, l),
         notified => t # "none", shown # "none" => shown = t
  PROVE  /\ Projected(a, shown, notified, ok) \in Record
         /\ Truthful(Projected(a, shown, notified, ok), t, l)
<1> DEFINE s == a.scan
           d == s.discovered \/ notified \/ shown # "none"
           e == s.terminal \/ shown = "terminal"
           f == s.failed /\ ~(s.terminal \/ shown = "terminal")
           p1 == [s EXCEPT !.discovered = d]
           p2 == [p1 EXCEPT !.terminal = e]
           p3 == [p2 EXCEPT !.active = (shown = "active")]
           p4 == [p3 EXCEPT !.failed = f]
           p5 == [p4 EXCEPT !.queried = s.queried \/ ok]
<1>1. s \in Record
  BY DEF App
<1>2. Projected(a, shown, notified, ok) = p5
  BY <1>1 DEF Projected, Record
<1>3. d \in BOOLEAN /\ e \in BOOLEAN /\ f \in BOOLEAN /\ (s.queried \/ ok) \in BOOLEAN
  OBVIOUS
<1>4. (d => t # "none") /\ (e => t = "terminal")
  BY DEF Truthful
<1> HIDE DEF d, e, f
<1>5. /\ p1 \in Record /\ p1.discovered = d /\ p1.terminal = s.terminal
      /\ p1.resolution = s.resolution /\ p1.archived = s.archived
  BY <1>1, <1>3 DEF Record
<1> HIDE DEF p1
<1>6. /\ p2 \in Record /\ p2.discovered = d /\ p2.terminal = e
      /\ p2.resolution = s.resolution /\ p2.archived = s.archived
  BY <1>3, <1>5 DEF Record
<1> HIDE DEF p2
<1>7. /\ p3 \in Record /\ p3.discovered = d /\ p3.terminal = e
      /\ p3.resolution = s.resolution /\ p3.archived = s.archived
  BY <1>6 DEF Record
<1> HIDE DEF p3
<1>8. /\ p4 \in Record /\ p4.discovered = d /\ p4.terminal = e
      /\ p4.resolution = s.resolution /\ p4.archived = s.archived
  BY <1>3, <1>7 DEF Record
<1> HIDE DEF p4
<1>9. /\ p5 \in Record /\ p5.discovered = d /\ p5.terminal = e
      /\ p5.resolution = s.resolution /\ p5.archived = s.archived
  BY <1>8 DEF Record
<1> HIDE DEF p5
<1>10. Truthful(p5, t, l)
  BY <1>4, <1>9 DEF Truthful
<1> QED BY <1>2, <1>9, <1>10

\* The search for the turn: the late response, the thread, the interruption.
LEMMA SearchKept ==
  ASSUME DispatchInv, NEW c \in Controller,
         Collect(c) \/ ReadThread(c) \/ Interrupt(c)
  PROVE  DispatchInv'
<1> USE DEF StartPoint, UnsentPoint, Idle
<1>1. /\ app[c] \in App /\ app[c].scan \in Record
      /\ Established(app[c], request, turn, ledger)
      /\ Truthful(app[c].scan, turn, ledger)
      /\ app[c].capability => request = "rejected"
      /\ calls \in [Controller -> 0..MaxCalls]
  BY AppShapes DEF DispatchInv, DispatchTypeOK, Established
<1>2. /\ Agree(request, turn, response)
      /\ turn \in {"none", "active", "terminal"}
  BY DEF DispatchInv, DispatchTypeOK
<1>3. {"collect", "read", "interrupt", "settle"} \subseteq Point
  BY DEF Point
<1>4. ASSUME NEW p \in {"collect", "read", "interrupt", "settle"}, NEW s \in Record,
             NEW t, NEW l, Grows(request, turn, ledger, request, t, l), Truthful(s, t, l)
      PROVE  /\ Scanned(app[c], p, s) \in App
             /\ Scanned(app[c], p, s).pc = p
             /\ Established(Scanned(app[c], p, s), request, t, l)
  <2>1. Established(app[c], request, t, l)
    BY <1>1, <1>4, EstablishedStays
  <2>2. p \in Point /\ p \notin MarkedPoint
    BY <1>3 DEF MarkedPoint
  <2>3. /\ Scanned(app[c], p, s) \in App
        /\ Scanned(app[c], p, s).pc = p
        /\ Scanned(app[c], p, s).cur = app[c].cur
        /\ Scanned(app[c], p, s).scan = s
        /\ Scanned(app[c], p, s).capability = app[c].capability
        /\ Scanned(app[c], p, s).contained = app[c].contained
    BY <1>1, <2>2, ScanShape
  <2>4. Established(Scanned(app[c], p, s), request, t, l)
    BY <1>1, <1>4, <2>1, <2>2, <2>3, MovedEstablished
  <2> QED BY <2>3, <2>4
<1>5. CASE Collect(c)
  <2> DEFINE late == IF c = Dispatcher THEN response ELSE "none"
             s == [app[c].scan EXCEPT !.discovered = app[c].scan.discovered \/ late = "turn"]
             n1 == Scanned(app[c], "read", s)
             k == app[c].capability \/ late = "error"
             n == [n1 EXCEPT !.capability = k]
  <2>1. /\ app[c].pc = "collect"
        /\ UNCHANGED <<request, turn, ledger, store, record, lock, faults, calls>>
        /\ response' = IF late = "none" THEN response ELSE "taken"
        /\ app' = [app EXCEPT ![c] = [app[c] EXCEPT !.pc = "read",
                                        !.capability = @ \/ late = "error",
                                        !.scan.discovered = @ \/ late = "turn"]]
    BY <1>5 DEF Collect, Set
  <2>2. app' = [app EXCEPT ![c] = n]
    BY <1>1, <2>1 DEF Scanned, App, Record
  <2>3. response' = response \/ (response # "none" /\ response' = "taken")
    BY <2>1
  <2>4. (late = "turn" => turn # "none") /\ (late = "error" => request = "rejected")
    BY <1>2 DEF Agree
  <2> HIDE DEF late
  <2>5. /\ s \in Record /\ s.discovered = (app[c].scan.discovered \/ late = "turn")
        /\ s.terminal = app[c].scan.terminal /\ s.resolution = app[c].scan.resolution
        /\ s.archived = app[c].scan.archived
    BY <1>1 DEF Record
  <2> HIDE DEF s
  <2>6. Truthful(s, turn, ledger)
    BY <1>1, <2>4, <2>5 DEF Truthful
  <2>7. n1 \in App /\ n1.pc = "read" /\ Established(n1, request, turn, ledger)
    <3>1. Grows(request, turn, ledger, request, turn, ledger)
      BY DEF Grows
    <3> QED BY <1>4, <2>5, <2>6, <3>1
  <2>8. k \in BOOLEAN /\ (k => request = "rejected")
    BY <1>1, <2>4
  <2> HIDE DEF n1, k
  <2>9. /\ n \in App /\ n.pc = "read" /\ n.cur = n1.cur /\ n.scan = n1.scan
        /\ n.capability = k /\ n.contained = n1.contained
    BY <2>7, <2>8 DEF App
  <2> HIDE DEF n
  <2>10. Established(n, request, turn, ledger)
    BY <2>7, <2>8, <2>9 DEF Established
  <2>11. Unwritten(c, n, request, ledger, record)
    BY <2>9, OutsideStart
  <2> QED BY <1>1, <2>1, <2>2, <2>3, <2>9, <2>10, <2>11, StoreMoves, LocalStep
<1>6. CASE ReadThread(c)
  <2>1. /\ app[c].pc = "read"
        /\ UNCHANGED <<request, turn, response, ledger, store, record, lock, faults, calls>>
    BY <1>6 DEF ReadThread, Wire
  <2>2. PICK ok \in BOOLEAN, shown \in {"none", turn}, notified \in Notified :
          LET scan == Projected(app[c], shown, notified, ok)
              a == [app[c] EXCEPT !.scan = scan]
              proved == scan.resolution = "verified-absent"
              snapshot == /\ ok /\ ~scan.active /\ ~scan.failed
                          /\ scan.discovered = scan.terminal
                          /\ Authoritative(a)
          IN  /\ ~ok => shown = "none"
              /\ IF scan.discovered /\ ~scan.terminal
                 THEN Set(c, [a EXCEPT !.pc = "interrupt"])
                 ELSE AfterPass(c, [a EXCEPT !.scan.absence =
                                               snapshot /\ (scan.discovered \/ proved)],
                                snapshot)
    BY <1>6, Zenon DEF ReadThread
  <2> DEFINE s == Projected(app[c], shown, notified, ok)
             a == [app[c] EXCEPT !.scan = s]
             b == /\ ok /\ ~s.active /\ ~s.failed /\ s.discovered = s.terminal
                  /\ Authoritative(a)
                  /\ s.discovered \/ s.resolution = "verified-absent"
             v == [s EXCEPT !.absence = b]
  <2>3. /\ b \in BOOLEAN
         /\ \/ app' = [app EXCEPT ![c] = [a EXCEPT !.pc = "interrupt"]]
            \/ app' = [app EXCEPT ![c] = [[a EXCEPT !.scan.absence = b] EXCEPT !.pc = "settle"]]
            \/ app' = [app EXCEPT ![c] = [[a EXCEPT !.scan.absence = b] EXCEPT !.pc = "collect"]]
    BY <2>2 DEF AfterPass, Set
  <2>4. notified \in BOOLEAN /\ (notified => turn # "none")
    BY DEF Notified
  <2>5. s \in Record /\ Truthful(s, turn, ledger)
    BY <1>1, <2>4, ProjectedShape
  <2> HIDE DEF s, b
  <2>6. /\ v \in Record /\ v.discovered = s.discovered /\ v.terminal = s.terminal
        /\ v.resolution = s.resolution /\ v.archived = s.archived
    BY <2>5, <2>3 DEF Record
  <2>7. Truthful(v, turn, ledger)
    BY <2>5, <2>6 DEF Truthful
  <2>8. \/ app' = [app EXCEPT ![c] = Scanned(app[c], "interrupt", s)]
        \/ app' = [app EXCEPT ![c] = Scanned(app[c], "settle", v)]
        \/ app' = [app EXCEPT ![c] = Scanned(app[c], "collect", v)]
    BY <1>1, <2>5, <2>3 DEF Scanned, App
  <2> HIDE DEF v
  <2>9. PICK u \in {s, v}, p \in {"collect", "interrupt", "settle"} :
          app' = [app EXCEPT ![c] = Scanned(app[c], p, u)]
    BY <2>8
  <2>10. Grows(request, turn, ledger, request, turn, ledger)
    BY DEF Grows
  <2>11. /\ Scanned(app[c], p, u) \in App /\ Scanned(app[c], p, u).pc = p
         /\ Established(Scanned(app[c], p, u), request, turn, ledger)
    BY <1>4, <2>5, <2>6, <2>7, <2>10
  <2>12. Unwritten(c, Scanned(app[c], p, u), request, ledger, record)
    BY <2>11, OutsideStart
  <2> QED BY <1>1, <2>1, <2>9, <2>11, <2>12, StoreMoves, LocalStep
<1>7. CASE Interrupt(c)
  <2>1. /\ app[c].pc = "interrupt"
        /\ UNCHANGED <<request, response, record, lock, calls>>
        /\ turn' \in {"none", "active", "terminal"}
        /\ turn # "none" <=> turn' # "none"
        /\ turn = "terminal" => turn' = "terminal"
    BY <1>2, <1>7 DEF Interrupt
  <2>2. PICK ok \in BOOLEAN, p \in {"settle", "collect"} :
          /\ \/ RecordLifecycle(c, "interrupt-observed", ok)
             \/ ~ok /\ UNCHANGED <<ledger, store, faults>>
          /\ app' = [app EXCEPT ![c] =
                       [[app[c] EXCEPT !.scan.attempted = TRUE, !.scan.failed = ~ok]
                          EXCEPT !.pc = p]]
    BY <1>7 DEF Interrupt, AfterPass, Set
  <2> DEFINE s1 == [app[c].scan EXCEPT !.attempted = TRUE]
             s == [s1 EXCEPT !.failed = ~ok]
  <2>3. app' = [app EXCEPT ![c] = Scanned(app[c], p, s)]
    BY <1>1, <2>2 DEF Scanned, App, Record
  <2>4. /\ s1 \in Record /\ s1.discovered = app[c].scan.discovered
        /\ s1.terminal = app[c].scan.terminal /\ s1.resolution = app[c].scan.resolution
        /\ s1.archived = app[c].scan.archived
    BY <1>1 DEF Record
  <2> HIDE DEF s1
  <2>5. /\ s \in Record /\ s.discovered = app[c].scan.discovered
        /\ s.terminal = app[c].scan.terminal /\ s.resolution = app[c].scan.resolution
        /\ s.archived = app[c].scan.archived
    BY <2>4 DEF Record
  <2> HIDE DEF s
  <2>6. /\ Appended("interrupt-observed", NoRecord, ledger') /\ StoreKept
        /\ faults' \in 0..MaxFaults
    BY <2>2, LifecycleShape DEF Event
  <2>7. Grows(request, turn, ledger, request, turn', ledger')
    BY <2>1, <2>6, LedgerStep DEF Event
  <2>8. Truthful(app[c].scan, turn', ledger')
    BY <1>1, <2>7, TruthStays
  <2>9. Truthful(s, turn', ledger')
    BY <2>5, <2>8 DEF Truthful
  <2>10. /\ Scanned(app[c], p, s) \in App /\ Scanned(app[c], p, s).pc = p
         /\ Established(Scanned(app[c], p, s), request, turn', ledger')
    BY <1>4, <2>5, <2>7, <2>9
  <2>11. Unwritten(c, Scanned(app[c], p, s), request, ledger', record)
    BY <2>10, OutsideStart
  <2> QED BY <2>1, <2>3, <2>6, <2>10, <2>11, AppendStep DEF Event
<1> QED BY <1>5, <1>6, <1>7

\* A controller that has used up the capability.
Settled(a, p, s) == [a EXCEPT !.pc = p, !.capability = FALSE, !.scan = s]

\* Only the point, the scan and the capability change.
LEMMA SettledShape ==
  ASSUME NEW a \in App, NEW p \in Point, NEW s \in Record
  PROVE  /\ Settled(a, p, s) \in App
         /\ Settled(a, p, s).pc = p
         /\ Settled(a, p, s).cur = a.cur
         /\ Settled(a, p, s).scan = s
         /\ ~Settled(a, p, s).capability
         /\ Settled(a, p, s).contained = a.contained
<1> DEFINE n1 == Scanned(a, p, s)
           n2 == [n1 EXCEPT !.capability = FALSE]
<1>1. Settled(a, p, s) = n2
  BY DEF Settled, Scanned, App
<1>2. /\ n1 \in App /\ n1.pc = p /\ n1.cur = a.cur /\ n1.scan = s
      /\ n1.contained = a.contained
  BY ScanShape
<1> HIDE DEF n1
<1>3. /\ n2 \in App /\ n2.pc = p /\ n2.cur = a.cur /\ n2.scan = s
      /\ n2.capability = FALSE /\ n2.contained = a.contained
  BY <1>2 DEF App
<1> HIDE DEF n2
<1> QED BY <1>1, <1>3

\* After the search the controller archives only a turn that is over, or none
\* that can start, and otherwise gives up.
LEMMA SettledEstablished ==
  ASSUME NEW a \in App, NEW p \in {"archive", "precursor"}, NEW s \in Record,
         NEW q, NEW t, NEW l,
         Established(a, q, t, l), Truthful(s, t, l), p = "archive" => Stopped(q, t)
  PROVE  /\ Settled(a, p, s) \in App
         /\ Settled(a, p, s).pc = p
         /\ Established(Settled(a, p, s), q, t, l)
<1>1. p \in Point
  BY DEF Point
<1>2. /\ Settled(a, p, s) \in App
      /\ Settled(a, p, s).pc = p
      /\ Settled(a, p, s).cur = a.cur
      /\ Settled(a, p, s).scan = s
      /\ ~Settled(a, p, s).capability
      /\ Settled(a, p, s).contained = a.contained
  BY <1>1, SettledShape
<1>3. Established(Settled(a, p, s), q, t, l)
  BY <1>2 DEF Established
<1> QED BY <1>2, <1>3

\* The scan after the intent was resolved, or could not be.
Resolved(s, ok, v) == [s EXCEPT !.absence = @ \/ ok, !.resolution = IF ok THEN v ELSE @]

\* A resolution that is in the ledger leaves the scan truthful.
LEMMA ResolvedShape ==
  ASSUME NEW s \in Record, NEW ok \in BOOLEAN, NEW v \in {"turn-bound", "verified-absent"},
         NEW t, NEW l, Truthful(s, t, l),
         ok /\ v = "turn-bound" => "turn-bound" \in l.events,
         ok /\ v = "verified-absent" => "turn-absent" \in l.events
  PROVE  Resolved(s, ok, v) \in Record /\ Truthful(Resolved(s, ok, v), t, l)
<1> DEFINE n1 == [s EXCEPT !.absence = s.absence \/ ok]
           n2 == [n1 EXCEPT !.resolution = IF ok THEN v ELSE s.resolution]
<1>1. Resolved(s, ok, v) = n2
  BY DEF Record, Resolved
<1>2. /\ n1 \in Record /\ n1.discovered = s.discovered /\ n1.terminal = s.terminal
      /\ n1.archived = s.archived /\ n1.resolution = s.resolution
  BY DEF Record
<1>3. s.resolution \in Resolution /\ v \in Resolution
  BY DEF Record, Resolution
<1> HIDE DEF n1
<1>4. /\ n2 \in Record /\ n2.discovered = s.discovered /\ n2.terminal = s.terminal
      /\ n2.archived = s.archived
      /\ n2.resolution = IF ok THEN v ELSE s.resolution
  BY <1>2, <1>3 DEF Record
<1> HIDE DEF n2
<1>5. Truthful(n2, t, l)
  BY <1>4 DEF Truthful
<1> QED BY <1>1, <1>4, <1>5

\* The end of the search, the resolution of the intent, and the archive.
LEMMA SettleKept ==
  ASSUME DispatchInv, NEW c \in Controller,
         \/ NotContained(c) \/ SettleBound(c) \/ SettleProof(c) \/ ResolveAbsent(c)
         \/ SettleAbsent(c) \/ ArchiveThread(c)
  PROVE  DispatchInv'
<1> USE DEF StartPoint, UnsentPoint
<1>1. /\ app[c] \in App /\ app[c].scan \in Record
      /\ Established(app[c], request, turn, ledger)
      /\ Truthful(app[c].scan, turn, ledger)
      /\ calls \in [Controller -> 0..MaxCalls]
  BY AppShapes DEF DispatchInv, DispatchTypeOK, Established
<1>2. /\ TrueLedger(request, turn, ledger)
      /\ turn \in {"none", "active", "terminal"}
      /\ app[c].pc # "final" => lock # c
  BY DEF DispatchInv, DispatchTypeOK, FinalUnderLock
<1>3. /\ Settled(app[c], "precursor", app[c].scan) \in App
      /\ Settled(app[c], "precursor", app[c].scan).pc = "precursor"
      /\ Established(Settled(app[c], "precursor", app[c].scan), request, turn, ledger)
  BY <1>1, SettledEstablished
<1>4. ASSUME NEW ok \in BOOLEAN, NEW event \in Event, NEW v \in {"turn-bound", "verified-absent"},
             app[c].pc # "final", UNCHANGED <<request, turn, response, record, lock, calls>>,
             Appended(event, NoRecord, ledger'), StoreKept, faults' \in 0..MaxFaults,
             ok => Stopped(request, turn),
             \/ event = "turn-bound" /\ turn # "none" /\ v = "turn-bound"
             \/ event = "turn-absent" /\ request = "rejected" /\ v = "verified-absent",
             ok => event \in ledger'.events,
             app' = [app EXCEPT ![c] =
                       [app[c] EXCEPT !.pc = IF ok THEN "archive" ELSE "precursor",
                                      !.capability = FALSE,
                                      !.scan.absence = @ \/ ok,
                                      !.scan.resolution = IF ok THEN v ELSE @]]
      PROVE  DispatchInv'
  <2> DEFINE s == Resolved(app[c].scan, ok, v)
             p == IF ok THEN "archive" ELSE "precursor"
  <2>1. app' = [app EXCEPT ![c] = Settled(app[c], p, s)]
    BY <1>1, <1>4 DEF Settled, Resolved, App, Record
  <2>2. Grows(request, turn, ledger, request, turn, ledger')
    BY <1>4, LedgerStep
  <2>3. Truthful(app[c].scan, turn, ledger') /\ Established(app[c], request, turn, ledger')
    BY <1>1, <2>2, TruthStays, EstablishedStays
  <2>4. s \in Record /\ Truthful(s, turn, ledger')
    BY <1>1, <1>4, <2>3, ResolvedShape
  <2> HIDE DEF s
  <2>5. p \in {"archive", "precursor"} /\ (p = "archive" => Stopped(request, turn))
    BY <1>4
  <2> HIDE DEF p
  <2>6. /\ Settled(app[c], p, s) \in App /\ Settled(app[c], p, s).pc = p
        /\ Established(Settled(app[c], p, s), request, turn, ledger')
    BY <1>1, <2>3, <2>4, <2>5, SettledEstablished
  <2>7. Unwritten(c, Settled(app[c], p, s), request, ledger', record)
    BY <2>5, <2>6, OutsideStart
  <2> QED BY <1>2, <1>4, <2>1, <2>5, <2>6, <2>7, AppendStep
<1>5. CASE NotContained(c)
  <2>1. /\ app[c].pc = "settle"
        /\ app' = [app EXCEPT ![c] = Settled(app[c], "precursor", app[c].scan)]
        /\ UNCHANGED <<request, turn, response, ledger, store, record, lock, faults, calls>>
    BY <1>1, <1>5 DEF NotContained, Wire, Set, Settled, App
  <2>2. Unwritten(c, Settled(app[c], "precursor", app[c].scan), request, ledger, record)
    BY <1>3, OutsideStart
  <2> QED BY <1>1, <1>3, <2>1, <2>2, StoreMoves, LocalStep
<1>6. CASE SettleBound(c)
  <2>1. /\ app[c].pc = "settle" /\ Complete(app[c]) /\ app[c].scan.discovered
        /\ UNCHANGED <<request, turn, response, record, lock, calls>>
    BY <1>6 DEF SettleBound, Wire
  <2>2. PICK ok \in BOOLEAN :
       /\ \/ /\ app[c].scan.resolution # "pending"
             /\ ok = (app[c].scan.resolution = "turn-bound")
             /\ UNCHANGED <<ledger, store, faults>>
          \/ /\ app[c].scan.resolution = "pending"
             /\ Append(c, "turn-bound", NoRecord, ok)
       /\ Set(c, [app[c] EXCEPT !.pc = IF ok THEN "archive" ELSE "precursor",
                                !.capability = FALSE,
                                !.scan.absence = @ \/ ok,
                                !.scan.resolution = IF ok THEN "turn-bound" ELSE @])
    BY <1>6, Zenon DEF SettleBound
  <2>3. turn # "none" /\ Stopped(request, turn)
    BY <1>1, <2>1 DEF Complete, Truthful, Stopped
  <2>4. ledger \in Ledger /\ faults \in 0..MaxFaults
    BY DEF DispatchInv, DispatchTypeOK
  <2>5. /\ Appended("turn-bound", NoRecord, ledger') /\ StoreKept /\ faults' \in 0..MaxFaults
        /\ ok => "turn-bound" \in ledger'.events
    <3>1. CASE /\ ok = (app[c].scan.resolution = "turn-bound")
               /\ UNCHANGED <<ledger, store, faults>>
      BY <1>1, <2>4, <3>1, StoreMoves DEF Appended, Truthful
    <3>2. CASE Append(c, "turn-bound", NoRecord, ok)
      BY <3>2, AppendShape, FreshValues DEF Event
    <3> QED BY <2>2, <3>1, <3>2
  <2> QED BY <1>4, <2>1, <2>2, <2>3, <2>5 DEF Event, Set
<1>7. CASE SettleProof(c)
  <2> DEFINE r1 == WithStatus(NoRecord, "failed-ambiguous")
             r2 == [r1 EXCEPT !.queried = app[c].scan.queried]
             r3 == [r2 EXCEPT !.epoch = c]
             x == Settled(app[c], "precursor", app[c].scan)
  <2>1. r3 = [NoRecord EXCEPT !.status = "failed-ambiguous", !.queried = app[c].scan.queried,
                              !.epoch = c]
    BY FreshValues DEF WithStatus, Record
  <2>2. [At(c, "precursor") EXCEPT !.capability = FALSE] = x
    BY <1>1 DEF At, Settled, App
  <2>3. /\ app[c].pc = "settle" /\ Persist(c, r3, At(c, "prove"), x)
        /\ UNCHANGED <<request, turn, response, ledger, store, lock, calls>>
    BY <1>7, <2>1, <2>2 DEF SettleProof, Wire
  <2>4. r1 \in Record /\ r1.status = "failed-ambiguous" /\ Truthful(r1, turn, ledger)
    BY FreshValues, NoRecordTrue, StatusShape DEF Status
  <2> HIDE DEF r1
  <2>5. /\ r2 \in Record /\ r2.status = r1.status /\ r2.discovered = r1.discovered
        /\ r2.terminal = r1.terminal /\ r2.resolution = r1.resolution
        /\ r2.archived = r1.archived
    BY <1>1, <2>4 DEF Record
  <2> HIDE DEF r2
  <2>6. /\ r3 \in Record /\ r3.status = r1.status /\ r3.discovered = r1.discovered
        /\ r3.terminal = r1.terminal /\ r3.resolution = r1.resolution
        /\ r3.archived = r1.archived
    BY <2>5 DEF Record
  <2> HIDE DEF r3
  <2>7. Truthful(r3, turn, ledger)
    BY <2>4, <2>6 DEF Truthful
  <2>8. /\ At(c, "prove") \in App /\ At(c, "prove").pc = "prove"
        /\ Established(At(c, "prove"), request, turn, ledger)
    BY AtShape DEF MarkedPoint, Point
  <2>9. Unwritten(c, At(c, "prove"), request, ledger, r3)
    BY <2>8, OutsideStart
  <2> HIDE DEF x
  <2>10. x \in App /\ x.pc \notin StartPoint \cup {"final"} /\ Established(x, request, turn, ledger)
    BY <1>3 DEF x
  <2> QED BY <1>2, <2>3, <2>4, <2>6, <2>7, <2>8, <2>9, <2>10, StoreMoves, PersistStep
<1>8. CASE ResolveAbsent(c)
  <2>1. /\ app[c].pc = "prove"
        /\ UNCHANGED <<request, turn, response, record, lock, calls>>
    BY <1>8 DEF ResolveAbsent, Wire
  <2>2. PICK ok \in BOOLEAN :
          /\ \/ store[c].observer = "observed" /\ Append(c, "turn-absent", NoRecord, ok)
             \/ /\ ~ok
                /\ UNCHANGED store \/ Disarm(c)
                /\ UNCHANGED <<ledger, faults>>
          /\ Set(c, [app[c] EXCEPT !.pc = IF ok THEN "archive" ELSE "precursor",
                                   !.capability = FALSE,
                                   !.scan.absence = @ \/ ok,
                                   !.scan.resolution = IF ok THEN "verified-absent" ELSE @])
    BY <1>8, Zenon DEF ResolveAbsent
  <2>3. CASE store[c].observer = "observed" /\ Append(c, "turn-absent", NoRecord, ok)
    <3>1. request = "rejected"
      BY <2>3 DEF DispatchInv
    <3>2. /\ Appended("turn-absent", NoRecord, ledger') /\ StoreKept /\ faults' \in 0..MaxFaults
          /\ ok => "turn-absent" \in ledger'.events
      BY <2>3, AppendShape, FreshValues DEF Event
    <3> QED BY <1>4, <2>1, <2>2, <3>1, <3>2 DEF Event, Set, Stopped
  <2>4. CASE /\ ~ok
             /\ UNCHANGED store \/ Disarm(c)
             /\ UNCHANGED <<ledger, faults>>
    <3>1. app' = [app EXCEPT ![c] = Settled(app[c], "precursor", app[c].scan)]
      <4>1. app[c] \in App /\ app[c].scan \in Record /\ app[c].scan.absence \in BOOLEAN
        BY <1>1 DEF App, Record
      <4>2. app[c].scan.absence \/ ok <=> app[c].scan.absence
        BY <2>4
      <4>3. (app[c].scan.absence \/ ok) = app[c].scan.absence
        BY <4>1, <4>2, Zenon
      <4>4. [app[c].scan EXCEPT !.absence = app[c].scan.absence,
                                !.resolution = app[c].scan.resolution] = app[c].scan
        BY <4>1 DEF Record
      <4>5. [app[c] EXCEPT !.pc = IF ok THEN "archive" ELSE "precursor",
                           !.capability = FALSE,
                           !.scan.absence = @ \/ ok,
                           !.scan.resolution = IF ok THEN "verified-absent" ELSE @]
              = Settled(app[c], "precursor", app[c].scan)
        BY <2>4, <4>1, <4>3, <4>4 DEF Settled, App
      <4> QED BY <2>2, <4>5 DEF Set
    <3>2. StoreKept
      BY <2>4, StoreMoves
    <3>3. Unwritten(c, Settled(app[c], "precursor", app[c].scan), request, ledger, record)
      BY <1>3, OutsideStart
    <3> QED BY <1>1, <1>3, <2>1, <2>4, <3>1, <3>2, <3>3, LocalStep
  <2> QED BY <2>2, <2>3, <2>4, Zenon
<1>9. CASE SettleAbsent(c)
  <2> DEFINE s == [app[c].scan EXCEPT !.absence = TRUE]
  <2>1. /\ app[c].pc = "settle" /\ app[c].scan.resolution = "verified-absent"
        /\ UNCHANGED <<request, turn, response, ledger, record, lock, faults, calls>>
    BY <1>9 DEF SettleAbsent, Wire
  <2>2. StoreKept
    BY <1>9, StoreMoves DEF SettleAbsent
  <2>3. \/ app' = [app EXCEPT ![c] = Settled(app[c], "archive", s)]
        \/ app' = [app EXCEPT ![c] = Settled(app[c], "precursor", app[c].scan)]
    BY <1>1, <1>9 DEF SettleAbsent, Set, Settled, App
  <2>4. Stopped(request, turn)
    BY <1>1, <1>2, <2>1 DEF Truthful, TrueLedger, Stopped
  <2>5. /\ s \in Record /\ s.discovered = app[c].scan.discovered
        /\ s.terminal = app[c].scan.terminal /\ s.resolution = app[c].scan.resolution
        /\ s.archived = app[c].scan.archived
    BY <1>1 DEF Record
  <2> HIDE DEF s
  <2>6. Truthful(s, turn, ledger)
    BY <1>1, <2>5 DEF Truthful
  <2>7. /\ Settled(app[c], "archive", s) \in App /\ Settled(app[c], "archive", s).pc = "archive"
        /\ Established(Settled(app[c], "archive", s), request, turn, ledger)
    BY <1>1, <2>4, <2>5, <2>6, SettledEstablished
  <2>8. PICK a \in {Settled(app[c], "archive", s), Settled(app[c], "precursor", app[c].scan)} :
          app' = [app EXCEPT ![c] = a]
    BY <2>3
  <2>9. a \in App /\ a.pc \notin StartPoint \cup {"final"} /\ Established(a, request, turn, ledger)
    BY <1>3, <2>7
  <2>10. Unwritten(c, a, request, ledger, record)
    BY <2>9, OutsideStart
  <2> QED BY <1>1, <2>1, <2>2, <2>8, <2>9, <2>10, LocalStep
<1>10. CASE ArchiveThread(c)
  <2>1. /\ app[c].pc = "archive"
        /\ UNCHANGED <<request, turn, response, record, lock, calls>>
    BY <1>10 DEF ArchiveThread, Wire
  <2>2. PICK ok \in BOOLEAN :
       /\ \/ RecordLifecycle(c, "archive-observed", ok)
          \/ ~ok /\ UNCHANGED <<ledger, store, faults>>
       /\ Set(c, [app[c] EXCEPT !.pc = "precursor", !.contained = ok, !.scan.archived = ok])
    BY <1>10 DEF ArchiveThread
  <2>3. Stopped(request, turn)
    BY <1>1, <2>1 DEF Established
  <2>4. /\ Appended("archive-observed", NoRecord, ledger') /\ StoreKept
        /\ faults' \in 0..MaxFaults
        /\ ok => "archive-observed" \in ledger'.events
    BY <2>2, LifecycleShape DEF Event
  <2>5. Grows(request, turn, ledger, request, turn, ledger')
    BY <2>4, LedgerStep DEF Event
  <2>6. Truthful(app[c].scan, turn, ledger') /\ Established(app[c], request, turn, ledger')
    BY <1>1, <2>5, TruthStays, EstablishedStays
  <2> DEFINE s == [app[c].scan EXCEPT !.archived = ok]
             n1 == Scanned(app[c], "precursor", s)
             n == [n1 EXCEPT !.contained = ok]
  <2>7. app' = [app EXCEPT ![c] = n]
    BY <1>1, <2>2 DEF Set, Scanned, App, Record
  <2>8. /\ s \in Record /\ s.discovered = app[c].scan.discovered
        /\ s.terminal = app[c].scan.terminal /\ s.resolution = app[c].scan.resolution
        /\ s.archived = ok
    BY <1>1 DEF Record
  <2> HIDE DEF s
  <2>9. Truthful(s, turn, ledger')
    BY <2>4, <2>6, <2>8 DEF Truthful
  <2>10. "precursor" \in Point
    BY DEF Point
  <2>11. /\ n1 \in App /\ n1.pc = "precursor" /\ n1.cur = app[c].cur /\ n1.scan = s
         /\ n1.capability = app[c].capability
    BY <1>1, <2>8, <2>10, ScanShape
  <2> HIDE DEF n1
  <2>12. /\ n \in App /\ n.pc = "precursor" /\ n.cur = app[c].cur /\ n.scan = s
         /\ n.capability = app[c].capability /\ n.contained = ok
    BY <2>11 DEF App
  <2> HIDE DEF n
  <2>13. Established(n, request, turn, ledger')
    BY <2>3, <2>4, <2>6, <2>9, <2>12 DEF Established
  <2>14. Unwritten(c, n, request, ledger', record)
    BY <2>12, OutsideStart
  <2> QED BY <1>2, <2>1, <2>4, <2>7, <2>12, <2>13, <2>14, AppendStep DEF Event
<1> QED BY <1>5, <1>6, <1>7, <1>8, <1>9, <1>10

-----------------------------------------------------------------------------
(* The audit, recovery, death, and the app-server. *)

\* A controller that gives up with the record on disk in its memory.
LEMMA AdoptedShape ==
  ASSUME DispatchInv, NEW c \in Controller
  PROVE  /\ [Ended(c) EXCEPT !.cur = record] \in App
         /\ [Ended(c) EXCEPT !.cur = record].pc \in {"ended", "summary"}
         /\ Established([Ended(c) EXCEPT !.cur = record], request, turn, ledger)
<1>1. record \in Record /\ Truthful(record, turn, ledger)
  BY DEF DispatchInv, DispatchTypeOK, TrueDisk
<1>2. Ended(c) \in App /\ Ended(c).pc \in {"ended", "summary"} /\ Established(Ended(c), request, turn, ledger)
  BY AppShapes
<1> DEFINE e == Ended(c)
           n == [e EXCEPT !.cur = record]
<1> HIDE DEF e
<1>3. /\ n \in App /\ n.pc = e.pc /\ n.cur = record /\ n.scan = e.scan
      /\ n.capability = e.capability /\ n.contained = e.contained
  BY <1>1, <1>2 DEF App, e
<1> HIDE DEF n
<1>4. Established(n, request, turn, ledger)
  BY <1>1, <1>2, <1>3 DEF Established, e
<1> QED BY <1>2, <1>3, <1>4 DEF n, e

\* The writes of the record around the audit.
LEMMA AroundAuditKept ==
  ASSUME DispatchInv, NEW c \in Controller,
         PersistPrecursor(c) \/ AuditConflict(c) \/ PersistFinal(c)
  PROVE  DispatchInv'
<1> USE DEF StartPoint, UnsentPoint
<1>1. /\ app[c] \in App /\ app[c].scan \in Record /\ app[c].cur \in Record
      /\ Established(app[c], request, turn, ledger)
      /\ Truthful(app[c].cur, turn, ledger) /\ Truthful(app[c].scan, turn, ledger)
      /\ calls \in [Controller -> 0..MaxCalls]
  BY AppShapes DEF DispatchInv, DispatchTypeOK, Established
<1>2. /\ record \in Record /\ Truthful(record, turn, ledger)
      /\ app[c].pc = "final" <=> lock = c
  BY DEF DispatchInv, DispatchTypeOK, TrueDisk, FinalUnderLock
<1>3. \A r : Unwritten(c, Ended(c), request, ledger, r)
  BY AppShapes, OutsideStart
<1>4. CASE PersistPrecursor(c)
  <2> DEFINE r1 == WithStatus(app[c].scan, "failed-ambiguous")
             r2 == [r1 EXCEPT !.epoch = c]
             n == IF app[c].contained THEN At(c, "audit") ELSE Ended(c)
  <2>1. r2 = [app[c].scan EXCEPT !.status = "failed-ambiguous", !.epoch = c]
    BY <1>1 DEF WithStatus, Record
  <2>2. /\ app[c].pc = "precursor" /\ Persist(c, r2, n, Raised(c))
        /\ UNCHANGED <<request, turn, response, ledger, store, lock, calls>>
    BY <1>4, <2>1 DEF PersistPrecursor, Wire
  <2>3. r1 \in Record /\ r1.status = "failed-ambiguous" /\ Truthful(r1, turn, ledger)
    BY <1>1, StatusShape DEF Status
  <2> HIDE DEF r1
  <2>4. /\ r2 \in Record /\ r2.status = r1.status /\ r2.discovered = r1.discovered
        /\ r2.terminal = r1.terminal /\ r2.resolution = r1.resolution
        /\ r2.archived = r1.archived
    BY <2>3 DEF Record
  <2> HIDE DEF r2
  <2>5. Truthful(r2, turn, ledger)
    BY <2>3, <2>4 DEF Truthful
  <2>6. /\ At(c, "audit") \in App /\ At(c, "audit").pc = "audit"
        /\ At(c, "audit").cur = app[c].cur /\ At(c, "audit").scan = app[c].scan
        /\ At(c, "audit").capability = app[c].capability
        /\ At(c, "audit").contained = app[c].contained
    BY AtShape DEF Point
  <2>7. app[c].contained => Established(At(c, "audit"), request, turn, ledger)
    BY <1>1, <2>6 DEF Established
  <2>8. n \in App /\ n.pc \in {"audit", "ended", "summary"} /\ Established(n, request, turn, ledger)
    BY <2>6, <2>7, AppShapes
  <2> HIDE DEF n
  <2>9. Unwritten(c, n, request, ledger, r2)
    BY <2>8, OutsideStart
  <2> QED BY <1>2, <2>2, <2>3, <2>4, <2>5, <2>8, <2>9, AppShapes, StoreMoves, PersistStep
<1>5. CASE AuditConflict(c)
  <2>1. /\ app[c].pc # "final" /\ lock = Nobody
        /\ UNCHANGED <<request, turn, response, ledger, lock, calls>>
    BY <1>5 DEF AuditConflict, Wire
  <2>2. StoreKept
    BY <1>5, StoreMoves DEF AuditConflict
  <2>3. CASE record.status = "failed-contained" /\ ~ExactlyVerified(record)
    <3> DEFINE r == WithStatus(record, "failed-ambiguous")
    <3>1. r \in Record /\ r.status = "failed-ambiguous" /\ Truthful(r, turn, ledger)
      BY <1>2, StatusShape DEF Status
    <3>2. Persist(c, r, Ended(c), Raised(c))
      BY <1>5, <2>3 DEF AuditConflict
    <3> HIDE DEF r
    <3> QED BY <1>2, <1>3, <2>1, <2>2, <3>1, <3>2, AppShapes, PersistStep
  <2>4. CASE ~(record.status = "failed-contained" /\ ~ExactlyVerified(record))
    <3> DEFINE a == [Ended(c) EXCEPT !.cur = record]
    <3>1. app' = [app EXCEPT ![c] = a] /\ UNCHANGED <<record, faults>>
      BY <1>5, <2>4 DEF AuditConflict, Set
    <3>2. a \in App /\ a.pc \in {"ended", "summary"} /\ Established(a, request, turn, ledger)
      BY AdoptedShape
    <3> HIDE DEF a
    <3>3. Unwritten(c, a, request, ledger, record)
      BY <3>2, OutsideStart
    <3> QED BY <1>1, <2>1, <2>2, <3>1, <3>2, <3>3, LocalStep
  <2> QED BY <2>3, <2>4
<1>6. CASE PersistFinal(c)
  <2>1. /\ app[c].pc = "final" /\ Persist(c, Candidate(c), Ended(c), Raised(c))
        /\ lock' = Nobody
        /\ UNCHANGED <<request, turn, response, ledger, store, calls>>
    BY <1>6 DEF PersistFinal, Wire
  <2>2. /\ Candidate(c) \in Record /\ Candidate(c).status = "failed-contained"
        /\ Truthful(Candidate(c), turn, ledger)
    BY <1>1, StatusShape DEF Candidate, Status
  <2>3. "containment-audited" \in ledger.events /\ ledger.evidence = Candidate(c)
    BY <1>1, <2>1 DEF Established, Candidate
  <2> QED BY <1>2, <1>3, <2>1, <2>2, <2>3, AppShapes, StoreMoves, PersistStep
<1> QED BY <1>4, <1>5, <1>6

\* The audit appends the only evidence there is, or finds its own.
LEMMA AuditShape ==
  ASSUME DispatchInv, NEW c \in Controller, NEW ok \in BOOLEAN, AuditAppend(c, ok),
         "archive-observed" \in ledger.events, Stopped(request, turn)
  PROVE  /\ ledger' \in Ledger /\ StoreKept /\ faults' \in 0..MaxFaults
         /\ Grows(request, turn, ledger, request, turn, ledger')
         /\ TrueLedger(request, turn, ledger')
         /\ TrueDisk(request, turn, ledger', record)
         /\ ok => /\ "containment-audited" \in ledger'.events
                  /\ ledger'.evidence = Candidate(c)
<1>1. /\ ledger \in Ledger /\ faults \in 0..MaxFaults
      /\ TrueLedger(request, turn, ledger) /\ TrueDisk(request, turn, ledger, record)
  BY DEF DispatchInv, DispatchTypeOK
<1>2. Candidate(c) \in Record
  BY AppShapes, StatusShape DEF Candidate, Status, Established
<1>3. Grows(request, turn, ledger, request, turn, ledger)
  BY DEF Grows
<1>4. CASE "containment-audited" \notin ledger.events
  <2>1. Append(c, "containment-audited", Candidate(c), ok)
    BY <1>4 DEF AuditAppend
  <2>2. /\ Appended("containment-audited", Candidate(c), ledger')
        /\ StoreKept /\ faults' \in 0..MaxFaults
        /\ ok => /\ "containment-audited" \in ledger'.events
                 /\ ledger'.evidence = Candidate(c)
    BY <1>2, <2>1, AppendShape DEF Event
  <2>3. ledger' \in Ledger
    BY <2>2 DEF Appended
  <2>4. /\ Grows(request, turn, ledger, request, turn, ledger')
        /\ TrueLedger(request, turn, ledger')
        /\ TrueDisk(request, turn, ledger', record)
    BY <1>4, <2>2, LedgerStep DEF Event
  <2> QED BY <2>2, <2>3, <2>4
<1>5. CASE "containment-audited" \in ledger.events /\ ~Trusted(c)
  <2>1. ~ok /\ Disarm(c) /\ UNCHANGED <<ledger, faults>>
    BY <1>5 DEF AuditAppend, Append
  <2>2. StoreKept
    BY <2>1, StoreMoves
  <2> QED BY <1>1, <1>3, <2>1, <2>2
<1>6. CASE "containment-audited" \in ledger.events /\ Trusted(c)
  <2>1. /\ ok => ledger.evidence = Candidate(c)
        /\ UNCHANGED store \/ Disarm(c)
        /\ UNCHANGED <<ledger, faults>>
    BY <1>6 DEF AuditAppend
  <2>2. StoreKept
    BY <2>1, StoreMoves
  <2> QED BY <1>1, <1>3, <1>6, <2>1, <2>2
<1> QED BY <1>4, <1>5, <1>6

\* The audit itself, at first and on a later call.
LEMMA AuditKept ==
  ASSUME DispatchInv, NEW c \in Controller, Audit(c) \/ ResumeAudit(c)
  PROVE  DispatchInv'
<1> USE DEF StartPoint, UnsentPoint
<1>1. /\ app[c] \in App
      /\ Established(app[c], request, turn, ledger)
      /\ calls \in [Controller -> 0..MaxCalls]
      /\ request \in {"none", "sent", "started", "rejected"}
      /\ turn \in {"none", "active", "terminal"}
      /\ response \in {"none", "turn", "error", "unobserved", "invalid", "taken"}
      /\ ledger \in Ledger /\ record \in Record /\ faults \in 0..MaxFaults
      /\ Agree(request, turn, response)
      /\ TrueLedger(request, turn, ledger) /\ TrueDisk(request, turn, ledger, record)
  BY DEF DispatchInv, DispatchTypeOK
<1>2. /\ At(c, "final") \in App /\ At(c, "final").pc = "final"
      /\ At(c, "final").cur = app[c].cur /\ At(c, "final").scan = app[c].scan
      /\ At(c, "final").capability = app[c].capability
      /\ At(c, "final").contained = app[c].contained
  BY AtShape DEF Point
<1>3. Unwritten(c, At(c, "final"), request, ledger', record)
  BY <1>2, OutsideStart
<1>4. Unwritten(c, Ended(c), request, ledger', record)
  BY AppShapes, OutsideStart
<1>5. CASE Audit(c)
  <2>1. /\ app[c].pc = "audit" /\ lock = Nobody /\ record = app[c].cur
        /\ UNCHANGED <<request, turn, response, record, calls>>
    BY <1>5 DEF Audit, Wire
  <2>2. PICK ok \in BOOLEAN :
          /\ AuditAppend(c, ok)
          /\ IF ok THEN Goto(c, "final") /\ lock' = c
                   ELSE Set(c, Ended(c)) /\ UNCHANGED lock
    BY <1>5 DEF Audit
  <2>3. "archive-observed" \in ledger.events /\ Stopped(request, turn)
    BY <1>1, <2>1 DEF Established
  <2>4. /\ ledger' \in Ledger /\ StoreKept /\ faults' \in 0..MaxFaults
        /\ Grows(request, turn, ledger, request, turn, ledger')
        /\ TrueLedger(request, turn, ledger')
        /\ TrueDisk(request, turn, ledger', record)
        /\ ok => /\ "containment-audited" \in ledger'.events
                 /\ ledger'.evidence = Candidate(c)
    BY <2>2, <2>3, AuditShape
  <2>5. Established(app[c], request, turn, ledger')
    BY <1>1, <2>4, EstablishedStays
  <2>6. CASE ok
    <3>1. app' = [app EXCEPT ![c] = At(c, "final")] /\ lock' = c
      BY <2>2, <2>6 DEF Goto, Set, At
    <3>2. Established(At(c, "final"), request, turn, ledger')
      BY <1>2, <2>4, <2>5, <2>6 DEF Established, Candidate
    <3> QED BY <1>1, <1>2, <1>3, <2>1, <2>4, <3>1, <3>2, ControllerStep
  <2>7. CASE ~ok
    <3>1. app' = [app EXCEPT ![c] = Ended(c)] /\ lock' = Nobody
      BY <2>1, <2>2, <2>7 DEF Set
    <3>2. Established(Ended(c), request, turn, ledger')
      BY <2>4, AppShapes, EstablishedStays
    <3>3. Nobody # c
      BY ControllerAssumption
    <3> QED BY <1>1, <1>4, <2>1, <2>4, <3>1, <3>2, <3>3, AppShapes, ControllerStep
  <2> QED BY <2>6, <2>7
<1>6. CASE ResumeAudit(c)
  <2>1. /\ app[c].pc = "resume-audit" /\ lock = Nobody /\ record = app[c].cur
        /\ FullValidation(c)
        /\ UNCHANGED <<request, turn, response, ledger, record, faults, calls>>
    BY <1>6 DEF ResumeAudit, Wire
  <2>2. StoreKept
    BY <2>1, StoreMoves
  <2>3. Grows(request, turn, ledger, request, turn, ledger)
    BY DEF Grows
  <2>4. CASE ExactAudit(Candidate(c))
    <3>1. app' = [app EXCEPT ![c] = At(c, "final")] /\ lock' = c
      BY <1>6, <2>4 DEF ResumeAudit, Goto, Set, At
    <3>2. "containment-audited" \in ledger.events /\ ledger.evidence = Candidate(c)
      BY <2>4 DEF ExactAudit
    <3>3. Established(At(c, "final"), request, turn, ledger)
      BY <1>1, <1>2, <3>2 DEF Established, Candidate
    <3> QED BY <1>1, <1>2, <1>3, <2>1, <2>2, <2>3, <3>1, <3>3, ControllerStep
  <2>5. CASE ~ExactAudit(Candidate(c))
    <3>1. app' = [app EXCEPT ![c] = Ended(c)] /\ lock' = Nobody
      BY <1>6, <2>1, <2>5 DEF ResumeAudit, Set
    <3>2. Nobody # c
      BY ControllerAssumption
    <3> QED BY <1>1, <1>4, <2>1, <2>2, <2>3, <3>1, <3>2, AppShapes, ControllerStep
  <2> QED BY <2>4, <2>5
<1> QED BY <1>5, <1>6

\* A controller attaches, and one dies.
LEMMA ProcessKept ==
  ASSUME DispatchInv, NEW c \in Controller, Attach(c) \/ Crash(c)
  PROVE  DispatchInv'
<1> USE DEF StartPoint, UnsentPoint
<1>1. /\ calls \in [Controller -> 0..MaxCalls]
      /\ request \in {"none", "sent", "started", "rejected"}
      /\ turn \in {"none", "active", "terminal"}
      /\ response \in {"none", "turn", "error", "unobserved", "invalid", "taken"}
      /\ ledger \in Ledger /\ record \in Record /\ faults \in 0..MaxFaults
      /\ Agree(request, turn, response)
      /\ TrueLedger(request, turn, ledger) /\ TrueDisk(request, turn, ledger, record)
  BY DEF DispatchInv, DispatchTypeOK
<1>2. Grows(request, turn, ledger, request, turn, ledger)
  BY DEF Grows
<1>3. CASE Attach(c)
  <2> DEFINE a == IF ledger.ahead THEN Raised(c) ELSE [Ended(c) EXCEPT !.cur = record]
  <2>1. /\ app[c].pc = "detached" /\ FullValidation(c) /\ app' = [app EXCEPT ![c] = a]
        /\ UNCHANGED <<request, turn, response, ledger, record, lock, faults, calls>>
    BY <1>3 DEF Attach, Wire, Set
  <2>2. a \in App /\ a.pc \in {"raised", "ended", "summary"} /\ Established(a, request, turn, ledger)
    BY AppShapes, AdoptedShape
  <2> HIDE DEF a
  <2>3. Unwritten(c, a, request, ledger, record)
    BY <2>2, OutsideStart
  <2> QED BY <1>1, <2>1, <2>2, <2>3, StoreMoves, LocalStep
<1>4. CASE Crash(c)
  <2> DEFINE a == [FreshApp EXCEPT !.pc = "crashed"]
  <2>1. /\ app' = [app EXCEPT ![c] = a] /\ Disarm(c)
        /\ lock' = IF lock = c THEN Nobody ELSE lock
        /\ UNCHANGED <<request, turn, response, ledger, record, faults, calls>>
    BY <1>4 DEF Crash, Wire, Set
  <2>2. /\ a \in App /\ a.pc = "crashed" /\ a.cur = NoRecord /\ a.scan = NoRecord
        /\ ~a.capability /\ ~a.contained
    BY FreshValues DEF App, Point
  <2> HIDE DEF a
  <2>3. Established(a, request, turn, ledger)
    BY <2>2, NoRecordTrue DEF Established
  <2>4. Unwritten(c, a, request, ledger, record)
    BY <2>2, OutsideStart
  <2>5. lock' # c /\ (lock' = Nobody \/ lock' = lock) /\ (lock \in {Nobody, c} \/ lock' = lock)
    BY <2>1, ControllerAssumption
  <2>6. StoreKept
    BY <2>1, StoreMoves
  <2> QED BY <1>1, <1>2, <2>1, <2>2, <2>3, <2>4, <2>5, <2>6, ControllerStep
<1> QED BY <1>3, <1>4

\* A step of the app-server.
LEMMA ServerKept ==
  ASSUME DispatchInv, AppServer
  PROVE  DispatchInv'
<1> USE DEF StartPoint, UnsentPoint
<1>1. /\ request \in {"none", "sent", "started", "rejected"}
      /\ turn \in {"none", "active", "terminal"}
      /\ response \in {"none", "turn", "error", "unobserved", "invalid", "taken"}
      /\ store \in [Controller -> Store]
      /\ Agree(request, turn, response)
      /\ TrueLedger(request, turn, ledger) /\ TrueDisk(request, turn, ledger, record)
  BY DEF DispatchInv, DispatchTypeOK
<1>2. Dispatcher \in Controller
  BY DEF Controller
<1>3. UNCHANGED <<ledger, record, lock, app, faults, calls>>
  BY DEF AppServer, ServerHandles, TurnEnds, Deliver
<1>4. Grows(request, turn, ledger, request', turn', ledger)
  BY <1>1 DEF AppServer, ServerHandles, TurnEnds, Deliver, Grows, Agree
<1>5. /\ request' \in {"none", "sent", "started", "rejected"}
      /\ turn' \in {"none", "active", "terminal"}
      /\ response' \in {"none", "turn", "error", "unobserved", "invalid", "taken"}
  BY <1>1 DEF AppServer, ServerHandles, TurnEnds, Deliver
<1>6. Agree(request', turn', response')
  BY <1>1 DEF AppServer, ServerHandles, TurnEnds, Deliver, Agree
<1>7. request = "none" => request' = "none"
  BY <1>1 DEF AppServer, ServerHandles, TurnEnds, Deliver, Agree
<1>8. request' = "none" => request = "none"
  BY DEF AppServer, ServerHandles, TurnEnds, Deliver
<1>9. TrueLedger(request', turn', ledger)
  BY <1>1, <1>4 DEF TrueLedger, Grows, Stopped
<1>10. TrueDisk(request', turn', ledger, record)
  <2>1. Truthful(record, turn', ledger)
    BY <1>1, <1>4, TruthStays DEF TrueDisk
  <2> QED BY <1>1, <1>7, <2>1 DEF TrueDisk
<1>11. /\ store' \in [Controller -> Store]
       /\ \A d \in Controller : store'[d].observer = "observed" => request' = "rejected"
  <2>1. CASE UNCHANGED store
    BY <1>1, <1>4, <2>1 DEF DispatchInv, Grows
  <2>2. CASE store # store'
    <3>1. /\ request' = "rejected"
          /\ store' = [store EXCEPT ![Dispatcher].observer = "observed"]
      BY <2>2 DEF AppServer, ServerHandles, TurnEnds, Deliver
    <3>2. [store[Dispatcher] EXCEPT !.observer = "observed"] \in Store
      BY <1>1, <1>2 DEF Store
    <3>3. store' \in [Controller -> Store]
      BY <1>1, <1>2, <3>1, <3>2
    <3> QED BY <3>1, <3>3
  <2> QED BY <2>1, <2>2
<1>12. DispatchTypeOK'
  BY <1>3, <1>5, <1>11 DEF DispatchInv, DispatchTypeOK
<1>13. FinalUnderLock'
  BY <1>3 DEF DispatchInv, FinalUnderLock
<1>14. ASSUME NEW d \in Controller
       PROVE  /\ Established(app[d], request', turn', ledger)
              /\ Unwritten(d, app[d], request', ledger, record)
  <2>1. Established(app[d], request, turn, ledger) /\ Unwritten(d, app[d], request, ledger, record)
    BY DEF DispatchInv
  <2> QED BY <1>4, <1>7, <2>1, EstablishedStays DEF Unwritten
<1> QED BY <1>3, <1>6, <1>9, <1>10, <1>11, <1>12, <1>13, <1>14 DEF DispatchInv

-----------------------------------------------------------------------------
(* The theorems. *)

\* The invariant holds before start_turn.
LEMMA InitDispatch == Init => DispatchInv
<1> SUFFICES ASSUME Init PROVE DispatchInv
  OBVIOUS
<1>1. /\ request = "none" /\ turn = "none" /\ response = "none" /\ ledger = EmptyLedger
      /\ record = NoRecord /\ lock = Nobody /\ faults = 0
      /\ calls = [c \in Controller |-> 0]
  BY DEF Init
<1>2. /\ ledger \in Ledger /\ ledger.events = {} /\ ledger.evidence = NoRecord
  BY <1>1, FreshValues DEF EmptyLedger, Ledger
<1> DEFINE first == [FreshApp EXCEPT !.pc = "intent"]
<1>3. /\ first \in App /\ first.pc = "intent" /\ first.cur = NoRecord /\ first.scan = NoRecord
      /\ ~first.capability /\ ~first.contained
  BY FreshValues DEF App, Point, StartPoint, UnsentPoint
<1>4. \A c \in Controller : app[c] = IF c = Dispatcher THEN first ELSE FreshApp
  BY DEF Init
<1> HIDE DEF first
<1>5. /\ app \in [Controller -> App]
      /\ \A c \in Controller : /\ app[c].cur = NoRecord /\ app[c].scan = NoRecord
                               /\ ~app[c].capability /\ ~app[c].contained
                               /\ app[c].pc \in {"intent", "detached"}
                               /\ app[c].pc = "intent" => c = Dispatcher
  <2>1. \A c \in Controller : app[c] \in App
    BY <1>3, <1>4, FreshValues
  <2>2. app \in [Controller -> App]
    BY <2>1 DEF Init
  <2> QED BY <1>3, <1>4, <2>2, FreshValues
<1>6. ASSUME NEW c \in Controller
      PROVE  store[c] \in Store /\ store[c].observer = "none"
  <2>1. store[c] = [ClosedStore EXCEPT !.open = (c = Dispatcher)]
    BY DEF Init
  <2> QED BY <2>1, FreshValues DEF Store
<1>7. store \in [Controller -> Store]
  BY <1>6 DEF Init
<1>8. DispatchTypeOK
  BY <1>1, <1>2, <1>5, <1>7, FreshValues, ControllerAssumption DEF DispatchTypeOK
<1>9. Agree(request, turn, response) /\ TrueLedger(request, turn, ledger)
  BY <1>1, <1>2 DEF Agree, TrueLedger
<1>10. TrueDisk(request, turn, ledger, record)
  BY <1>1, FreshValues, NoRecordTrue DEF TrueDisk
<1>11. FinalUnderLock
  BY <1>1, <1>5, ControllerAssumption DEF FinalUnderLock
<1>12. ASSUME NEW c \in Controller
       PROVE  /\ store[c].observer = "observed" => request = "rejected"
              /\ Established(app[c], request, turn, ledger)
              /\ Unwritten(c, app[c], request, ledger, record)
  <2>1. Established(app[c], request, turn, ledger)
    BY <1>5, NoRecordTrue DEF Established
  <2>2. Unwritten(c, app[c], request, ledger, record)
    BY <1>1, <1>5 DEF Unwritten, StartPoint, UnsentPoint
  <2> QED BY <1>6, <2>1, <2>2
<1> QED BY <1>8, <1>9, <1>10, <1>11, <1>12 DEF DispatchInv

\* Every step keeps it.
LEMMA StepDispatch == DispatchInv /\ [Next]_vars => DispatchInv'
<1> SUFFICES ASSUME DispatchInv, [Next]_vars PROVE DispatchInv'
  OBVIOUS
<1>1. ASSUME NEW c \in Controller, StartTurn(c) PROVE DispatchInv'
  BY <1>1, BeforeWriteKept, WriteKept, OutcomeKept DEF StartTurn
<1>2. ASSUME NEW c \in Controller, Contain(c) PROVE DispatchInv'
  BY <1>2, BeginKept, SearchKept, SettleKept, AroundAuditKept, AuditKept DEF Contain
<1>3. ASSUME NEW c \in Controller, Attach(c) \/ Crash(c) PROVE DispatchInv'
  BY <1>3, ProcessKept
<1>4. ASSUME AppServer PROVE DispatchInv'
  BY <1>4, ServerKept
<1>5. CASE UNCHANGED vars
  <2>1. UNCHANGED <<request, turn, response, ledger, store, record, lock, app, faults, calls>>
    BY <1>5 DEF vars
  <2> QED BY <2>1 DEF DispatchInv, DispatchTypeOK, FinalUnderLock
<1> QED BY <1>1, <1>2, <1>3, <1>4, <1>5 DEF Next

\* What every copy of the dispatch record claims, what each controller has
\* established at its program point, and what is on disk agree with the
\* app-server, whatever controllers die and whichever writes fail.
THEOREM DispatchInvariant == Spec => []DispatchInv
  BY InitDispatch, StepDispatch, PTL DEF Spec

\* start_turn never writes turn/start before the intent is in the ledger and the
\* record that containment accepts is on disk, and neither is lost afterwards.
THEOREM WritesAreAhead == Spec => []WriteAhead
<1>1. DispatchInv => WriteAhead
  BY DEF DispatchInv, TrueDisk, WriteAhead
<1> QED BY <1>1, DispatchInvariant, PTL

\* The ledger says that a turn is absent only when the request was rejected, and
\* binds a turn only when there is one.
THEOREM ResolutionsAreTrue == Spec => []ResolutionTruthful
<1>1. DispatchInv => ResolutionTruthful
  BY DEF DispatchInv, TrueLedger, ResolutionTruthful
<1> QED BY <1>1, DispatchInvariant, PTL

\* A dispatch that containment recorded as contained has no turn that runs, and
\* none can start from it.
THEOREM ContainmentStops == Spec => []ContainedMeansStopped
<1>1. DispatchInv => ContainedMeansStopped
  BY DEF DispatchInv, DispatchTypeOK, TrueLedger, TrueDisk, Agree, Stopped, ContainedMeansStopped
<1> QED BY <1>1, DispatchInvariant, PTL

\* persist_exact_audited_success: the final record on disk is the one of the
\* audit in the ledger, and the archive was observed.
THEOREM ContainmentIsAudited == Spec => []ContainedIsAudited
<1>1. DispatchInv => ContainedIsAudited
  BY DEF DispatchInv, TrueLedger, TrueDisk, ContainedIsAudited
<1> QED BY <1>1, DispatchInvariant, PTL

\* The lock of the record is held exactly by a controller between its audit and
\* its final write, and what it replaces is the record it audited.
THEOREM AuditedUnderLock == Spec => []FinalUnderLock
<1>1. DispatchInv => FinalUnderLock
  BY DEF DispatchInv
<1> QED BY <1>1, DispatchInvariant, PTL
=============================================================================
