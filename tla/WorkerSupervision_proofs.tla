---------------------- MODULE WorkerSupervision_proofs ----------------------
(***************************************************************************)
(* Proofs about WorkerSupervision, for any controllers and any number of   *)
(* commands that overlap or die.  Good says what every copy of the state   *)
(* file owes to the audit log and to the worker, wherever the copy is: in  *)
(* the file, read by a command, or about to be written.  Orderly says what *)
(* holds in addition as long as commands follow one another.               *)
(***************************************************************************)
EXTENDS WorkerSupervision, TLAPS

\* What a state has behind it when the audit log holds the events a.
Good(s, a) ==
  /\ s.receipts \subseteq a
  /\ s.audited # "continue" => s.audited \in a
  /\ s.decision \in {"complete", "interrupt"} => s.decision \in a
  /\ s.decision = "control-lost" =>
       s.decision \in a \/ s.reasons = "authority" \/ s.status = "control-failed"
  /\ s.decision = "complete" => log = "complete" /\ "violation" \notin facts
  /\ s.status = "completed" => s.decision = "complete"
  /\ s.reasons = "budget" => "reserve" \in facts
  /\ s.eligible = "yes" => "reserve" \in facts

\* A command that read a final state leaves its status and decision alone.
Keeps(s, next) ==
  s # NoFile /\ s.status \in FinalStates =>
    next.status = s.status /\ next.decision = s.decision

Kept(s, a) == s = NoFile \/ (s \in StateFile /\ Good(s, a))

CommandInv(c) ==
  /\ command[c].at \in {"idle", "read", "write"}
  /\ command[c].at = "idle" => command[c] = Idle
  /\ command[c].at = "read" =>
       /\ command[c].op \in Operation
       /\ Kept(command[c].seen, audit)
       /\ Accepted(command[c].op, command[c].seen, c)
  /\ command[c].at = "write" =>
       /\ command[c].next \in StateFile /\ Good(command[c].next, audit)
       /\ Keeps(command[c].seen, command[c].next)

\* What an outcome o of operation op on s owes when the audit log holds a.
Sound(op, s, o, a) ==
  /\ o.next \in StateFile /\ o.events \subseteq AuditEvent
  /\ Good(o.next, a \cup o.events)
  /\ Keeps(s, o.next)
  /\ "retry-authorized" \in o.events => op = "authorize-retry"
  /\ "worker-completed" \in o.events => op = "worker-completed" /\ o.next.status = "completed"

RetryTrail ==
  "retry-authorized" \in audit =>
    /\ "reserve" \in facts
    /\ {"interrupt", "interrupt-confirmed", "close-confirmed"} \subseteq audit

Orderly ==
  /\ \A c, d \in Controller : command[c] # Idle /\ command[d] # Idle => c = d
  /\ \A c \in Controller : command[c] # Idle => command[c].seen = file
  /\ "retry-authorized" \in audit => file.status = "closed"
  /\ "worker-completed" \in audit =>
       \/ file.status = "completed"
       \/ \E c \in Controller : command[c].at = "write" /\ command[c].next.status = "completed"

SupervisionInv ==
  /\ SupervisionTypeOK
  /\ DOMAIN command = Controller
  /\ Kept(file, audit)
  /\ \A c \in Controller : CommandInv(c)
  /\ RetryTrail
  /\ mishaps = 0 => Orderly

-----------------------------------------------------------------------------
\* A state keeps what is behind it when the audit log grows.
LEMMA GoodGrows ==
  ASSUME NEW s \in StateFile, NEW a, NEW b, a \subseteq b, Good(s, a)
  PROVE  Good(s, b)
BY DEF Good

\* SetControlLost keeps the type and changes four fields.
LEMMA LostShape ==
  ASSUME NEW s \in StateFile, NEW reason \in {"control", "authority"}
  PROVE  LET n == SetControlLost(s, reason)
         IN /\ n \in StateFile
            /\ n.decision = "control-lost" /\ n.status = "interrupt-pending"
            /\ n.reasons = reason /\ n.receipts = s.receipts /\ n.audited = s.audited
            /\ n.eligible = s.eligible
<1> DEFINE n1 == [s EXCEPT !.decision = "control-lost"]
           n2 == [n1 EXCEPT !.status = "interrupt-pending"]
           n3 == [n2 EXCEPT !.reasons = reason]
           n4 == [n3 EXCEPT !.session = "quarantined"]
<1>1. n1 \in StateFile
  BY DEF StateFile, Decision, Stops
<1>2. n2 \in StateFile
  BY <1>1 DEF StateFile, FileStatus, MonitoredStates
<1>3. n3 \in StateFile
  BY <1>2 DEF StateFile
<1>4. n4 \in StateFile
  BY <1>3 DEF StateFile
<1>5. SetControlLost(s, reason) = n4
  BY DEF SetControlLost, StateFile
<1>6. /\ n4.decision = "control-lost" /\ n4.status = "interrupt-pending"
      /\ n4.reasons = reason /\ n4.receipts = s.receipts /\ n4.audited = s.audited
      /\ n4.eligible = s.eligible
  BY DEF StateFile
<1> QED BY <1>4, <1>5, <1>6

\* The outcome of a decision that may have to be audited: if the new state owes
\* nothing but its decision, the audited one owes nothing.
LEMMA AuditedGood ==
  ASSUME NEW s \in StateFile, NEW n \in StateFile, NEW a, NEW o,
         o = AuditedOutcome(s, n), Good(s, a),
         n.receipts = s.receipts, n.audited = s.audited, n.eligible = s.eligible,
         n.decision = "complete" => log = "complete" /\ "violation" \notin facts,
         n.status # "completed",
         n.reasons = "budget" => "reserve" \in facts
  PROVE  /\ o.next \in StateFile /\ o.events \subseteq AuditEvent
         /\ Good(o.next, a \cup o.events)
         /\ "retry-authorized" \notin o.events /\ "worker-completed" \notin o.events
<1>1. CASE n.decision = s.audited
  <2>1. o.next = n /\ o.events = {}
    BY <1>1 DEF AuditedOutcome, Outcome
  <2>2. n.decision \in Decision
    BY DEF StateFile
  <2> QED BY <1>1, <2>1, <2>2 DEF Good, Decision, Stops
<1>2. CASE n.decision # s.audited
  <2>1. o.next = [n EXCEPT !.audited = n.decision] /\ o.events = {n.decision} \cap AuditEvent
    BY <1>2 DEF AuditedOutcome, Outcome
  <2>2. n.decision \in Decision
    BY DEF StateFile
  <2>3. n.decision # "continue" => n.decision \in AuditEvent
    BY <2>2 DEF Decision, AuditEvent, Stops
  <2>4. /\ o.next \in StateFile /\ o.next.audited = n.decision /\ o.next.decision = n.decision
        /\ o.next.receipts = n.receipts /\ o.next.eligible = n.eligible
        /\ o.next.status = n.status /\ o.next.reasons = n.reasons
    BY <2>1, <2>2 DEF StateFile
  <2>5. n.decision # "continue" => n.decision \in a \cup o.events
    BY <2>1, <2>3
  <2>6. Good(o.next, a \cup o.events)
    BY <2>2, <2>4, <2>5 DEF Good, Decision, Stops
  <2>7. n.decision \notin {"retry-authorized", "worker-completed"}
    BY <2>2 DEF Decision, Stops
  <2> QED BY <2>1, <2>4, <2>6, <2>7
<1> QED BY <1>1, <1>2

\* start writes a state that owes nothing.
LEMMA StartSound ==
  ASSUME NEW a, NEW c \in Controller, NEW s, NEW o \in Outcomes("start", s, c), s = NoFile
  PROVE  Sound("start", s, o, a)
<1>1. o.next = FreshState /\ o.events = {}
  BY DEF Outcomes, Outcome
<1>2. FreshState \in StateFile
  BY DEF FreshState, StateFile, FileStatus, Decision
<1>3. Good(FreshState, a)
  BY DEF Good, FreshState
<1> QED BY <1>1, <1>2, <1>3 DEF Sound, Keeps

\* arm binds the turn and owes nothing new.
LEMMA ArmSound ==
  ASSUME NEW a, NEW c \in Controller, NEW s \in StateFile, Good(s, a),
         NEW o \in Outcomes("arm", s, c), s.status = "created"
  PROVE  Sound("arm", s, o, a)
<1>1. o.next = [s EXCEPT !.turn = c, !.status = "armed"] /\ o.events = {}
  BY DEF Outcomes, Arm, Outcome
<1> DEFINE n1 == [s EXCEPT !.turn = c]
           n2 == [n1 EXCEPT !.status = "armed"]
<1>2. n1 \in StateFile
  BY DEF StateFile
<1>3. n2 \in StateFile
  BY <1>2 DEF StateFile, FileStatus
<1>4. o.next = n2
  BY <1>1 DEF StateFile
<1>5. /\ n2.status = "armed" /\ n2.decision = s.decision /\ n2.receipts = s.receipts
      /\ n2.audited = s.audited /\ n2.reasons = s.reasons /\ n2.eligible = s.eligible
  BY DEF StateFile
<1>6. Good(n2, a)
  BY <1>5 DEF Good
<1>7. Keeps(s, n2)
  BY DEF Keeps, FinalStates
<1> QED BY <1>1, <1>3, <1>4, <1>6, <1>7 DEF Sound

\* mark-dispatched starts the monitoring, or audits the loss of control.
LEMMA DispatchSound ==
  ASSUME NEW a, NEW c \in Controller, NEW s \in StateFile, Good(s, a),
         NEW o \in Outcomes("mark-dispatched", s, c), s.status = "armed"
  PROVE  Sound("mark-dispatched", s, o, a)
<1>1. PICK inTime \in BOOLEAN : o = MarkDispatched(s, c, inTime)
  BY DEF Outcomes
<1>2. Keeps(s, o.next)
  BY DEF Keeps, FinalStates
<1>3. CASE s.turn = c /\ inTime
  <2> DEFINE n1 == [s EXCEPT !.dispatch = "armed"]
             n2 == [n1 EXCEPT !.status = "running"]
  <2>1. n1 \in StateFile
    BY DEF StateFile
  <2>2. n2 \in StateFile
    BY <2>1 DEF StateFile, FileStatus, MonitoredStates
  <2>3. o.next = n2 /\ o.events = {}
    BY <1>1, <1>3 DEF MarkDispatched, Outcome, StateFile
  <2>4. /\ n2.status = "running" /\ n2.decision = s.decision /\ n2.receipts = s.receipts
        /\ n2.audited = s.audited /\ n2.reasons = s.reasons /\ n2.eligible = s.eligible
    BY DEF StateFile
  <2>5. Good(n2, a)
    BY <2>4 DEF Good
  <2> QED BY <1>2, <2>2, <2>3, <2>5 DEF Sound
<1>4. CASE ~(s.turn = c /\ inTime)
  <2> DEFINE n1 == [s EXCEPT !.dispatch = "unarmed"]
             n2 == SetControlLost(n1, "control")
             n3 == [n2 EXCEPT !.audited = "control-lost"]
  <2>1. n1 \in StateFile
    BY DEF StateFile
  <2>2. n1.receipts = s.receipts /\ n1.eligible = s.eligible
    BY DEF StateFile
  <2>3. /\ n2 \in StateFile
        /\ n2.decision = "control-lost" /\ n2.status = "interrupt-pending"
        /\ n2.reasons = "control" /\ n2.receipts = n1.receipts /\ n2.eligible = n1.eligible
    BY <2>1, LostShape
  <2> HIDE DEF n2
  <2>4. /\ n3 \in StateFile /\ n3.audited = "control-lost"
        /\ n3.decision = "control-lost" /\ n3.status = "interrupt-pending"
        /\ n3.reasons = "control" /\ n3.receipts = s.receipts /\ n3.eligible = s.eligible
    BY <2>2, <2>3 DEF StateFile, Decision, Stops
  <2>5. o.next = n3 /\ o.events = {"control-lost"}
    BY <1>1, <1>4 DEF MarkDispatched, Outcome, n2
  <2>6. Good(n3, a \cup {"control-lost"})
    BY <2>4 DEF Good
  <2>7. {"control-lost"} \subseteq AuditEvent
    BY DEF AuditEvent, Stops
  <2> QED BY <1>2, <2>4, <2>5, <2>6, <2>7 DEF Sound
<1> QED BY <1>3, <1>4

\* A judgement changes the decision, the status, the reasons and the session, and
\* what it decides is what the log shows.
LEMMA JudgedShape ==
  ASSUME NEW s \in StateFile, NEW n \in Judged(s), s.status # "completed"
  PROVE  /\ n \in StateFile
         /\ n.receipts = s.receipts /\ n.audited = s.audited /\ n.eligible = s.eligible
         /\ n.decision = "complete" => log = "complete" /\ "violation" \notin facts
         /\ n.status # "completed"
         /\ n.reasons = "budget" => "reserve" \in facts
<1>1. ASSUME NEW r \in {"protected", "budget"},
             n = [s EXCEPT !.decision = "interrupt", !.status = "interrupt-pending",
                           !.reasons = r, !.session = "quarantined"]
      PROVE  /\ n \in StateFile
             /\ n.receipts = s.receipts /\ n.audited = s.audited /\ n.eligible = s.eligible
             /\ n.decision = "interrupt" /\ n.status = "interrupt-pending" /\ n.reasons = r
  <2> DEFINE n1 == [s EXCEPT !.decision = "interrupt"]
             n2 == [n1 EXCEPT !.status = "interrupt-pending"]
             n3 == [n2 EXCEPT !.reasons = r]
             n4 == [n3 EXCEPT !.session = "quarantined"]
  <2>1. n1 \in StateFile
    BY DEF StateFile, Decision, Stops
  <2>2. n2 \in StateFile
    BY <2>1 DEF StateFile, FileStatus, MonitoredStates
  <2>3. n3 \in StateFile
    BY <2>2 DEF StateFile
  <2>4. n4 \in StateFile
    BY <2>3 DEF StateFile
  <2>5. n = n4
    BY <1>1 DEF StateFile
  <2>6. /\ n4.receipts = s.receipts /\ n4.audited = s.audited /\ n4.eligible = s.eligible
        /\ n4.decision = "interrupt" /\ n4.status = "interrupt-pending" /\ n4.reasons = r
    BY DEF StateFile
  <2> QED BY <2>4, <2>5, <2>6
<1>2. ASSUME NEW d \in {"complete", "continue"}, NEW v \in {"accepted", "quarantined"},
             n = [s EXCEPT !.decision = d, !.reasons = "none", !.session = v]
      PROVE  /\ n \in StateFile
             /\ n.receipts = s.receipts /\ n.audited = s.audited /\ n.eligible = s.eligible
             /\ n.decision = d /\ n.status = s.status /\ n.reasons = "none"
  <2> DEFINE n1 == [s EXCEPT !.decision = d]
             n2 == [n1 EXCEPT !.reasons = "none"]
             n3 == [n2 EXCEPT !.session = v]
  <2>1. n1 \in StateFile
    BY DEF StateFile, Decision
  <2>2. n2 \in StateFile
    BY <2>1 DEF StateFile
  <2>3. n3 \in StateFile
    BY <2>2 DEF StateFile
  <2>4. n = n3
    BY <1>2 DEF StateFile
  <2>5. /\ n3.receipts = s.receipts /\ n3.audited = s.audited /\ n3.eligible = s.eligible
        /\ n3.decision = d /\ n3.status = s.status /\ n3.reasons = "none"
    BY DEF StateFile
  <2> QED BY <2>3, <2>4, <2>5
<1>3. CASE HardReasons
  <2>1. n = [s EXCEPT !.decision = "interrupt", !.status = "interrupt-pending",
                      !.reasons = "protected", !.session = "quarantined"]
    BY <1>3 DEF Judged
  <2> QED BY <1>1, <2>1
<1>4. CASE ~HardReasons /\ log = "complete"
  <2>1. PICK v \in {"accepted", "quarantined"} :
          n = [s EXCEPT !.decision = "complete", !.reasons = "none", !.session = v]
    BY <1>4 DEF Judged
  <2>2. "violation" \notin facts
    BY <1>4 DEF HardReasons, Violations
  <2> QED BY <1>2, <1>4, <2>1, <2>2
<1>5. CASE ~HardReasons /\ log # "complete" /\ "reserve" \in facts
  <2>1. n = [s EXCEPT !.decision = "interrupt", !.status = "interrupt-pending",
                      !.reasons = "budget", !.session = "quarantined"]
    BY <1>5 DEF Judged
  <2> QED BY <1>1, <1>5, <2>1
<1>6. CASE ~HardReasons /\ log # "complete" /\ "reserve" \notin facts
  <2>1. PICK v \in {"accepted", "quarantined"} :
          n = [s EXCEPT !.decision = "continue", !.reasons = "none", !.session = v]
    BY <1>6 DEF Judged
  <2> QED BY <1>2, <2>1
<1> QED BY <1>3, <1>4, <1>5, <1>6

\* The outcome of a lost control that is audited.
LEMMA LostSound ==
  ASSUME NEW a, NEW s \in StateFile, Good(s, a), NEW o,
         o = AuditedOutcome(s, SetControlLost(s, "control"))
  PROVE  /\ o.next \in StateFile /\ o.events \subseteq AuditEvent
         /\ Good(o.next, a \cup o.events)
         /\ "retry-authorized" \notin o.events /\ "worker-completed" \notin o.events
<1> DEFINE n == SetControlLost(s, "control")
<1>1. /\ n \in StateFile /\ n.decision = "control-lost" /\ n.status = "interrupt-pending"
      /\ n.reasons = "control" /\ n.receipts = s.receipts /\ n.audited = s.audited
      /\ n.eligible = s.eligible
  BY LostShape
<1>2. o = AuditedOutcome(s, n)
  OBVIOUS
<1> HIDE DEF n
<1> QED BY <1>1, <1>2, AuditedGood

\* check, on a session in any state that is not final.
LEMMA CheckSound ==
  ASSUME NEW a, NEW c \in Controller, NEW s \in StateFile, Good(s, a),
         NEW o \in Outcomes("check", s, c), s.status \notin FinalStates
  PROVE  Sound("check", s, o, a)
<1>1. Keeps(s, o.next)
  BY DEF Keeps
<1>2. o \in Checked(s, c)
  BY DEF Outcomes
<1>3. s.status # "completed"
  BY DEF FinalStates
<1>4. SUFFICES /\ o.next \in StateFile /\ o.events \subseteq AuditEvent
               /\ Good(o.next, a \cup o.events)
               /\ "retry-authorized" \notin o.events /\ "worker-completed" \notin o.events
  BY <1>1 DEF Sound
<1>5. CASE o = Outcome(SetControlLost(s, "authority"), {})
  <2> DEFINE n == SetControlLost(s, "authority")
  <2>1. /\ n \in StateFile /\ n.decision = "control-lost" /\ n.status = "interrupt-pending"
        /\ n.reasons = "authority" /\ n.receipts = s.receipts /\ n.audited = s.audited
        /\ n.eligible = s.eligible
    BY LostShape
  <2>2. o.next = n /\ o.events = {}
    BY <1>5 DEF Outcome
  <2> HIDE DEF n
  <2>3. Good(n, a)
    BY <2>1 DEF Good
  <2> QED BY <2>1, <2>2, <2>3
<1>6. CASE o = AuditedOutcome(s, SetControlLost(s, "control"))
  BY <1>6, LostSound
<1>7. ASSUME NEW l \in BOOLEAN, o \in Polled([s EXCEPT !.late = l])
      PROVE  /\ o.next \in StateFile /\ o.events \subseteq AuditEvent
             /\ Good(o.next, a \cup o.events)
             /\ "retry-authorized" \notin o.events /\ "worker-completed" \notin o.events
  <2> DEFINE t == [s EXCEPT !.late = l]
  <2>1. /\ t \in StateFile /\ t.status = s.status /\ t.decision = s.decision
        /\ t.reasons = s.reasons /\ t.receipts = s.receipts /\ t.audited = s.audited
        /\ t.eligible = s.eligible
    BY DEF StateFile
  <2>2. o \in Polled(t)
    BY <1>7
  <2> HIDE DEF t
  <2>3. Good(t, a)
    BY <2>1 DEF Good
  <2>4. CASE o = TelemetryLost(t)
    BY <2>1, <2>3, <2>4, LostSound DEF TelemetryLost
  <2>5. ASSUME NEW n \in Judged(t), o = AuditedOutcome(t, n)
        PROVE  /\ o.next \in StateFile /\ o.events \subseteq AuditEvent
               /\ Good(o.next, a \cup o.events)
               /\ "retry-authorized" \notin o.events /\ "worker-completed" \notin o.events
    <3>1. /\ n \in StateFile
          /\ n.receipts = t.receipts /\ n.audited = t.audited /\ n.eligible = t.eligible
          /\ n.decision = "complete" => log = "complete" /\ "violation" \notin facts
          /\ n.status # "completed"
          /\ n.reasons = "budget" => "reserve" \in facts
      BY <1>3, <2>1, JudgedShape
    <3> QED BY <2>1, <2>3, <2>5, <3>1, AuditedGood
  <2>6. CASE o = AwaitingBoundary(t)
    <3> DEFINE n1 == [t EXCEPT !.decision = "continue"]
               n2 == [n1 EXCEPT !.status = "running"]
               n3 == [n2 EXCEPT !.reasons = "none"]
    <3>1. n1 \in StateFile
      BY <2>1 DEF StateFile, Decision
    <3>2. n2 \in StateFile
      BY <3>1 DEF StateFile, FileStatus, MonitoredStates
    <3>3. n3 \in StateFile
      BY <3>2 DEF StateFile
    <3>4. o.next = n3 /\ o.events = {}
      BY <2>1, <2>6 DEF AwaitingBoundary, Outcome, StateFile
    <3>5. /\ n3.decision = "continue" /\ n3.status = "running" /\ n3.reasons = "none"
          /\ n3.receipts = t.receipts /\ n3.audited = t.audited /\ n3.eligible = t.eligible
      BY <2>1 DEF StateFile
    <3>6. Good(n3, a)
      BY <2>3, <3>5 DEF Good
    <3> QED BY <3>3, <3>4, <3>6
  <2> QED BY <2>2, <2>4, <2>5, <2>6 DEF Polled
<1>8. \/ o = Outcome(SetControlLost(s, "authority"), {})
      \/ o = AuditedOutcome(s, SetControlLost(s, "control"))
      \/ \E l \in BOOLEAN : o \in Polled([s EXCEPT !.late = l])
  <2>1. s.late \in BOOLEAN
    BY DEF StateFile
  <2>2. (s.late \/ s.dispatch # "none") \in BOOLEAN
    OBVIOUS
  <2> QED BY <1>2, <2>1, <2>2 DEF Checked
<1> QED BY <1>5, <1>6, <1>7, <1>8

\* finalize adds its receipt to the state and to the audit log.
LEMMA FinalizeSound ==
  ASSUME NEW a, NEW c \in Controller, NEW op \in ControlAction, NEW s \in StateFile,
         Good(s, a), NEW o \in Outcomes(op, s, c), FinalizeAccepted(op, s, c)
  PROVE  Sound(op, s, o, a)
<1> DEFINE t == [s EXCEPT !.receipts = @ \cup {op}]
<1>1. /\ t \in StateFile /\ t.receipts = s.receipts \cup {op} /\ t.status = s.status
      /\ t.decision = s.decision /\ t.reasons = s.reasons /\ t.audited = s.audited
      /\ t.eligible = s.eligible
  BY DEF StateFile
<1>2. o = Finalized(s, op)
  BY DEF Outcomes, ControlAction
<1>3. Keeps(s, o.next)
  BY DEF Keeps, FinalizeAccepted
<1>4. op \in AuditEvent /\ op # "retry-authorized"
  BY DEF AuditEvent, ControlAction
<1>5. s.receipts \subseteq a /\ (s.audited # "continue" => s.audited \in a)
  BY DEF Good
<1>6. CASE op = "control-failed"
  <2> DEFINE n1 == [t EXCEPT !.status = "control-failed"]
             n2 == [n1 EXCEPT !.decision = "control-lost"]
             n3 == [n2 EXCEPT !.session = "quarantined"]
  <2>1. o.next = [t EXCEPT !.status = "control-failed", !.decision = "control-lost",
                           !.session = "quarantined"]
        /\ o.events = {op}
    BY <1>2, <1>6 DEF Finalized, Outcome
  <2> HIDE DEF t
  <2>2. n1 \in StateFile
    BY <1>1 DEF StateFile, FileStatus, FinalStates
  <2>3. n2 \in StateFile
    BY <2>2 DEF StateFile, Decision, Stops
  <2>4. n3 \in StateFile
    BY <2>3 DEF StateFile
  <2>5. o.next = n3
    BY <1>1, <2>1 DEF StateFile
  <2>6. /\ n3.status = "control-failed" /\ n3.decision = "control-lost"
        /\ n3.receipts = t.receipts /\ n3.reasons = t.reasons /\ n3.audited = t.audited
        /\ n3.eligible = t.eligible
    BY <1>1 DEF StateFile
  <2>7. Good(n3, a \cup {op})
    BY <1>1, <1>5, <2>6 DEF Good
  <2> QED BY <1>3, <1>4, <1>6, <2>1, <2>4, <2>5, <2>7 DEF Sound
<1>7. ASSUME NEW st \in {"interrupt-confirmed", "closed", "completed"},
             st = "completed" <=> op = "worker-completed",
             o.next = [t EXCEPT !.status = st], o.events = {op}
      PROVE  Sound(op, s, o, a)
  <2> HIDE DEF t
  <2>1. o.next \in StateFile
    BY <1>1, <1>7 DEF StateFile, FileStatus, MonitoredStates, FinalStates
  <2>2. /\ o.next.status = st /\ o.next.decision = t.decision /\ o.next.receipts = t.receipts
        /\ o.next.reasons = t.reasons /\ o.next.audited = t.audited
        /\ o.next.eligible = t.eligible
    BY <1>1, <1>7 DEF StateFile
  <2>3. st = "completed" => s.decision = "complete"
    BY <1>7 DEF FinalizeAccepted
  <2>4. s.decision = "control-lost" =>
          s.decision \in a \/ s.reasons = "authority" \/ s.status = "control-failed"
    BY DEF Good
  <2>5. s.status # "control-failed"
    BY DEF FinalizeAccepted, FinalStates
  <2>6. Good(o.next, a \cup {op})
    BY <1>1, <1>5, <2>2, <2>3, <2>4, <2>5 DEF Good
  <2> QED BY <1>3, <1>4, <1>7, <2>1, <2>2, <2>6 DEF Sound
<1>8. CASE op = "interrupt-confirmed"
  BY <1>2, <1>7, <1>8 DEF Finalized, Outcome
<1>9. CASE op = "close-confirmed"
  BY <1>2, <1>7, <1>9 DEF Finalized, Outcome
<1>10. CASE op = "worker-completed"
  BY <1>2, <1>7, <1>10 DEF Finalized, Outcome
<1> QED BY <1>6, <1>8, <1>9, <1>10 DEF ControlAction

\* assess-retry stores an eligibility that the reserve in the log backs.
LEMMA AssessSound ==
  ASSUME NEW a, NEW c \in Controller, NEW s \in StateFile, Good(s, a),
         NEW o \in Outcomes("assess-retry", s, c)
  PROVE  Sound("assess-retry", s, o, a)
<1>1. PICK fits \in BOOLEAN :
        o = Outcome([s EXCEPT !.eligible = Eligible(s, fits)], {})
  BY DEF Outcomes, ControlAction, Assessed
<1> DEFINE e == Eligible(s, fits)
<1>2. e \in {"no", "yes"} /\ (e = "yes" => s.reasons = "budget")
  BY DEF Eligible
<1>3. o.next = [s EXCEPT !.eligible = e] /\ o.events = {}
  BY <1>1 DEF Outcome
<1> HIDE DEF e
<1>4. /\ o.next \in StateFile /\ o.next.eligible = e /\ o.next.status = s.status
      /\ o.next.decision = s.decision /\ o.next.receipts = s.receipts
      /\ o.next.reasons = s.reasons /\ o.next.audited = s.audited
  BY <1>2, <1>3 DEF StateFile
<1>5. Good(o.next, a)
  BY <1>2, <1>4 DEF Good
<1>6. Keeps(s, o.next)
  BY <1>4 DEF Keeps
<1> QED BY <1>3, <1>4, <1>5, <1>6 DEF Sound

\* authorize-retry marks the state, and the state it accepts has the whole trail
\* of a budget interrupt behind it.
LEMMA AuthorizeSound ==
  ASSUME NEW a, NEW c \in Controller, NEW s \in StateFile, Good(s, a),
         NEW o \in Outcomes("authorize-retry", s, c),
         RetryConsidered(s, c), s.eligible = "yes"
  PROVE  /\ Sound("authorize-retry", s, o, a)
         /\ s.status = "closed" /\ "reserve" \in facts
         /\ {"interrupt", "interrupt-confirmed", "close-confirmed"} \subseteq a
<1>1. o = Outcome([s EXCEPT !.authorized = TRUE], {"retry-authorized"})
  BY DEF Outcomes, ControlAction, RetryAuthorized
<1>2. o.next = [s EXCEPT !.authorized = TRUE] /\ o.events = {"retry-authorized"}
  BY <1>1 DEF Outcome
<1>3. /\ o.next \in StateFile /\ o.next.eligible = s.eligible /\ o.next.status = s.status
      /\ o.next.decision = s.decision /\ o.next.receipts = s.receipts
      /\ o.next.reasons = s.reasons /\ o.next.audited = s.audited
  BY <1>2 DEF StateFile
<1>4. Good(o.next, a \cup {"retry-authorized"})
  BY <1>3 DEF Good
<1>5. Keeps(s, o.next)
  BY <1>3 DEF Keeps
<1>6. {"retry-authorized"} \subseteq AuditEvent
  BY DEF AuditEvent
<1>7. Sound("authorize-retry", s, o, a)
  BY <1>2, <1>3, <1>4, <1>5, <1>6 DEF Sound
<1>8. s.status = "closed" /\ "reserve" \in facts
  BY DEF RetryConsidered, Good
<1>9. {"interrupt", "interrupt-confirmed", "close-confirmed"} \subseteq a
  BY DEF RetryConsidered, Good
<1> QED BY <1>7, <1>8, <1>9

\* Every outcome of every command that was accepted on a good state is sound.
LEMMA OutcomeSound ==
  ASSUME NEW a, NEW c \in Controller, NEW op \in Operation, NEW s, Kept(s, a),
         NEW o \in Outcomes(op, s, c), Accepted(op, s, c)
  PROVE  /\ Sound(op, s, o, a)
         /\ op = "authorize-retry" =>
              /\ s.status = "closed" /\ "reserve" \in facts
              /\ {"interrupt", "interrupt-confirmed", "close-confirmed"} \subseteq a
<1>1. CASE op = "start"
  BY <1>1, StartSound DEF Accepted
<1>2. CASE op # "start"
  <2>1. s \in StateFile /\ Good(s, a)
    BY <1>2 DEF Accepted, Kept
  <2>2. CASE op = "arm"
    BY <1>2, <2>1, <2>2, ArmSound DEF Accepted
  <2>3. CASE op = "mark-dispatched"
    BY <1>2, <2>1, <2>3, DispatchSound DEF Accepted
  <2>4. CASE op = "check"
    BY <1>2, <2>1, <2>4, CheckSound DEF Accepted
  <2>5. CASE op \in ControlAction
    <3>1. FinalizeAccepted(op, s, c)
      BY <1>2, <2>5 DEF Accepted
    <3>2. op # "authorize-retry"
      BY <2>5 DEF ControlAction
    <3> QED BY <2>1, <2>5, <3>1, <3>2, FinalizeSound
  <2>6. CASE op = "assess-retry"
    BY <2>1, <2>6, AssessSound
  <2>7. CASE op = "authorize-retry"
    BY <1>2, <2>1, <2>7, AuthorizeSound DEF Accepted
  <2> QED BY <1>2, <2>2, <2>3, <2>4, <2>5, <2>6, <2>7 DEF Operation
<1> QED BY <1>1, <1>2

-----------------------------------------------------------------------------
\* What the worker and the workspace do leaves the commands and the file alone, and
\* what a log that is complete shows does not change any more.
LEMMA WorldPreserves ==
  ASSUME SupervisionInv,
         file' = file, audit' = audit, command' = command, mishaps' = mishaps,
         log' \in {"empty", "boundary", "attested", "complete"},
         facts' \subseteq {"reserve", "violation"}, drift' \in BOOLEAN, grace' \in BOOLEAN,
         facts \subseteq facts', log = "complete" => log' = "complete" /\ facts' = facts
  PROVE  SupervisionInv'
<1>1. SupervisionTypeOK'
  BY DEF SupervisionInv, SupervisionTypeOK
<1>2. ASSUME NEW s \in StateFile, NEW a, Good(s, a)
      PROVE  /\ s.receipts \subseteq a
             /\ s.audited # "continue" => s.audited \in a
             /\ s.decision \in {"complete", "interrupt"} => s.decision \in a
             /\ s.decision = "control-lost" =>
                  s.decision \in a \/ s.reasons = "authority" \/ s.status = "control-failed"
             /\ s.decision = "complete" => log' = "complete" /\ "violation" \notin facts'
             /\ s.status = "completed" => s.decision = "complete"
             /\ s.reasons = "budget" => "reserve" \in facts'
             /\ s.eligible = "yes" => "reserve" \in facts'
  BY <1>2 DEF Good
<1>3. Kept(file, audit)'
  BY <1>2 DEF SupervisionInv, Kept, Good
<1>4. ASSUME NEW c \in Controller PROVE CommandInv(c)'
  <2>1. CommandInv(c)
    BY DEF SupervisionInv
  <2>2. command'[c] = command[c]
    OBVIOUS
  <2>3. command[c].at = "read" => Kept(command[c].seen, audit)'
    BY <1>2, <2>1 DEF CommandInv, Kept, Good
  <2>4. command[c].at = "write" => Good(command[c].next, audit)'
    BY <1>2, <2>1 DEF CommandInv, Good
  <2> QED BY <2>1, <2>3, <2>4 DEF CommandInv
<1>5. RetryTrail'
  BY DEF SupervisionInv, RetryTrail
<1>6. mishaps' = 0 => Orderly'
  BY DEF SupervisionInv, Orderly
<1> QED BY <1>1, <1>3, <1>4, <1>5, <1>6 DEF SupervisionInv

\* Reading the file: the copy owes what the file owes, and a command that begins
\* beside another is a mishap.
LEMMA ReadPreserves ==
  ASSUME SupervisionInv, NEW c \in Controller, NEW op \in Operation, Read(c, op)
  PROVE  SupervisionInv'
<1> USE SupervisionAssumption
<1>1. /\ command[c] = Idle /\ Accepted(op, file, c)
      /\ command' = [command EXCEPT ![c] = [at |-> "read", op |-> op, seen |-> file]]
      /\ file' = file /\ audit' = audit /\ log' = log /\ facts' = facts
      /\ drift' = drift /\ grace' = grace
  BY DEF Read
<1>2. /\ SupervisionTypeOK /\ DOMAIN command = Controller /\ Kept(file, audit) /\ RetryTrail
      /\ \A d \in Controller : CommandInv(d)
      /\ mishaps = 0 => Orderly
  BY DEF SupervisionInv
<1>3. /\ command'[c] = [at |-> "read", op |-> op, seen |-> file]
      /\ \A d \in Controller \ {c} : command'[d] = command[d]
      /\ DOMAIN command' = Controller
  BY <1>1, <1>2
<1>4. /\ mishaps' \in 0..MaxMishaps
      /\ mishaps' = 0 => mishaps = 0 /\ \A d \in Controller : command[d] = Idle
  BY <1>2 DEF Read, SupervisionTypeOK
<1>5. command'[c] \in Command
  BY <1>2, <1>3 DEF Command, SupervisionTypeOK
<1>6. SupervisionTypeOK'
  BY <1>1, <1>2, <1>3, <1>4, <1>5 DEF SupervisionTypeOK
<1>7. Kept(file, audit)' /\ RetryTrail'
  BY <1>1, <1>2 DEF Kept, Good, RetryTrail
<1>8. ASSUME NEW d \in Controller PROVE CommandInv(d)'
  <2>1. CASE d = c
    BY <1>1, <1>3, <1>7, <2>1 DEF CommandInv
  <2>2. CASE d # c
    BY <1>1, <1>2, <1>3, <2>2 DEF CommandInv, Kept, Good
  <2> QED BY <2>1, <2>2
<1>9. ASSUME mishaps' = 0 PROVE Orderly'
  <2>1. \A d \in Controller : command'[d] # Idle => d = c
    BY <1>3, <1>4, <1>9
  <2>2. command'[c].seen = file'
    BY <1>1, <1>3
  <2>3. "retry-authorized" \in audit' => file'.status = "closed"
    BY <1>1, <1>2, <1>4, <1>9 DEF Orderly
  <2>4. "worker-completed" \in audit' => file'.status = "completed"
    BY <1>1, <1>2, <1>4, <1>9 DEF Orderly, Idle
  <2> QED BY <2>1, <2>2, <2>3, <2>4 DEF Orderly
<1> QED BY <1>3, <1>6, <1>7, <1>8, <1>9 DEF SupervisionInv

\* Performing a command: its events enter the audit log with the state that owes
\* them still to be written.
LEMMA PerformPreserves ==
  ASSUME SupervisionInv, NEW c \in Controller, Perform(c)
  PROVE  SupervisionInv'
<1> DEFINE op == command[c].op
           s == command[c].seen
<1>1. PICK o \in Outcomes(op, s, c) :
        /\ audit' = audit \cup o.events
        /\ command' = [command EXCEPT ![c] =
                         [at |-> "write", seen |-> s, next |-> o.next]]
  BY DEF Perform
<1>2. /\ command[c].at = "read" /\ file' = file /\ log' = log /\ facts' = facts
      /\ drift' = drift /\ grace' = grace /\ mishaps' = mishaps
  BY DEF Perform
<1>3. /\ SupervisionTypeOK /\ DOMAIN command = Controller /\ Kept(file, audit) /\ RetryTrail
      /\ \A d \in Controller : CommandInv(d)
      /\ mishaps = 0 => Orderly
  BY DEF SupervisionInv
<1>4. op \in Operation /\ Kept(s, audit) /\ Accepted(op, s, c)
  BY <1>2, <1>3 DEF CommandInv
<1>5. /\ command'[c] = [at |-> "write", seen |-> s, next |-> o.next]
      /\ \A d \in Controller \ {c} : command'[d] = command[d]
      /\ DOMAIN command' = Controller
  BY <1>1, <1>3
<1> HIDE DEF op, s
<1>6. /\ Sound(op, s, o, audit)
      /\ op = "authorize-retry" =>
           /\ s.status = "closed" /\ "reserve" \in facts
           /\ {"interrupt", "interrupt-confirmed", "close-confirmed"} \subseteq audit
  BY <1>4, OutcomeSound
<1>7. /\ o.next \in StateFile /\ o.events \subseteq AuditEvent
      /\ Good(o.next, audit') /\ Keeps(s, o.next)
      /\ "retry-authorized" \in o.events => op = "authorize-retry"
      /\ "worker-completed" \in o.events => o.next.status = "completed"
  BY <1>1, <1>6 DEF Sound
<1>8. command'[c] \in Command
  BY <1>4, <1>5, <1>7 DEF Command, Kept
<1>9. SupervisionTypeOK'
  BY <1>1, <1>2, <1>3, <1>5, <1>7, <1>8 DEF SupervisionTypeOK
<1>10. ASSUME NEW t, Kept(t, audit) PROVE t = NoFile \/ (t \in StateFile /\ Good(t, audit'))
  BY <1>1, <1>10, GoodGrows DEF Kept
<1>11. Kept(file, audit)'
  BY <1>2, <1>3, <1>10 DEF Kept, Good
<1>12. ASSUME NEW d \in Controller PROVE CommandInv(d)'
  <2>1. CASE d = c
    <3>1. Good(command'[c].next, audit') /\ command'[c].next = o.next
      BY <1>5, <1>7
    <3>2. Good(command[c].next, audit)'
      BY <1>2, <3>1 DEF Good
    <3> QED BY <1>5, <1>7, <2>1, <3>2 DEF CommandInv
  <2>2. CASE d # c
    <3>1. CommandInv(d) /\ command'[d] = command[d]
      BY <1>3, <1>5, <2>2
    <3>2. command[d].at = "read" => Kept(command[d].seen, audit')
      BY <1>10, <3>1 DEF CommandInv, Kept
    <3>3. command[d].at = "write" => Good(command[d].next, audit')
      BY <1>1, <3>1, GoodGrows DEF CommandInv
    <3>4. command[d].at = "read" => Kept(command[d].seen, audit)'
      BY <1>2, <3>1, <3>2 DEF Kept, Good
    <3>5. command[d].at = "write" => Good(command[d].next, audit)'
      BY <1>2, <3>1, <3>3 DEF Good
    <3> QED BY <3>1, <3>4, <3>5 DEF CommandInv
  <2> QED BY <2>1, <2>2
<1>13. RetryTrail'
  BY <1>1, <1>2, <1>3, <1>6, <1>7 DEF RetryTrail
<1>14. ASSUME mishaps' = 0 PROVE Orderly'
  <2>1. Orderly /\ command[c] # Idle
    BY <1>2, <1>3, <1>14 DEF Idle
  <2>2. s = file /\ \A d \in Controller : command[d] # Idle => d = c
    BY <2>1 DEF Orderly, s
  <2>3. \A d \in Controller : command'[d] # Idle => d = c
    BY <1>5, <2>2
  <2>4. command'[c].seen = file'
    BY <1>2, <1>5, <2>2
  <2>5. "retry-authorized" \in audit' => file'.status = "closed"
    BY <1>1, <1>2, <1>6, <1>7, <2>1, <2>2 DEF Orderly
  <2>6. "worker-completed" \in audit =>
          file.status = "completed"
    BY <1>2, <2>1, <2>2 DEF Orderly, Idle
  <2>7. "worker-completed" \in audit' =>
          \/ file'.status = "completed"
          \/ command'[c].at = "write" /\ command'[c].next.status = "completed"
    BY <1>1, <1>2, <1>5, <1>7, <2>6
  <2> QED BY <2>3, <2>4, <2>5, <2>7 DEF Orderly
<1> QED BY <1>5, <1>9, <1>11, <1>12, <1>13, <1>14 DEF SupervisionInv

\* Writing the file: it comes to owe what the written state owes, which is in the
\* audit log already.
LEMMA WritePreserves ==
  ASSUME SupervisionInv, NEW c \in Controller, Write(c)
  PROVE  SupervisionInv'
<1>1. /\ command[c].at = "write" /\ file' = command[c].next
      /\ command' = [command EXCEPT ![c] = Idle]
      /\ audit' = audit /\ log' = log /\ facts' = facts
      /\ drift' = drift /\ grace' = grace /\ mishaps' = mishaps
  BY DEF Write
<1>2. /\ SupervisionTypeOK /\ DOMAIN command = Controller /\ RetryTrail
      /\ \A d \in Controller : CommandInv(d)
      /\ mishaps = 0 => Orderly
  BY DEF SupervisionInv
<1>3. /\ command'[c] = Idle
      /\ \A d \in Controller \ {c} : command'[d] = command[d]
      /\ DOMAIN command' = Controller
  BY <1>1, <1>2
<1>4. file' \in StateFile /\ Good(file', audit) /\ Keeps(command[c].seen, file')
  BY <1>1, <1>2 DEF CommandInv
<1>5. SupervisionTypeOK'
  BY <1>1, <1>2, <1>3, <1>4 DEF SupervisionTypeOK, Command
<1>6. Kept(file, audit)' /\ RetryTrail'
  BY <1>1, <1>2, <1>4 DEF Kept, Good, RetryTrail
<1>7. ASSUME NEW d \in Controller PROVE CommandInv(d)'
  <2>1. CASE d = c
    BY <1>3, <2>1 DEF CommandInv, Idle
  <2>2. CASE d # c
    BY <1>1, <1>2, <1>3, <2>2 DEF CommandInv, Kept, Good
  <2> QED BY <2>1, <2>2
<1>8. ASSUME mishaps' = 0 PROVE Orderly'
  <2>1. Orderly /\ command[c] # Idle
    BY <1>1, <1>2, <1>8 DEF Idle
  <2>2. command[c].seen = file /\ \A d \in Controller : command[d] # Idle => d = c
    BY <2>1 DEF Orderly
  <2>3. \A d \in Controller : command'[d] = Idle
    BY <1>3, <2>2
  <2>4. file # NoFile /\ file.status \in FinalStates => file'.status = file.status
    BY <1>4, <2>2 DEF Keeps
  <2>5. "retry-authorized" \in audit' => file'.status = "closed"
    BY <1>1, <2>1, <2>4 DEF Orderly, FinalStates, NoFile
  <2>6. "worker-completed" \in audit' => file'.status = "completed"
    BY <1>1, <2>1, <2>2, <2>4 DEF Orderly, FinalStates, NoFile, Idle
  <2> QED BY <2>3, <2>5, <2>6 DEF Orderly
<1> QED BY <1>3, <1>5, <1>6, <1>7, <1>8 DEF SupervisionInv

\* A command that dies leaves its events behind and is a mishap.
LEMMA DiePreserves ==
  ASSUME SupervisionInv, NEW c \in Controller, Die(c)
  PROVE  SupervisionInv'
<1> USE SupervisionAssumption
<1>1. /\ file' = file /\ command' = [command EXCEPT ![c] = Idle]
      /\ audit' = audit /\ log' = log /\ facts' = facts
      /\ drift' = drift /\ grace' = grace
      /\ mishaps < MaxMishaps /\ mishaps' = mishaps + 1
  BY DEF Die
<1>2. /\ SupervisionTypeOK /\ DOMAIN command = Controller /\ Kept(file, audit) /\ RetryTrail
      /\ \A d \in Controller : CommandInv(d)
  BY DEF SupervisionInv
<1>3. /\ command'[c] = Idle
      /\ \A d \in Controller \ {c} : command'[d] = command[d]
      /\ DOMAIN command' = Controller
  BY <1>1, <1>2
<1>4. mishaps' \in 0..MaxMishaps /\ mishaps' # 0
  BY <1>1, <1>2 DEF SupervisionTypeOK
<1>5. SupervisionTypeOK'
  BY <1>1, <1>2, <1>3, <1>4 DEF SupervisionTypeOK, Command
<1>6. Kept(file, audit)' /\ RetryTrail'
  BY <1>1, <1>2 DEF Kept, Good, RetryTrail
<1>7. ASSUME NEW d \in Controller PROVE CommandInv(d)'
  <2>1. CASE d = c
    BY <1>3, <2>1 DEF CommandInv, Idle
  <2>2. CASE d # c
    BY <1>1, <1>2, <1>3, <2>2 DEF CommandInv, Kept, Good
  <2> QED BY <2>1, <2>2
<1> QED BY <1>3, <1>4, <1>5, <1>6, <1>7 DEF SupervisionInv

\* Before start there is nothing to owe.
LEMMA InitSupervision == Init => SupervisionInv
<1> SUFFICES ASSUME Init PROVE SupervisionInv
  OBVIOUS
<1> USE SupervisionAssumption
<1>1. \A c \in Controller : command[c] = Idle
  BY DEF Init
<1>2. SupervisionTypeOK
  <2>1. \A c \in Controller : command[c] \in Command
    BY <1>1 DEF Command
  <2>2. mishaps \in 0..MaxMishaps
    BY DEF Init
  <2>3. /\ file = NoFile /\ audit \subseteq AuditEvent /\ log = "empty"
        /\ facts \subseteq {"reserve", "violation"}
    BY DEF Init
  <2>4. drift \in BOOLEAN /\ grace \in BOOLEAN
    BY DEF Init
  <2> QED BY <2>1, <2>2, <2>3, <2>4 DEF SupervisionTypeOK
<1>3. \A c \in Controller : CommandInv(c)
  BY <1>1 DEF CommandInv, Idle
<1>4. Kept(file, audit) /\ RetryTrail /\ Orderly
  BY <1>1 DEF Init, Kept, RetryTrail, Orderly
<1> QED BY <1>2, <1>3, <1>4 DEF SupervisionInv, Init

\* Every step keeps the invariant.
LEMMA NextSupervision == SupervisionInv /\ [Next]_vars => SupervisionInv'
<1> SUFFICES ASSUME SupervisionInv, [Next]_vars PROVE SupervisionInv'
  OBVIOUS
<1>1. SupervisionTypeOK
  BY DEF SupervisionInv
<1>2. ASSUME NEW c \in Controller, NEW op \in Operation, Read(c, op) PROVE SupervisionInv'
  BY <1>2, ReadPreserves
<1>3. ASSUME NEW c \in Controller, Perform(c) PROVE SupervisionInv'
  BY <1>3, PerformPreserves
<1>4. ASSUME NEW c \in Controller, Write(c) PROVE SupervisionInv'
  BY <1>4, WritePreserves
<1>5. ASSUME NEW c \in Controller, Die(c) PROVE SupervisionInv'
  BY <1>5, DiePreserves
<1>6. CASE TaskBegins
  BY <1>1, <1>6, WorldPreserves DEF TaskBegins, SupervisionTypeOK
<1>7. CASE LogGrows
  BY <1>1, <1>7, WorldPreserves DEF LogGrows, SupervisionTypeOK
<1>8. ASSUME NEW fact \in {"reserve", "violation"}, WorkerActs(fact) PROVE SupervisionInv'
  BY <1>1, <1>8, WorldPreserves DEF WorkerActs, SupervisionTypeOK
<1>9. CASE WorkspaceChanges
  BY <1>1, <1>9, WorldPreserves DEF WorkspaceChanges, SupervisionTypeOK
<1>10. CASE GracePasses
  BY <1>1, <1>10, WorldPreserves DEF GracePasses, SupervisionTypeOK
<1>11. CASE UNCHANGED vars
  BY <1>1, <1>11, WorldPreserves DEF vars, SupervisionTypeOK
<1> QED
  BY <1>2, <1>3, <1>4, <1>5, <1>6, <1>7, <1>8, <1>9, <1>10, <1>11 DEF Next

-----------------------------------------------------------------------------
\* The invariant holds of every behaviour of the supervisor: every copy of the
\* state file, wherever it is, has its events in the audit log and its decision
\* in the worker's log.
THEOREM SupervisionInvariant == Spec => []SupervisionInv
BY InitSupervision, NextSupervision, PTL DEF Spec

\* The state file, the audit log and the commands have their types.
THEOREM SupervisionTypes == Spec => []SupervisionTypeOK
<1>1. SupervisionInv => SupervisionTypeOK
  BY DEF SupervisionInv
<1> QED BY <1>1, SupervisionInvariant, PTL

\* A stop, a completion or a receipt in the state file is in the audit log, save a
\* loss of authority, whatever commands overlap or die (check, finalize).
THEOREM TrailComesFirst == Spec => []TrailFirst
<1>1. SupervisionInv => TrailFirst
  BY DEF SupervisionInv, Kept, Good, TrailFirst, Stops
<1> QED BY <1>1, SupervisionInvariant, PTL

\* The file says completed only when the worker's log is complete and shows no
\* violation, for any overlapping of commands (check, finalize).
THEOREM CompletionIsEarned == Spec => []CompletionEarned
<1>1. SupervisionInv => CompletionEarned
  BY DEF SupervisionInv, Kept, Good, CompletionEarned, NoFile
<1> QED BY <1>1, SupervisionInvariant, PTL

\* A retry is authorized only behind a confirmed and closed budget interrupt, and
\* while commands follow one another never for a completed worker (authorize_retry).
THEOREM RetryIsEarned == Spec => []RetryEarned
<1>1. SupervisionInv => RetryEarned
  <2> SUFFICES ASSUME SupervisionInv, "retry-authorized" \in audit,
                      mishaps = 0, "worker-completed" \in audit
               PROVE  FALSE
    BY DEF SupervisionInv, RetryTrail, RetryEarned
  <2>1. Orderly /\ \A d \in Controller : CommandInv(d)
    BY DEF SupervisionInv
  <2>2. file.status = "closed"
    BY <2>1 DEF Orderly
  <2>3. PICK c \in Controller : command[c].at = "write" /\ command[c].next.status = "completed"
    BY <2>1, <2>2 DEF Orderly
  <2>4. command[c].seen = file
    BY <2>1, <2>3 DEF Orderly, Idle
  <2>5. command[c].next.status = file.status
    BY <2>1, <2>2, <2>3, <2>4 DEF CommandInv, Keeps, FinalStates, NoFile
  <2> QED BY <2>2, <2>3, <2>5
<1> QED BY <1>1, SupervisionInvariant, PTL

\* Only a command that read the file before it was final can reopen a final state
\* (finalize, check: "finalized supervision state cannot be reopened").
THEOREM FinalIsKept == Spec => FinalKept
<1> DEFINE Kept1 ==
      \A c \in Controller :
        command[c].at = "write" /\ command'[c] = Idle /\ file' # file
          /\ file.status \in FinalStates /\ command[c].seen = file =>
            file'.status = file.status /\ file'.decision = file.decision
<1>1. SupervisionInv /\ [Next]_vars => [Kept1]_vars
  <2> SUFFICES ASSUME SupervisionInv, Next, NEW c \in Controller,
                      command[c].at = "write", command'[c] = Idle, file' # file,
                      file.status \in FinalStates, command[c].seen = file
               PROVE  file'.status = file.status /\ file'.decision = file.decision
    BY DEF Kept1
  <2>1. PICK d \in Controller : Write(d)
    BY DEF Next, Read, Perform, Die, TaskBegins, LogGrows, WorkerActs, WorkspaceChanges,
           GracePasses
  <2>2. d = c
    BY <2>1 DEF Write, Idle, SupervisionInv
  <2>3. file' = command[c].next /\ Keeps(command[c].seen, command[c].next)
    BY <2>1, <2>2 DEF Write, SupervisionInv, CommandInv
  <2>4. file # NoFile
    BY DEF NoFile, FinalStates
  <2> QED BY <2>3, <2>4 DEF Keeps
<1> QED BY <1>1, SupervisionInvariant, PTL DEF Spec, FinalKept
=============================================================================
