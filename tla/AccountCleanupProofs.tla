------------------------ MODULE AccountCleanupProofs ------------------------
(* Safety of AccountCleanup for every set of accounts and every setting of    *)
(* the periods.                                                               *)
EXTENDS AccountCleanup, TLAPS

\* Self-disabling writes the row, and time does not go back: whoever has not
\* been written for long has not been disabled lately.
WrittenSince ==
    \A u \in Users :
        /\ users[u].disabled_at # Never => users[u].disabled_at <= users[u].updated_at
        /\ users[u].updated_at <= clock

\* A job that does not run has listed nothing.
OffEmpty == job.listed => job.phase \in Phases

IInv == TypeOK /\ WrittenSince /\ OffEmpty

-----------------------------------------------------------------------------
LEMMA InitInv == Init => IInv
<1> SUFFICES ASSUME Init PROVE IInv
  OBVIOUS
<1>1. NewRow \in UserRow /\ NewRow.disabled_at = Never /\ NewRow.updated_at = 0
  BY DEF NewRow, UserRow
<1>2. Off \in Job
  BY DEF Off, Job
<1>3. \A u \in Users : users[u] = NewRow
  BY DEF Init
<1> QED
  BY <1>1, <1>2, <1>3 DEF Init, IInv, TypeOK, WrittenSince, OffEmpty, Off

\* The rows do not matter to a step that changes the job, the pins or the clock.
LEMMA RowsKept ==
    ASSUME IInv, UNCHANGED users, job' \in Job, OffEmpty', pinned' \subseteq Users,
           clock' \in Nat, clock <= clock', crashes' \in Nat
    PROVE  IInv'
BY DEF IInv, TypeOK, UserRow, WrittenSince

\* One row is written, and is as the invariant wants it.
LEMMA RowWritten ==
    ASSUME IInv, NEW u \in Users, NEW row \in UserRow,
           users' = [users EXCEPT ![u] = row],
           row.disabled_at # Never => row.disabled_at <= row.updated_at,
           row.updated_at <= clock,
           job' \in Job, OffEmpty', UNCHANGED <<pinned, clock, crashes>>
    PROVE  IInv'
<1>1. \A v \in Users : users'[v] = IF v = u THEN row ELSE users[v]
  BY DEF IInv, TypeOK
<1>2. TypeOK'
  BY DEF IInv, TypeOK
<1> QED
  BY <1>1, <1>2 DEF IInv, WrittenSince

\* A row is deleted.
LEMMA RowDeleted ==
    ASSUME IInv, NEW u \in Users, users' = [users EXCEPT ![u] = Gone],
           job' \in Job, OffEmpty', UNCHANGED <<pinned, clock, crashes>>
    PROVE  IInv'
<1>1. Gone \in UserRow /\ Gone.disabled_at = Never /\ Gone.updated_at = 0
  BY DEF Gone, NewRow, UserRow
<1>2. 0 <= clock
  BY DEF IInv, TypeOK
<1> QED
  BY <1>1, <1>2, RowWritten

-----------------------------------------------------------------------------
\* The job's own steps, deletions apart, read the rows only.
LEMMA JobInv ==
    ASSUME IInv, Start \/ List \/ Advance \/ Kill PROVE IInv'
<1>1. \A p \in Phases \cup {"off"} :
         [Off EXCEPT !.phase = p] \in Job /\ ~[Off EXCEPT !.phase = p].listed
  BY DEF Off, Job
<1>2. Off \in Job /\ ~Off.listed
  BY DEF Off, Job, Phases
<1>3. CASE Start
  BY <1>1, <1>3, RowsKept DEF Start, IInv, TypeOK, OffEmpty, Phases
<1>4. CASE List
  <2>1. job' \in Job /\ job'.phase = job.phase
    BY <1>4 DEF List, IInv, TypeOK, Job, Here
  <2> QED
    BY <1>4, <2>1, RowsKept DEF List, IInv, TypeOK, OffEmpty
<1>5. CASE Advance
  <2>1. NextPhase(job.phase) \in Phases \cup {"off"}
    BY <1>5 DEF Advance, IInv, OffEmpty, NextPhase, Phases
  <2> QED
    BY <1>1, <1>5, <2>1, RowsKept DEF Advance, IInv, TypeOK, OffEmpty
<1>6. CASE Kill
  BY <1>2, <1>6, RowsKept DEF Kill, IInv, TypeOK, OffEmpty
<1> QED
  BY <1>3, <1>4, <1>5, <1>6

LEMMA DeleteListedInv ==
    ASSUME IInv, NEW u \in Users, DeleteListed(u) PROVE IInv'
<1>1. CASE job' = Off /\ UNCHANGED users
  <2>1. Off \in Job /\ ~Off.listed
    BY DEF Off, Job, Phases
  <2> QED
    BY <1>1, <2>1, RowsKept DEF DeleteListed, IInv, TypeOK, OffEmpty
<1>2. CASE job' = [job EXCEPT !.batch = @ \ {u}] /\ users' = [users EXCEPT ![u] = Gone]
  <2>1. job' \in Job /\ job'.phase = job.phase /\ job'.listed = job.listed
    BY <1>2 DEF IInv, TypeOK, Job
  <2>2. OffEmpty'
    BY <2>1 DEF IInv, OffEmpty
  <2>3. UNCHANGED <<pinned, clock, crashes>>
    BY DEF DeleteListed
  <2> QED
    BY <1>2, <2>1, <2>2, <2>3, RowDeleted
<1> QED
  BY <1>1, <1>2 DEF DeleteListed

\* A statement that updates a row.
LEMMA TouchInv ==
    ASSUME IInv, NEW u \in Users, NEW row \in UserRow, Touch(u, row),
           row.disabled_at # Never => row.disabled_at <= clock
    PROVE  IInv'
<1> DEFINE new == [row EXCEPT !.updated_at = clock]
<1>1. new \in UserRow /\ new.disabled_at = row.disabled_at /\ new.updated_at = clock
  BY DEF UserRow, IInv, TypeOK
<1>2. users' = [users EXCEPT ![u] = new] /\ UNCHANGED <<pinned, clock, job, crashes>>
  BY DEF Touch
<1>3. job' \in Job /\ OffEmpty'
  BY <1>2 DEF IInv, TypeOK, OffEmpty
<1>4. clock <= clock
  BY DEF IInv, TypeOK
<1> HIDE DEF new
<1> QED
  BY <1>1, <1>2, <1>3, <1>4, RowWritten
LEMMA ServerInv ==
    ASSUME IInv, NEW u \in Users, Use(u) \/ Disable(u) \/ Enable(u) \/ SetActive(u)
    PROVE  IInv'
<1>1. /\ users[u] \in UserRow /\ clock \in Nat /\ Never \notin Nat
      /\ users[u].disabled_at # Never => users[u].disabled_at <= clock
  <2>1. users[u] \in UserRow /\ clock \in Nat
    BY DEF IInv, TypeOK
  <2> QED
    BY <2>1, ConstantsAssumption DEF IInv, WrittenSince, UserRow
<1>2. CASE Use(u)
  BY <1>1, <1>2, TouchInv DEF Use
<1>3. CASE Disable(u)
  <2> DEFINE row == [users[u] EXCEPT !.disabled_at = clock]
  <2>1. row \in UserRow /\ row.disabled_at = clock /\ clock <= clock
    BY <1>1 DEF UserRow
  <2>2. Touch(u, row)
    BY <1>3 DEF Disable
  <2> HIDE DEF row
  <2> QED
    BY <2>1, <2>2, TouchInv
<1>4. CASE Enable(u)
  <2>1. [users[u] EXCEPT !.disabled_at = Never] \in UserRow
    BY <1>1 DEF UserRow
  <2>2. [users[u] EXCEPT !.disabled_at = Never].disabled_at = Never
    BY <1>1 DEF UserRow
  <2> QED
    BY <1>4, <2>1, <2>2, TouchInv DEF Enable
<1>5. CASE SetActive(u)
  <2> DEFINE row == [users[u] EXCEPT !.is_active = ~@]
  <2>1. row \in UserRow /\ row.disabled_at = users[u].disabled_at
    BY <1>1 DEF UserRow
  <2>2. Touch(u, row)
    BY <1>5 DEF SetActive
  <2> HIDE DEF row
  <2> QED
    BY <1>1, <2>1, <2>2, TouchInv
<1> QED
  BY <1>2, <1>3, <1>4, <1>5
\* Time passes: what was written before now was written before then.
LEMMA TickInv ==
    ASSUME IInv, Tick PROVE IInv'
BY RowsKept DEF Tick, IInv, TypeOK, OffEmpty

LEMMA RestInv ==
    ASSUME IInv, NEW u \in Users, DeleteByRequest(u) \/ ChangePins(u)
    PROVE  IInv'
<1>1. CASE DeleteByRequest(u)
  BY <1>1, RowDeleted DEF DeleteByRequest, IInv, TypeOK, OffEmpty
<1>2. CASE ChangePins(u)
  BY <1>2, RowsKept DEF ChangePins, IInv, TypeOK, OffEmpty
<1> QED
  BY <1>1, <1>2

LEMMA NextInv == IInv /\ [Next]_vars => IInv'
<1> SUFFICES ASSUME IInv, [Next]_vars PROVE IInv'
  OBVIOUS
<1>1. CASE UNCHANGED vars
  BY <1>1 DEF vars, IInv, TypeOK, WrittenSince, OffEmpty
<1> QED
  BY <1>1, JobInv, DeleteListedInv, ServerInv, RestInv, TickInv DEF Next

LEMMA Invariance == Spec => []IInv
BY InitInv, NextInv, PTL DEF Spec

\* Every variable has its type.
THEOREM TypeCorrect == Spec => []TypeOK
<1>1. IInv => TypeOK
  BY DEF IInv
<1> QED
  BY <1>1, Invariance, PTL

\* Whatever the periods, a self-disabled account is listed only after the days of
\* the query that lists it: the disabled ones are filtered by the date, and the
\* others cannot have been disabled lately, because disabling wrote their row.
THEOREM NoticeIsRespected == Spec => NoticeRespected
<1> DEFINE A == \A u \in job'.batch \ job.batch :
                  users[u].disabled_at # Never => DisabledFor(u, Days(job.phase))
<1>1. ASSUME IInv, Next PROVE A
  <2> SUFFICES ASSUME NEW u \in job'.batch \ job.batch, users[u].disabled_at # Never
               PROVE  DisabledFor(u, Days(job.phase))
    OBVIOUS
  <2>1. List
    <3>1. Off.batch = {} /\ \A p : [Off EXCEPT !.phase = p].batch = {}
      BY DEF Off
    <3>2. ASSUME NEW v \in Users, DeleteListed(v) PROVE job'.batch \subseteq job.batch
      BY <1>1, <3>1, <3>2 DEF DeleteListed, IInv, TypeOK, Job
    <3>3. ~(Start \/ Advance \/ Kill)
      BY <3>1 DEF Start, Advance, Kill
    <3>4. ~ UNCHANGED job
      OBVIOUS
    <3> QED
      BY <1>1, <3>2, <3>3, <3>4
      DEF Next, Use, Disable, Enable, SetActive, Touch, DeleteByRequest, ChangePins, Tick
  <2>2. u \in Users /\ Selects(job.phase, u) /\ job.phase \in Phases
    BY <1>1, <2>1 DEF List, IInv, TypeOK, Job, Here
  <2>3. /\ users[u].disabled_at \in Nat /\ users[u].updated_at \in Nat /\ clock \in Nat
        /\ users[u].disabled_at <= users[u].updated_at
    BY <1>1, <2>2 DEF IInv, TypeOK, UserRow, WrittenSince
  <2>4. Days(job.phase) \in Nat
    BY <2>2, ConstantsAssumption DEF Days, Phases
  <2>5. DisabledFor(u, Days(job.phase)) \/ UntouchedFor(u, Days(job.phase))
    BY <2>2 DEF Selects, Days, Phases
  <2> QED
    BY <2>3, <2>4, <2>5 DEF DisabledFor, UntouchedFor
<1>2. IInv /\ [Next]_vars => [A]_vars
  BY <1>1
<1> QED
  BY <1>2, Invariance, PTL DEF Spec, NoticeRespected
=============================================================================
