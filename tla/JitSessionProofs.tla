-------------------------- MODULE JitSessionProofs --------------------------
(***************************************************************************)
(* Proofs about JitSession: its types, OperationsCarried, SupplyAsked,     *)
(* ReleasedIsGivenBack, TicketLeadsToNext, and that it implements          *)
(* SessionContract, for any windows, occurrences, source, bounds and acts  *)
(* of the user.                                                            *)
(*                                                                         *)
(* Records come first: what each method of a session or of an account      *)
(* makes of the record, field by field, so that no later proof opens a     *)
(* record again.  Then the places of a sequence, which are where RowOf,    *)
(* the ticket and Selected look.  Then the inductive invariant IInv, what  *)
(* each group of parts of it needs of a step, and a lemma per action that  *)
(* says that the action keeps IInv and the contract.  Ticketed and         *)
(* CurrentFirst, which say where the ticket leads, come after it and need  *)
(* it.  The theorems are at the end.                                       *)
(***************************************************************************)
EXTENDS JitSession, JitShadowRowsProofs

-----------------------------------------------------------------------------
(* The session record while a method changes it: how many attempts are     *)
(* open is counted, and is 0 or 1 only in a record that is Sound: the      *)
(* entries are in order, an attempt is open exactly when its current entry *)
(* has not ended, and only what still lacks an outcome is pending.         *)
Record ==
  [phase : Phase, owner : [window : Window \cup {"none"}, load : 0..MaxReload],
   current : SessionEntry, next : SessionEntry, ready : BOOLEAN, eoq : BOOLEAN,
   started : BOOLEAN, needed : BOOLEAN, asked : BOOLEAN, open : Int, pending : SUBSET Operation]

(* The fields that two records share.                                      *)
SameFlags(u, t) ==
  /\ u \in Record
  /\ u.phase = t.phase /\ u.owner = t.owner /\ u.eoq = t.eoq /\ u.started = t.started
SameEntries(u, t) == u.current = t.current /\ u.next = t.next /\ u.open = t.open /\ u.ready = t.ready
SameRequest(u, t) == u.needed = t.needed /\ u.asked = t.asked

Sound(t, l) ==
  /\ t \in Record
  /\ t.open = IF t.current.status = "ended" THEN 0 ELSE 1
  /\ HasCurrent(t) \/ t.current = Nobody
  /\ HasNext(t) \/ t.next = Nobody
  /\ HasCurrent(t) => t.started /\ t.phase # "none"
  /\ HasNext(t) => /\ HasCurrent(t) /\ t.current.serial < t.next.serial
                   /\ t.next.op = "add" /\ t.next.status = "preparing"
  /\ t.next.serial <= l /\ t.current.serial <= l
  /\ t.ready => HasNext(t)
  /\ t.phase # "active" => t.current.status = "ended" /\ t.pending = {}
  /\ \A o \in t.pending : o \in {OpOf(t.current), OpOf(t.next)}
  /\ t.current.status # "preparing" => OpOf(t.current) \notin t.pending
  /\ t.ready => OpOf(t.next) \notin t.pending

LEMMA NobodyType == Nobody \in SessionEntry /\ Nobody.serial = NoSerial /\ Nobody.status = "ended" /\ Nobody.op = "none"
BY SessionAssumption DEF Nobody, Entry, SessionEntry, NoSerial, Ref

LEMMA SoundType ==
  ASSUME NEW t, NEW l, Sound(t, l)
  PROVE  t \in SessionRecord
<1>1. t \in Record /\ t.open \in {0, 1}
  BY DEF Sound
<1> QED BY <1>1 DEF Record, SessionRecord

LEMMA PendingFields ==
  ASSUME NEW t \in Record, NEW P \in SUBSET Operation
  PROVE  LET u == [t EXCEPT !.pending = P] IN
         SameFlags(u, t) /\ SameEntries(u, t) /\ SameRequest(u, t) /\ u.pending = P
BY DEF Record, SameFlags, SameEntries, SameRequest

LEMMA NoNextFields ==
  ASSUME NEW t \in Record
  PROVE  LET u == NoNext(t) IN
         /\ SameFlags(u, t) /\ SameRequest(u, t) /\ u.pending = t.pending
         /\ u.current = t.current /\ u.open = t.open /\ u.next = Nobody /\ u.ready = FALSE
BY NobodyType DEF NoNext, Record, SameFlags, SameRequest

LEMMA ClearRequestFields ==
  ASSUME NEW t \in Record
  PROVE  LET u == ClearRequest(t) IN
         /\ SameFlags(u, t) /\ SameEntries(u, t) /\ u.pending = t.pending
         /\ u.needed = FALSE /\ u.asked = FALSE
BY DEF ClearRequest, Record, SameFlags, SameEntries

LEMMA EndCurrentFields ==
  ASSUME NEW t \in Record
  PROVE  LET u == EndCurrent(t) IN
         /\ SameFlags(u, t) /\ SameRequest(u, t) /\ u.pending = t.pending
         /\ u.next = t.next /\ u.ready = t.ready
         /\ u.current.serial = t.current.serial /\ u.current.op = t.current.op
         /\ u.current.ref = t.current.ref /\ u.current.submitted = t.current.submitted
         /\ HasCurrent(t) /\ t.current.status # "ended"
              => u.current.status = "ended" /\ u.open = t.open - 1
         /\ ~(HasCurrent(t) /\ t.current.status # "ended") => u = t
<1> DEFINE ended == [t.current EXCEPT !.status = "ended"]
<1>1. CASE HasCurrent(t) /\ t.current.status # "ended"
  <2>1. ended \in SessionEntry /\ ended.status = "ended" /\ ended.serial = t.current.serial
        /\ ended.op = t.current.op /\ ended.ref = t.current.ref
        /\ ended.submitted = t.current.submitted
    BY DEF Record, SessionEntry
  <2>2. t.open - 1 \in Int
    BY DEF Record
  <2>3. ASSUME NEW c \in SessionEntry, NEW n \in Int
        PROVE  LET u == [t EXCEPT !.current = c, !.open = n] IN
               /\ SameFlags(u, t) /\ SameRequest(u, t) /\ u.pending = t.pending
               /\ u.next = t.next /\ u.ready = t.ready /\ u.current = c /\ u.open = n
    BY DEF Record, SameFlags, SameRequest
  <2>4. EndCurrent(t) = [t EXCEPT !.current = ended, !.open = t.open - 1]
    BY <1>1 DEF EndCurrent, Record
  <2> DEFINE m == t.open - 1
           u == [t EXCEPT !.current = ended, !.open = m]
  <2>5. u = EndCurrent(t) /\ m \in Int
    BY <2>2, <2>4
  <2> HIDE DEF ended, m
  <2>6. /\ SameFlags(u, t) /\ SameRequest(u, t) /\ u.pending = t.pending
        /\ u.next = t.next /\ u.ready = t.ready /\ u.current = ended /\ u.open = m
    BY <2>1, <2>3, <2>5
  <2> HIDE DEF u
  <2> QED BY <1>1, <2>1, <2>5, <2>6 DEF m
<1>2. CASE ~(HasCurrent(t) /\ t.current.status # "ended")
  BY <1>2 DEF EndCurrent, SameFlags, SameRequest
<1> QED BY <1>1, <1>2

LEMMA AttemptFields ==
  ASSUME NEW t \in Record, NEW e \in SessionEntry
  PROVE  LET u == Attempt(t, e) IN
         /\ SameFlags(u, t) /\ SameRequest(u, t) /\ u.pending = t.pending
         /\ u.next = t.next /\ u.ready = t.ready /\ u.current = e /\ u.open = t.open + 1
<1>1. t.open + 1 \in Int
  BY DEF Record
<1>2. ASSUME NEW n \in Int
      PROVE  LET u == [t EXCEPT !.current = e, !.open = n] IN
             /\ SameFlags(u, t) /\ SameRequest(u, t) /\ u.pending = t.pending
             /\ u.next = t.next /\ u.ready = t.ready /\ u.current = e /\ u.open = n
  BY DEF Record, SameFlags, SameRequest
<1>3. Attempt(t, e) = [t EXCEPT !.current = e, !.open = t.open + 1]
  BY DEF Attempt
<1> QED BY <1>1, <1>2, <1>3

LEMMA RequestNextFields ==
  ASSUME NEW t \in Record, NEW heard \in BOOLEAN
  PROVE  LET u == RequestNext(t, heard) IN
         /\ SameFlags(u, t) /\ SameEntries(u, t) /\ u.pending = t.pending
         /\ ~(t.phase # "active" \/ ~HasCurrent(t) \/ HasNext(t) \/ t.eoq \/ t.needed)
              => u.needed = TRUE /\ u.asked = heard
         /\ (t.phase # "active" \/ ~HasCurrent(t) \/ HasNext(t) \/ t.eoq \/ t.needed) => u = t
BY DEF RequestNext, Record, SameFlags, SameEntries

LEMMA SubmittedFields ==
  ASSUME NEW t \in Record, NEW e
  PROVE  LET u == Submitted(t, e) IN
         /\ SameFlags(u, t) /\ SameRequest(u, t) /\ u.pending = t.pending
         /\ u.next = t.next /\ u.ready = t.ready /\ u.open = t.open
         /\ u.current.serial = t.current.serial /\ u.current.op = t.current.op
         /\ u.current.ref = t.current.ref /\ u.current.status = t.current.status
         /\ t.phase = "active" /\ t.current.serial = e => u.current.submitted = TRUE
         /\ ~(t.phase = "active" /\ t.current.serial = e) => u = t
<1> DEFINE c == [t.current EXCEPT !.submitted = TRUE]
<1>1. CASE t.phase = "active" /\ t.current.serial = e
  <2>1. c \in SessionEntry /\ c.submitted = TRUE /\ c.serial = t.current.serial
        /\ c.op = t.current.op /\ c.ref = t.current.ref /\ c.status = t.current.status
    BY DEF Record, SessionEntry
  <2>2. ASSUME NEW d \in SessionEntry
        PROVE  LET u == [t EXCEPT !.current = d] IN
               /\ SameFlags(u, t) /\ SameRequest(u, t) /\ u.pending = t.pending
               /\ u.next = t.next /\ u.ready = t.ready /\ u.current = d /\ u.open = t.open
    BY DEF Record, SameFlags, SameRequest
  <2>3. Submitted(t, e) = [t EXCEPT !.current = c]
    BY <1>1 DEF Submitted
  <2> HIDE DEF c
  <2> QED BY <1>1, <2>1, <2>2, <2>3
<1>2. CASE ~(t.phase = "active" /\ t.current.serial = e)
  <2>1. t.current.submitted \in BOOLEAN
    BY DEF Record, SessionEntry
  <2> QED BY <1>2, <2>1 DEF Submitted, SameFlags, SameRequest
<1> QED BY <1>1, <1>2

LEMMA EndCurrentSound ==
  ASSUME NEW t, NEW l, Sound(t, l), OpOf(t.current) \notin t.pending
  PROVE  LET u == EndCurrent(t) IN Sound(u, l) /\ u.current.status = "ended" /\ u.open = 0
<1>1. t \in Record /\ (t.current.status = "ended" \/ HasCurrent(t))
  BY NobodyType DEF Sound, HasCurrent
<1> DEFINE u == EndCurrent(t)
<1>2. /\ SameFlags(u, t) /\ SameRequest(u, t) /\ u.pending = t.pending
      /\ u.next = t.next /\ u.ready = t.ready
      /\ u.current.serial = t.current.serial /\ u.current.op = t.current.op
      /\ HasCurrent(t) /\ t.current.status # "ended"
           => u.current.status = "ended" /\ u.open = t.open - 1
      /\ ~(HasCurrent(t) /\ t.current.status # "ended") => u = t
  BY EndCurrentFields DEF Sound
<1> HIDE DEF u
<1>3. u.current.status = "ended" /\ u.open = 0
  BY <1>1, <1>2 DEF Sound
<1>4. HasCurrent(u) \/ u.current = Nobody
  BY <1>2, NobodyType DEF Sound, HasCurrent
<1>5. Sound(u, l)
  BY <1>2, <1>3, <1>4 DEF Sound, SameFlags, HasCurrent, HasNext, OpOf
<1> QED BY <1>3, <1>5 DEF u

LEMMA PendingSound ==
  ASSUME NEW t, NEW l, Sound(t, l), NEW P, P \subseteq t.pending
  PROVE  Sound([t EXCEPT !.pending = P], l)
<1>1. t \in Record /\ P \in SUBSET Operation
  BY DEF Sound, Record
<1> DEFINE u == [t EXCEPT !.pending = P]
<1>2. SameFlags(u, t) /\ SameEntries(u, t) /\ SameRequest(u, t) /\ u.pending = P
  BY <1>1, PendingFields
<1> HIDE DEF u
<1>3. Sound(u, l)
  BY <1>2 DEF Sound, SameFlags, SameEntries, HasCurrent, HasNext
<1> QED BY <1>3 DEF u

LEMMA NoNextSound ==
  ASSUME NEW t, NEW l, Sound(t, l), l \in Nat, \A o \in t.pending : o = OpOf(t.current)
  PROVE  Sound(NoNext(t), l)
<1> DEFINE u == NoNext(t)
<1>1. /\ SameFlags(u, t) /\ SameRequest(u, t) /\ u.pending = t.pending
      /\ u.current = t.current /\ u.open = t.open /\ u.next = Nobody /\ u.ready = FALSE
  BY NoNextFields DEF Sound
<1> HIDE DEF u
<1>2. Sound(u, l)
  BY <1>1, NobodyType DEF Sound, SameFlags, HasCurrent, HasNext, NoSerial
<1> QED BY <1>2 DEF u

LEMMA ClearRequestSound ==
  ASSUME NEW t, NEW l, Sound(t, l)
  PROVE  Sound(ClearRequest(t), l)
<1> DEFINE u == ClearRequest(t)
<1>1. SameFlags(u, t) /\ SameEntries(u, t) /\ u.pending = t.pending
  BY ClearRequestFields DEF Sound
<1> HIDE DEF u
<1>2. Sound(u, l)
  BY <1>1 DEF Sound, SameFlags, SameEntries, HasCurrent, HasNext
<1> QED BY <1>2 DEF u

LEMMA RequestNextSound ==
  ASSUME NEW t, NEW l, Sound(t, l), NEW heard \in BOOLEAN
  PROVE  Sound(RequestNext(t, heard), l)
<1> DEFINE u == RequestNext(t, heard)
<1>1. SameFlags(u, t) /\ SameEntries(u, t) /\ u.pending = t.pending
  BY RequestNextFields DEF Sound
<1> HIDE DEF u
<1>2. Sound(u, l)
  BY <1>1 DEF Sound, SameFlags, SameEntries, HasCurrent, HasNext
<1> QED BY <1>2 DEF u

LEMMA SubmittedSound ==
  ASSUME NEW t, NEW l, Sound(t, l), NEW e \in Nat
  PROVE  Sound(Submitted(t, e), l)
<1> DEFINE u == Submitted(t, e)
<1>1. /\ SameFlags(u, t) /\ SameRequest(u, t) /\ u.pending = t.pending
      /\ u.next = t.next /\ u.ready = t.ready /\ u.open = t.open
      /\ u.current.serial = t.current.serial /\ u.current.op = t.current.op
      /\ u.current.status = t.current.status
  BY SubmittedFields DEF Sound
<1>2. ~HasCurrent(t) => u = t
  BY NobodyType DEF Submitted, HasCurrent, Sound, NoSerial
<1> HIDE DEF u
<1>3. Sound(u, l)
  BY <1>1, <1>2 DEF Sound, SameFlags, HasCurrent, HasNext, OpOf
<1> QED BY <1>3 DEF u

(* A record whose attempt is over and that waits for nothing.              *)
Over(u, t) ==
  /\ SameFlags(u, t) /\ u.next = Nobody /\ u.ready = FALSE /\ u.pending = {}
  /\ u.needed = FALSE /\ u.asked = FALSE /\ u.open = 0
  /\ u.current.status = "ended" /\ u.current.serial = t.current.serial

LEMMA LeaveOver ==
  ASSUME NEW t, NEW l \in Nat, Sound(t, l)
  PROVE  /\ Sound(Leave(t), l) /\ Over(Leave(t), t)
         /\ LET u == ClearRequest(NoNext(EndCurrent(SupersedePending(t)))) IN Sound(u, l) /\ Over(u, t)
         /\ LET u == Leave(SupersedePending(t)) IN Sound(u, l) /\ Over(u, t)
         /\ LET u == EndCurrent(ClearRequest(SupersedePending(t))) IN
            /\ Sound(u, l) /\ SameFlags(u, t) /\ u.pending = {} /\ u.current.status = "ended"
            /\ u.needed = FALSE /\ u.asked = FALSE
<1>1. ASSUME NEW a, Sound(a, l)
      PROVE  LET u == SupersedePending(a) IN
             Sound(u, l) /\ SameFlags(u, a) /\ SameEntries(u, a) /\ SameRequest(u, a) /\ u.pending = {}
  BY <1>1, PendingSound, PendingFields DEF SupersedePending, Sound
<1>2. ASSUME NEW a, Sound(a, l), a.pending = {}
      PROVE  LET u == EndCurrent(a) IN
             /\ Sound(u, l) /\ SameFlags(u, a) /\ SameRequest(u, a) /\ u.pending = {}
             /\ u.next = a.next /\ u.ready = a.ready /\ u.open = 0
             /\ u.current.status = "ended" /\ u.current.serial = a.current.serial
  BY <1>2, EndCurrentSound, EndCurrentFields DEF Sound
<1>3. ASSUME NEW a, Sound(a, l), a.pending = {}
      PROVE  LET u == NoNext(a) IN
             /\ Sound(u, l) /\ SameFlags(u, a) /\ SameRequest(u, a) /\ u.pending = a.pending
             /\ u.current = a.current /\ u.open = a.open /\ u.next = Nobody /\ u.ready = FALSE
  BY <1>3, NoNextSound, NoNextFields DEF Sound
<1>4. ASSUME NEW a, Sound(a, l)
      PROVE  LET u == ClearRequest(a) IN
             /\ Sound(u, l) /\ SameFlags(u, a) /\ SameEntries(u, a) /\ u.pending = a.pending
             /\ u.needed = FALSE /\ u.asked = FALSE
  BY <1>4, ClearRequestSound, ClearRequestFields DEF Sound
<1>5. ASSUME NEW a, Sound(a, l)
      PROVE  Sound(Leave(a), l) /\ Over(Leave(a), a)
  <2> DEFINE b == SupersedePending(a)
             c == EndCurrent(b)
             d == NoNext(c)
             u == ClearRequest(d)
  <2>1. Sound(b, l) /\ SameFlags(b, a) /\ SameEntries(b, a) /\ b.pending = {}
    BY <1>1, <1>5
  <2>2. /\ Sound(c, l) /\ SameFlags(c, b) /\ c.open = 0 /\ c.pending = {}
        /\ c.current.status = "ended" /\ c.current.serial = b.current.serial
    BY <1>2, <2>1
  <2>3. /\ Sound(d, l) /\ SameFlags(d, c) /\ d.pending = c.pending
        /\ d.current = c.current /\ d.open = c.open /\ d.next = Nobody /\ d.ready = FALSE
    BY <1>3, <2>2
  <2>4. /\ Sound(u, l) /\ SameFlags(u, d) /\ SameEntries(u, d) /\ u.pending = d.pending
        /\ u.needed = FALSE /\ u.asked = FALSE
    BY <1>4, <2>3
  <2>5. u = Leave(a)
    <3>1. SupersedePending(EndCurrent(a)) = EndCurrent(SupersedePending(a))
      BY <1>5 DEF SupersedePending, EndCurrent, HasCurrent, Sound, Record
    <3> QED BY <3>1 DEF Leave
  <2> HIDE DEF b, c, d, u
  <2>6. Over(u, a)
    BY <2>1, <2>2, <2>3, <2>4 DEF Over, SameFlags, SameEntries
  <2> QED BY <2>4, <2>5, <2>6
<1>6. LET u == ClearRequest(NoNext(EndCurrent(SupersedePending(t)))) IN Sound(u, l) /\ Over(u, t)
  <2> DEFINE c == SupersedePending(t)
             b == EndCurrent(c)
             d == NoNext(b)
             u == ClearRequest(d)
  <2>1. Sound(c, l) /\ SameFlags(c, t) /\ SameEntries(c, t) /\ c.pending = {}
    BY <1>1
  <2>2. /\ Sound(b, l) /\ SameFlags(b, c) /\ b.open = 0 /\ b.pending = {}
        /\ b.current.status = "ended" /\ b.current.serial = c.current.serial
    BY <1>2, <2>1
  <2>3. /\ Sound(d, l) /\ SameFlags(d, b) /\ d.pending = {}
        /\ d.current = b.current /\ d.open = b.open /\ d.next = Nobody /\ d.ready = FALSE
    BY <1>3, <2>2
  <2>4. /\ Sound(u, l) /\ SameFlags(u, d) /\ SameEntries(u, d) /\ u.pending = d.pending
        /\ u.needed = FALSE /\ u.asked = FALSE
    BY <1>4, <2>3
  <2> HIDE DEF b, c, d, u
  <2>6. Over(u, t)
    BY <2>1, <2>2, <2>3, <2>4 DEF Over, SameFlags, SameEntries
  <2> QED BY <2>4, <2>6 DEF u, d, b, c
<1>7. LET u == Leave(SupersedePending(t)) IN Sound(u, l) /\ Over(u, t)
  <2> DEFINE c == SupersedePending(t)
             u == Leave(c)
  <2>1. Sound(c, l) /\ SameFlags(c, t) /\ SameEntries(c, t)
    BY <1>1
  <2>2. Sound(u, l) /\ Over(u, c)
    BY <1>5, <2>1
  <2> HIDE DEF c, u
  <2>3. Over(u, t)
    BY <2>1, <2>2 DEF Over, SameFlags, SameEntries
  <2> QED BY <2>2, <2>3 DEF u, c
<1>8. LET u == EndCurrent(ClearRequest(SupersedePending(t))) IN
      /\ Sound(u, l) /\ SameFlags(u, t) /\ u.pending = {} /\ u.current.status = "ended"
      /\ u.needed = FALSE /\ u.asked = FALSE
  <2> DEFINE c == SupersedePending(t)
             d == ClearRequest(c)
             u == EndCurrent(d)
  <2>1. Sound(c, l) /\ SameFlags(c, t) /\ c.pending = {}
    BY <1>1
  <2>2. Sound(d, l) /\ SameFlags(d, c) /\ d.pending = {} /\ d.needed = FALSE /\ d.asked = FALSE
    BY <1>4, <2>1
  <2>3. /\ Sound(u, l) /\ SameFlags(u, d) /\ SameRequest(u, d) /\ u.pending = {}
        /\ u.current.status = "ended"
    BY <1>2, <2>2
  <2> HIDE DEF c, d, u
  <2> QED BY <2>1, <2>2, <2>3 DEF SameFlags, SameRequest, c, d, u
<1> QED BY <1>5, <1>6, <1>7, <1>8

(* A record whose attempt is over moves to any phase a session can have.   *)
LEMMA PhaseFields ==
  ASSUME NEW t \in Record, NEW p \in Phase
  PROVE  LET u == [t EXCEPT !.phase = p] IN
         /\ u \in Record /\ u.phase = p /\ u.owner = t.owner /\ u.eoq = t.eoq /\ u.started = t.started
         /\ SameEntries(u, t) /\ SameRequest(u, t) /\ u.pending = t.pending
BY DEF Record, SameEntries, SameRequest

LEMMA PhaseSound ==
  ASSUME NEW t, NEW l, Sound(t, l), t.current.status = "ended", t.pending = {},
         NEW p \in Phase \ {"none"}
  PROVE  Sound([t EXCEPT !.phase = p], l)
<1> DEFINE u == [t EXCEPT !.phase = p]
<1>1. /\ u \in Record /\ u.phase = p /\ u.owner = t.owner /\ u.eoq = t.eoq /\ u.started = t.started
      /\ SameEntries(u, t) /\ SameRequest(u, t) /\ u.pending = t.pending
  BY PhaseFields DEF Sound
<1> HIDE DEF u
<1>2. Sound(u, l)
  BY <1>1 DEF Sound, SameEntries, HasCurrent, HasNext
<1> QED BY <1>2 DEF u

LEMMA EntryType ==
  ASSUME NEW e \in 1..MaxEntry, NEW ref \in Ref, NEW op \in {"add", "skip"}
  PROVE  /\ Entry(e, op, "preparing", ref) \in SessionEntry
         /\ OpOf(Entry(e, op, "preparing", ref)) \in Operation
         /\ OpOf(Entry(e, op, "preparing", ref)) = [entry |-> e, op |-> op]
BY DEF Entry, SessionEntry, OpOf, Operation, NoSerial

PlayedRecord(t, e) ==
  LET v == ClearRequest(NoNext(EndCurrent(SupersedePending(t))))
  IN Begin(Attempt([v EXCEPT !.eoq = FALSE, !.phase = "active", !.started = TRUE], e), e)

PlayedParts(u, t, e, m) ==
  /\ Sound(u, m) /\ u.phase = "active" /\ u.owner = t.owner
  /\ u.current = e /\ u.next = Nobody /\ u.ready = FALSE
  /\ u.needed = FALSE /\ u.asked = FALSE /\ u.pending = {OpOf(e)}

LEMMA PlayRecord ==
  ASSUME NEW t, NEW l \in 0..(MaxEntry - 1), Sound(t, l), NEW ref \in Ref, NEW m, m = l + 1
  PROVE  LET e == Entry(m, "add", "preparing", ref) IN PlayedParts(PlayedRecord(t, e), t, e, m)
<1> DEFINE e == Entry(m, "add", "preparing", ref)
           v == ClearRequest(NoNext(EndCurrent(SupersedePending(t))))
           a == [v EXCEPT !.eoq = FALSE, !.phase = "active", !.started = TRUE]
           b == Attempt(a, e)
           u == Begin(b, e)
<1>0. l \in Nat /\ m \in 1..MaxEntry /\ l < m
  BY SessionAssumption
<1>1. /\ e \in SessionEntry /\ OpOf(e) \in Operation
      /\ e.serial = m /\ e.status = "preparing"
  BY <1>0, EntryType DEF Entry
<1>2. Sound(v, l) /\ Over(v, t)
  BY <1>0, LeaveOver
<1> HIDE DEF v, e
<1>3. /\ a \in Record /\ a.phase = "active" /\ a.owner = v.owner /\ a.started = TRUE
      /\ SameEntries(a, v) /\ SameRequest(a, v) /\ a.pending = v.pending
  BY <1>2 DEF Sound, Record, SameEntries, SameRequest, Phase
<1> HIDE DEF a
<1>4. /\ SameFlags(b, a) /\ SameRequest(b, a) /\ b.pending = a.pending
      /\ b.next = a.next /\ b.ready = a.ready /\ b.current = e /\ b.open = a.open + 1
  BY <1>1, <1>3, AttemptFields
<1> HIDE DEF b
<1>5. b.pending \cup {OpOf(e)} \in SUBSET Operation
  BY <1>1, <1>4 DEF SameFlags, Record
<1>6. SameFlags(u, b) /\ SameEntries(u, b) /\ SameRequest(u, b) /\ u.pending = b.pending \cup {OpOf(e)}
  BY <1>4, <1>5, PendingFields DEF Begin, SameFlags
<1> HIDE DEF u
<1>7. /\ u \in Record /\ u.phase = "active" /\ u.owner = t.owner /\ u.started = TRUE
      /\ u.current = e /\ u.next = Nobody /\ u.ready = FALSE /\ u.open = 1
      /\ u.needed = FALSE /\ u.asked = FALSE /\ u.pending = {OpOf(e)}
  BY <1>2, <1>3, <1>4, <1>6 DEF Over, SameFlags, SameEntries, SameRequest
<1>8. Sound(u, m)
  BY <1>0, <1>1, <1>7, NobodyType DEF Sound, HasCurrent, HasNext, NoSerial
<1> QED BY <1>7, <1>8 DEF u, b, a, v, e, PlayedRecord, PlayedParts

(* The record after a next entry was taken away, with what was awaited.    *)
LEMMA NextTakenRecord ==
  ASSUME NEW t, NEW l \in Nat, Sound(t, l)
  PROVE  LET u == ClearRequest(NoNext(FinishOperation(t, t.next))) IN
         /\ Sound(u, l) /\ SameFlags(u, t) /\ u.current = t.current /\ u.open = t.open
         /\ u.next = Nobody /\ u.ready = FALSE /\ u.needed = FALSE /\ u.asked = FALSE
         /\ u.pending = t.pending \ {OpOf(t.next)}
<1> DEFINE a == FinishOperation(t, t.next)
           b == NoNext(a)
           u == ClearRequest(b)
<1>1. /\ Sound(a, l) /\ SameFlags(a, t) /\ SameEntries(a, t) /\ SameRequest(a, t)
      /\ a.pending = t.pending \ {OpOf(t.next)}
  <2>1. t.pending \ {OpOf(t.next)} \in SUBSET Operation /\ t \in Record
    BY DEF Sound, Record
  <2> QED BY <2>1, PendingSound, PendingFields DEF FinishOperation
<1> HIDE DEF a
<1>2. /\ Sound(b, l) /\ SameFlags(b, a) /\ SameRequest(b, a) /\ b.pending = a.pending
      /\ b.current = a.current /\ b.open = a.open /\ b.next = Nobody /\ b.ready = FALSE
  <2>1. \A o \in a.pending : o = OpOf(a.current)
    BY <1>1 DEF Sound, SameEntries
  <2> QED BY <1>1, <2>1, NoNextSound, NoNextFields DEF Sound
<1> HIDE DEF b
<1>3. /\ Sound(u, l) /\ SameFlags(u, b) /\ SameEntries(u, b) /\ u.pending = b.pending
      /\ u.needed = FALSE /\ u.asked = FALSE
  BY <1>2, ClearRequestSound, ClearRequestFields DEF Sound
<1> HIDE DEF u
<1> QED BY <1>1, <1>2, <1>3 DEF SameFlags, SameEntries, a, b, u

NextGivenRecord(t, e) ==
  LET v == ClearRequest(NoNext(FinishOperation(t, t.next)))
  IN Begin([v EXCEPT !.next = e, !.eoq = FALSE], e)

NextGivenParts(u, t, e, m) ==
  /\ Sound(u, m) /\ u.phase = "active" /\ u.owner = t.owner
  /\ u.current = t.current /\ u.next = e /\ u.ready = FALSE
  /\ u.needed = FALSE /\ u.asked = FALSE
  /\ u.pending = (t.pending \ {OpOf(t.next)}) \cup {OpOf(e)}

LEMMA NextRecord ==
  ASSUME NEW t, NEW l \in 0..(MaxEntry - 1), Sound(t, l), NEW ref \in Ref, NEW m, m = l + 1,
         t.phase = "active", HasCurrent(t)
  PROVE  LET e == Entry(m, "add", "preparing", ref) IN NextGivenParts(NextGivenRecord(t, e), t, e, m)
<1> DEFINE e == Entry(m, "add", "preparing", ref)
           v == ClearRequest(NoNext(FinishOperation(t, t.next)))
           a == [v EXCEPT !.next = e, !.eoq = FALSE]
           u == Begin(a, e)
<1>0. l \in Nat /\ m \in 1..MaxEntry /\ l < m
  BY SessionAssumption
<1>1. /\ e \in SessionEntry /\ OpOf(e) \in Operation
      /\ e.serial = m /\ e.status = "preparing" /\ e.op = "add"
  BY <1>0, EntryType DEF Entry
<1>2. /\ Sound(v, l) /\ SameFlags(v, t) /\ v.current = t.current /\ v.open = t.open
      /\ v.next = Nobody /\ v.ready = FALSE /\ v.needed = FALSE /\ v.asked = FALSE
      /\ v.pending = t.pending \ {OpOf(t.next)}
  BY <1>0, NextTakenRecord
<1> HIDE DEF v, e
<1>3. /\ a \in Record /\ a.phase = v.phase /\ a.owner = v.owner /\ a.started = v.started
      /\ a.current = v.current /\ a.open = v.open /\ a.ready = v.ready /\ a.next = e
      /\ SameRequest(a, v) /\ a.pending = v.pending
  BY <1>1, <1>2 DEF Sound, Record, SameRequest
<1> HIDE DEF a
<1>4. a.pending \cup {OpOf(e)} \in SUBSET Operation
  BY <1>1, <1>3 DEF Record
<1>5. SameFlags(u, a) /\ SameEntries(u, a) /\ SameRequest(u, a) /\ u.pending = a.pending \cup {OpOf(e)}
  BY <1>3, <1>4, PendingFields DEF Begin
<1> HIDE DEF u
<1>6. /\ u \in Record /\ u.phase = "active" /\ u.owner = t.owner /\ u.started = t.started
      /\ u.current = t.current /\ u.next = e /\ u.ready = FALSE /\ u.open = t.open
      /\ u.needed = FALSE /\ u.asked = FALSE
      /\ u.pending = (t.pending \ {OpOf(t.next)}) \cup {OpOf(e)}
  BY <1>2, <1>3, <1>5 DEF SameFlags, SameEntries, SameRequest
<1>7. t.current.serial <= l /\ t.current.serial \in Int
  BY DEF Sound, Record, SessionEntry, NoSerial
<1>8. OpOf(t.current) # OpOf(e)
  BY <1>0, <1>1, <1>7 DEF OpOf
<1>9. Sound(u, m)
  BY <1>0, <1>1, <1>6, <1>7, <1>8 DEF Sound, HasCurrent, HasNext, NoSerial
<1> QED BY <1>6, <1>9 DEF u, a, v, e, NextGivenRecord, NextGivenParts

WithdrawnRecord(t, endOfQueue) ==
  LET v == ClearRequest(NoNext(FinishOperation(t, t.next))) IN [v EXCEPT !.eoq = endOfQueue]

WithdrawnParts(a, u, t, l) ==
  /\ Sound(a, l) /\ Sound(u, l) /\ u.phase = t.phase /\ u.owner = t.owner /\ u.current = t.current
  /\ u.next = Nobody /\ u.ready = FALSE /\ u.pending = t.pending \ {OpOf(t.next)}
  /\ a.needed = FALSE /\ a.asked = FALSE

LEMMA WithdrawRecord ==
  ASSUME NEW t, NEW l \in Nat, Sound(t, l), NEW endOfQueue \in BOOLEAN, NEW heard \in BOOLEAN
  PROVE  LET a == WithdrawnRecord(t, endOfQueue) IN WithdrawnParts(a, RequestNext(a, heard), t, l)
<1> DEFINE v == ClearRequest(NoNext(FinishOperation(t, t.next)))
           a == [v EXCEPT !.eoq = endOfQueue]
           u == RequestNext(a, heard)
<1>1. /\ Sound(v, l) /\ SameFlags(v, t) /\ v.current = t.current /\ v.open = t.open
      /\ v.next = Nobody /\ v.ready = FALSE /\ v.needed = FALSE /\ v.asked = FALSE
      /\ v.pending = t.pending \ {OpOf(t.next)}
  BY NextTakenRecord
<1> HIDE DEF v
<1>2. /\ a \in Record /\ a.phase = v.phase /\ a.owner = v.owner /\ a.started = v.started
      /\ SameEntries(a, v) /\ SameRequest(a, v) /\ a.pending = v.pending
  BY <1>1 DEF Sound, Record, SameEntries, SameRequest
<1> HIDE DEF a
<1>3. Sound(a, l)
  BY <1>1, <1>2 DEF Sound, SameEntries, HasCurrent, HasNext
<1>4. Sound(u, l)
  BY <1>3, RequestNextSound
<1>5. SameFlags(u, a) /\ SameEntries(u, a) /\ u.pending = a.pending
  BY <1>2, RequestNextFields
<1> HIDE DEF u
<1> QED BY <1>1, <1>2, <1>3, <1>4, <1>5 DEF SameFlags, SameEntries, SameRequest, u, a, v,
                                        WithdrawnRecord, WithdrawnParts

SkippedEntry(t) == [t.next EXCEPT !.op = "skip", !.status = "preparing"]
SkippedRecord(t, e) ==
  LET v == ClearRequest(NoNext(Attempt(EndCurrent(t), SkippedEntry(t))))
  IN Submitted(Begin(v, SkippedEntry(t)), e)

SkippedParts(u, t, l) ==
  /\ Sound(u, l) /\ u.phase = "active" /\ u.owner = t.owner
  /\ u.current.serial = t.next.serial /\ u.current.status = "preparing"
  /\ u.current.submitted = TRUE /\ u.next = Nobody /\ u.ready = FALSE
  /\ u.needed = FALSE /\ u.asked = FALSE
  /\ t.pending = {} /\ u.pending = {OpOf(u.current)} /\ OpOf(u.current) \in Operation

LEMMA SkipRecord ==
  ASSUME NEW t, NEW l \in Nat, Sound(t, l), t.phase = "active", t.current.status = "playing",
         HasNext(t), t.ready, NEW e \in Nat, e = t.next.serial
  PROVE  SkippedParts(SkippedRecord(t, e), t, l)
<1> DEFINE entry == [t.next EXCEPT !.op = "skip", !.status = "preparing"]
           a == EndCurrent(t)
           b == Attempt(a, entry)
           c == NoNext(b)
           v == ClearRequest(c)
           w == Begin(v, entry)
           u == Submitted(w, e)
<1>0. t.pending = {}
  BY DEF Sound
<1>1. /\ entry \in SessionEntry /\ entry.serial = e /\ entry.op = "skip" /\ entry.status = "preparing"
      /\ OpOf(entry) \in Operation
  <2>1. t.next \in SessionEntry /\ t.current \in SessionEntry
    BY DEF Sound, Record
  <2>2. /\ entry \in SessionEntry /\ entry.serial = e /\ entry.op = "skip" /\ entry.status = "preparing"
    BY <2>1 DEF SessionEntry
  <2>3. t.current.serial < e /\ t.current.serial # NoSerial
    BY DEF Sound, HasCurrent
  <2>4. e \in 1..MaxEntry
    BY <2>1, <2>3 DEF SessionEntry, NoSerial
  <2> QED BY <2>2, <2>4 DEF OpOf, Operation
<1>2. /\ Sound(a, l) /\ SameFlags(a, t) /\ a.pending = {} /\ a.open = 0
  BY <1>0, EndCurrentSound, EndCurrentFields DEF Sound
<1> HIDE DEF a, entry
<1>3. /\ SameFlags(b, a) /\ b.pending = a.pending /\ b.current = entry /\ b.open = 1
  BY <1>1, <1>2, AttemptFields DEF Sound
<1> HIDE DEF b
<1>4. /\ SameFlags(c, b) /\ c.pending = b.pending
      /\ c.current = b.current /\ c.open = b.open /\ c.next = Nobody /\ c.ready = FALSE
  BY <1>3, NoNextFields DEF SameFlags
<1> HIDE DEF c
<1>5. /\ SameFlags(v, c) /\ SameEntries(v, c) /\ v.pending = c.pending
      /\ v.needed = FALSE /\ v.asked = FALSE
  BY <1>4, ClearRequestFields DEF SameFlags
<1> HIDE DEF v
<1>6. SameFlags(w, v) /\ SameEntries(w, v) /\ SameRequest(w, v) /\ w.pending = {OpOf(entry)}
  <2>1. v.pending \cup {OpOf(entry)} = {OpOf(entry)} /\ {OpOf(entry)} \in SUBSET Operation
    BY <1>1, <1>2, <1>3, <1>4, <1>5
  <2> QED BY <1>5, <2>1, PendingFields DEF Begin, SameFlags
<1> HIDE DEF w
<1>7. /\ w \in Record /\ w.phase = "active" /\ w.owner = t.owner /\ w.started = t.started
      /\ w.current = entry /\ w.next = Nobody /\ w.ready = FALSE /\ w.open = 1
      /\ w.needed = FALSE /\ w.asked = FALSE /\ w.pending = {OpOf(entry)}
  BY <1>2, <1>3, <1>4, <1>5, <1>6 DEF SameFlags, SameEntries, SameRequest
<1>8. Sound(w, l)
  BY <1>1, <1>7, NobodyType DEF Sound, HasCurrent, HasNext, NoSerial
<1>9. Sound(u, l)
  BY <1>8, SubmittedSound
<1>10. /\ SameFlags(u, w) /\ SameRequest(u, w) /\ u.pending = w.pending
       /\ u.next = w.next /\ u.ready = w.ready
       /\ u.current.serial = e /\ u.current.status = "preparing" /\ u.current.op = "skip"
       /\ u.current.submitted = TRUE
  <2>1. w \in Record
    BY <1>7
  <2>2. /\ SameFlags(u, w) /\ SameRequest(u, w) /\ u.pending = w.pending
        /\ u.next = w.next /\ u.ready = w.ready
        /\ u.current.serial = w.current.serial /\ u.current.op = w.current.op
        /\ u.current.status = w.current.status
        /\ w.phase = "active" /\ w.current.serial = e => u.current.submitted = TRUE
    BY <2>1, SubmittedFields
  <2> QED BY <1>1, <1>7, <2>2
<1> HIDE DEF u
<1>11. OpOf(u.current) = OpOf(entry)
  BY <1>1, <1>10 DEF OpOf
<1> QED BY <1>0, <1>1, <1>7, <1>9, <1>10, <1>11 DEF SameFlags, SameRequest, u, w, v, c, b, a, entry,
                                                   SkippedEntry, SkippedRecord, SkippedParts

AdoptedEntry(ref) == [Entry(0, "none", "playing", ref) EXCEPT !.submitted = TRUE]
AdoptedRecord(t, ref) == Attempt([t EXCEPT !.started = TRUE], AdoptedEntry(ref))

AdoptedParts(a, u, t, l) ==
  /\ Sound(a, l) /\ Sound(u, l) /\ u.phase = "active" /\ u.owner = t.owner
  /\ u.next = Nobody /\ u.ready = FALSE /\ u.pending = {}
  /\ u.current.status = "playing" /\ u.current.serial = 0
  /\ t.pending = {} /\ SameRequest(a, t)

LEMMA AdoptRecord ==
  ASSUME NEW t, NEW l \in Nat, Sound(t, l), t.phase = "active", ~HasCurrent(t), ~HasNext(t),
         NEW ref \in Ref, NEW heard \in BOOLEAN
  PROVE  LET a == AdoptedRecord(t, ref) IN AdoptedParts(a, RequestNext(a, heard), t, l)
<1> DEFINE entry == [Entry(0, "none", "playing", ref) EXCEPT !.submitted = TRUE]
           b == [t EXCEPT !.started = TRUE]
           a == Attempt(b, entry)
           u == RequestNext(a, heard)
<1>1. entry \in SessionEntry /\ entry.status = "playing" /\ entry.serial = 0
  <2>1. Entry(0, "none", "playing", ref) \in SessionEntry
    BY SessionAssumption DEF Entry, SessionEntry, NoSerial
  <2>2. Entry(0, "none", "playing", ref).status = "playing" /\ Entry(0, "none", "playing", ref).serial = 0
    BY DEF Entry
  <2> QED BY <2>1, <2>2 DEF SessionEntry
<1> HIDE DEF entry
<1>2. t.pending = {} /\ t.open = 0 /\ t.next = Nobody
  <2>1. t.pending \subseteq Operation /\ \A o \in t.pending : o.entry # NoSerial
    BY DEF Sound, Record, Operation, NoSerial
  <2> QED BY <2>1, NobodyType DEF Sound, HasCurrent, HasNext, OpOf
<1>3. /\ b \in Record /\ b.phase = t.phase /\ b.owner = t.owner /\ b.eoq = t.eoq /\ b.started = TRUE
      /\ SameEntries(b, t) /\ SameRequest(b, t) /\ b.pending = t.pending
  BY DEF Sound, Record, SameEntries, SameRequest
<1> HIDE DEF b
<1>4. /\ SameFlags(a, b) /\ SameRequest(a, b) /\ a.pending = b.pending
      /\ a.next = b.next /\ a.ready = b.ready /\ a.current = entry /\ a.open = b.open + 1
  BY <1>1, <1>3, AttemptFields
<1> HIDE DEF a
<1>5. t.ready = FALSE
  BY DEF Sound, Record
<1>6. /\ a \in Record /\ a.phase = "active" /\ a.owner = t.owner /\ a.started = TRUE
      /\ a.current = entry /\ a.next = Nobody /\ a.ready = FALSE /\ a.open = 1
      /\ SameRequest(a, t) /\ a.pending = {}
  BY <1>2, <1>3, <1>4, <1>5 DEF SameFlags, SameEntries, SameRequest
<1>7. Sound(a, l)
  BY <1>1, <1>6, NobodyType DEF Sound, HasCurrent, HasNext, NoSerial
<1>8. Sound(u, l)
  BY <1>7, RequestNextSound
<1>9. SameFlags(u, a) /\ SameEntries(u, a) /\ u.pending = a.pending
  BY <1>6, RequestNextFields
<1> HIDE DEF u
<1>10. /\ Sound(a, l) /\ Sound(u, l) /\ u.phase = "active" /\ u.owner = t.owner
       /\ u.current = entry /\ u.next = Nobody /\ u.ready = FALSE /\ u.pending = {}
       /\ u.current.status = "playing" /\ u.current.serial = 0
       /\ t.pending = {} /\ SameRequest(a, t)
  BY <1>1, <1>2, <1>6, <1>7, <1>8, <1>9 DEF SameFlags, SameEntries
<1> QED BY <1>10 DEF u, a, b, entry, AdoptedEntry, AdoptedRecord, AdoptedParts

FailedParts(u, t, l, failed, heard) ==
  /\ Sound(u, l) /\ SameFlags(u, t) /\ u.pending = t.pending \ failed
  /\ u.current.serial = t.current.serial /\ u.current.submitted = t.current.submitted
  /\ u.current = t.current \/ (u.current.status = "ended" /\ OpOf(t.current) \in failed)
  /\ OpOf(t.current) \in failed => u.current.status = "ended"
  /\ u.current.op = t.current.op
  /\ \/ u.next = t.next /\ u.ready = t.ready /\ OpOf(t.next) \notin failed
     \/ u.next = Nobody /\ u.ready = FALSE /\ OpOf(t.next) \in failed
  /\ failed = {} => u = t
  /\ failed # {} => \E v : Sound(v, l) /\ u = RequestNext(v, heard) /\ (SameRequest(v, t) \/ ~v.needed)

LEMMA FailRecord ==
  ASSUME NEW t, NEW l \in Nat, Sound(t, l), NEW e \in Nat, NEW heard \in BOOLEAN
  PROVE  FailedParts(FailOperation(t, e, heard), t, l, {o \in t.pending : o.entry = e}, heard)
<1> DEFINE failed == {o \in t.pending : o.entry = e}
           P == t.pending \ failed
           a == [t EXCEPT !.pending = P]
           b == IF OpOf(t.current) \in failed THEN EndCurrent(a) ELSE a
           c == IF OpOf(t.next) \in failed THEN ClearRequest(NoNext(b)) ELSE b
           u == FailOperation(t, e, heard)
<1>1. CASE failed = {}
  <2>1. u = t
    BY <1>1 DEF FailOperation
  <2>2. \A o : o \notin failed
    BY <1>1
  <2> HIDE DEF u, failed
  <2>3. t.pending = t.pending \ failed /\ SameFlags(t, t)
    BY <2>2 DEF Sound, SameFlags
  <2>4. /\ Sound(u, l) /\ SameFlags(u, t) /\ u.pending = t.pending \ failed
        /\ u.current = t.current /\ u.next = t.next /\ u.ready = t.ready
        /\ OpOf(t.next) \notin failed /\ OpOf(t.current) \notin failed
    BY <2>1, <2>2, <2>3
  <2> QED BY <1>1, <2>1, <2>4 DEF u, failed, FailedParts
<1>2. CASE failed # {}
  <2>0. u = RequestNext(c, heard)
    <3>1. [t EXCEPT !.pending = @ \ failed] = a
      BY DEF Sound, Record
    <3> QED BY <1>2, <3>1 DEF FailOperation
  <2>1. P \in SUBSET Operation /\ t \in Record /\ P \subseteq t.pending
    BY DEF Sound, Record
  <2> HIDE DEF failed, P
  <2>2. /\ Sound(a, l) /\ SameFlags(a, t) /\ SameEntries(a, t) /\ SameRequest(a, t) /\ a.pending = P
    BY <2>1, PendingSound, PendingFields
  <2> HIDE DEF a
  <2>3. /\ Sound(b, l) /\ SameFlags(b, t) /\ SameRequest(b, t) /\ b.pending = P
        /\ b.next = t.next /\ b.ready = t.ready /\ b.current.serial = t.current.serial
        /\ b.current.submitted = t.current.submitted /\ b.current.op = t.current.op
        /\ OpOf(t.current) \in failed => b.current.status = "ended"
        /\ OpOf(t.current) \notin failed => b.current = t.current
    <3>1. CASE OpOf(t.current) \in failed
      <4>1. OpOf(a.current) \notin a.pending
        BY <2>2, <3>1 DEF P, SameEntries
      <4>2. LET v == EndCurrent(a) IN Sound(v, l) /\ v.current.status = "ended"
        BY <2>2, <4>1, EndCurrentSound
      <4>3. LET v == EndCurrent(a) IN
            /\ SameFlags(v, a) /\ SameRequest(v, a) /\ v.pending = a.pending
            /\ v.next = a.next /\ v.ready = a.ready
            /\ v.current.serial = a.current.serial /\ v.current.op = a.current.op
            /\ v.current.submitted = a.current.submitted
        BY <2>2, EndCurrentFields DEF SameFlags
      <4>4. b = EndCurrent(a)
        BY <3>1
      <4> HIDE DEF b
      <4> QED BY <2>2, <3>1, <4>2, <4>3, <4>4 DEF SameFlags, SameEntries, SameRequest
    <3>2. CASE OpOf(t.current) \notin failed
      BY <2>2, <3>2 DEF SameFlags, SameEntries, SameRequest
    <3> QED BY <3>1, <3>2
  <2> HIDE DEF b
  <2>4. /\ Sound(c, l) /\ SameFlags(c, t) /\ c.pending = P /\ c.current = b.current
        /\ SameRequest(c, t) \/ ~c.needed
        /\ OpOf(t.next) \in failed => c.next = Nobody /\ c.ready = FALSE
        /\ OpOf(t.next) \notin failed => c.next = t.next /\ c.ready = t.ready
    <3>1. CASE OpOf(t.next) \in failed
      <4> DEFINE d == NoNext(b)
      <4>1. \A o \in b.pending : o = OpOf(b.current)
        BY <2>3, <3>1 DEF P, Sound
      <4>2. /\ Sound(d, l) /\ SameFlags(d, b) /\ d.pending = b.pending
            /\ d.current = b.current /\ d.next = Nobody /\ d.ready = FALSE
        BY <2>3, <4>1, NoNextSound, NoNextFields DEF SameFlags
      <4>3. c = ClearRequest(d)
        BY <3>1
      <4> HIDE DEF d, c
      <4>4. /\ Sound(c, l) /\ SameFlags(c, d) /\ SameEntries(c, d) /\ c.pending = d.pending
            /\ c.needed = FALSE
        BY <4>2, <4>3, ClearRequestSound, ClearRequestFields DEF SameFlags
      <4> QED BY <2>3, <3>1, <4>2, <4>4 DEF SameFlags, SameEntries
    <3>2. CASE OpOf(t.next) \notin failed
      BY <2>3, <3>2
    <3> QED BY <3>1, <3>2
  <2> HIDE DEF c, u
  <2>5. Sound(u, l)
    BY <2>0, <2>4, RequestNextSound
  <2>6. SameFlags(u, c) /\ SameEntries(u, c) /\ u.pending = c.pending
    BY <2>0, <2>4, RequestNextFields DEF SameFlags
  <2>7. \E v : Sound(v, l) /\ u = RequestNext(v, heard) /\ (SameRequest(v, t) \/ ~v.needed)
    BY <2>0, <2>4
  <2>8. /\ Sound(u, l) /\ SameFlags(u, t) /\ u.pending = P
        /\ u.current.serial = t.current.serial /\ u.current.submitted = t.current.submitted
        /\ u.current = t.current \/ (u.current.status = "ended" /\ OpOf(t.current) \in failed)
        /\ OpOf(t.current) \in failed => u.current.status = "ended"
        /\ u.current.op = t.current.op
        /\ \/ u.next = t.next /\ u.ready = t.ready /\ OpOf(t.next) \notin failed
           \/ u.next = Nobody /\ u.ready = FALSE /\ OpOf(t.next) \in failed
    <3>1. SameFlags(u, t) /\ u.pending = P /\ u.current = b.current /\ u.next = c.next /\ u.ready = c.ready
      BY <2>4, <2>6 DEF SameFlags, SameEntries
    <3>2. /\ u.current.serial = t.current.serial /\ u.current.submitted = t.current.submitted
          /\ u.current = t.current \/ (u.current.status = "ended" /\ OpOf(t.current) \in failed)
          /\ OpOf(t.current) \in failed => u.current.status = "ended"
          /\ u.current.op = t.current.op
      BY <2>3, <3>1
    <3>3. \/ u.next = t.next /\ u.ready = t.ready /\ OpOf(t.next) \notin failed
          \/ u.next = Nobody /\ u.ready = FALSE /\ OpOf(t.next) \in failed
      BY <2>4, <3>1
    <3> QED BY <2>5, <3>1, <3>2, <3>3
  <2> QED BY <1>2, <2>7, <2>8 DEF u, P, failed, FailedParts
<1> QED BY <1>1, <1>2

LEMMA LandedRecord ==
  ASSUME NEW t, NEW l \in Nat, Sound(t, l), HasNext(t)
  PROVE  LET u == FinishOperation([t EXCEPT !.ready = TRUE], t.next) IN
         /\ Sound(u, l) /\ SameFlags(u, t) /\ SameRequest(u, t) /\ u.ready = TRUE
         /\ u.current = t.current /\ u.next = t.next /\ u.pending = t.pending \ {OpOf(t.next)}
<1> DEFINE a == [t EXCEPT !.ready = TRUE]
           P == t.pending \ {OpOf(t.next)}
           u == FinishOperation(a, t.next)
<1>1. /\ SameFlags(a, t) /\ SameRequest(a, t) /\ a.pending = t.pending /\ a.ready = TRUE
      /\ a.current = t.current /\ a.next = t.next /\ a.open = t.open
  BY DEF Sound, Record, SameFlags, SameRequest
<1> HIDE DEF a
<1>2. P \in SUBSET Operation
  BY DEF Sound, Record
<1>3. SameFlags(u, a) /\ SameEntries(u, a) /\ SameRequest(u, a) /\ u.pending = P
  BY <1>1, <1>2, PendingFields DEF FinishOperation, SameFlags
<1> HIDE DEF u
<1>4. Sound(u, l)
  BY <1>1, <1>3 DEF Sound, SameFlags, SameEntries, HasCurrent, HasNext
<1> QED BY <1>1, <1>3, <1>4 DEF SameFlags, SameEntries, SameRequest, u, a

LEMMA ExternalRecord ==
  ASSUME NEW t, NEW l \in Nat, Sound(t, l)
  PROVE  LET u == External(t) IN
         /\ Sound(u, l) /\ u.owner = t.owner
         /\ t.phase = "active" /\ HasCurrent(t) =>
              /\ u.phase = "stopped" /\ u.pending = {} /\ u.current.status = "ended" /\ u.next = Nobody
              /\ u.needed = FALSE /\ u.asked = FALSE /\ u.current.serial = t.current.serial
         /\ ~(t.phase = "active" /\ HasCurrent(t)) => u = t
<1>1. CASE t.phase = "active" /\ HasCurrent(t)
  <2> DEFINE a == Leave(t)
             u == External(t)
  <2>1. u = [a EXCEPT !.phase = "stopped"]
    BY <1>1 DEF External
  <2>2. Sound(a, l) /\ Over(a, t)
    BY LeaveOver
  <2> HIDE DEF a, u
  <2>3. Sound(u, l)
    BY <2>1, <2>2, PhaseSound DEF Over, Phase
  <2>4. u.phase = "stopped" /\ u.owner = a.owner /\ SameEntries(u, a) /\ SameRequest(u, a) /\ u.pending = a.pending
    BY <2>1, <2>2, PhaseFields DEF Over, Phase, SameFlags
  <2> QED BY <1>1, <2>2, <2>3, <2>4 DEF Over, SameFlags, SameEntries, SameRequest, u
<1>2. CASE ~(t.phase = "active" /\ HasCurrent(t))
  BY <1>2 DEF External
<1> QED BY <1>1, <1>2

LEMMA PlaybackEndedRecord ==
  ASSUME NEW t, NEW l \in Nat, Sound(t, l), NEW heard \in BOOLEAN
  PROVE  LET u == PlaybackEnded(t, heard) IN
         /\ Sound(u, l) /\ SameFlags(u, t) /\ u.next = t.next /\ u.ready = t.ready
         /\ u.pending \subseteq t.pending
         /\ u.current.serial = t.current.serial /\ u.current.submitted = t.current.submitted
         /\ t.phase # "active" \/ ~t.current.submitted \/ t.current.status = "ended" => u = t
         /\ ~(t.phase # "active" \/ ~t.current.submitted \/ t.current.status = "ended") =>
              /\ u.current.status = "ended"
              /\ \A o \in u.pending : o = OpOf(t.next)
              /\ u.pending = t.pending \ {OpOf(t.current)}
              /\ \E v : Sound(v, l) /\ u = RequestNext(v, heard) /\ SameRequest(v, t)
<1>1. CASE t.phase # "active" \/ ~t.current.submitted \/ t.current.status = "ended"
  BY <1>1 DEF PlaybackEnded, Sound, SameFlags
<1>2. CASE ~(t.phase # "active" \/ ~t.current.submitted \/ t.current.status = "ended")
  <2> DEFINE a == IF t.current.status = "preparing" THEN FinishOperation(t, t.current) ELSE t
             P == t.pending \ {OpOf(t.current)}
             b == EndCurrent(a)
             u == PlaybackEnded(t, heard)
  <2>1. u = RequestNext(b, heard)
    BY <1>2 DEF PlaybackEnded
  <2>2. Sound(a, l) /\ SameFlags(a, t) /\ SameEntries(a, t) /\ SameRequest(a, t) /\ a.pending = P
    <3>1. CASE t.current.status = "preparing"
      <4>1. P \in SUBSET Operation /\ t \in Record
        BY DEF Sound, Record
      <4>2. a = [t EXCEPT !.pending = P]
        BY <3>1, <4>1 DEF FinishOperation, Record
      <4> HIDE DEF a
      <4> QED BY <4>1, <4>2, PendingSound, PendingFields
    <3>2. CASE t.current.status # "preparing"
      BY <3>2 DEF Sound, SameFlags, SameEntries, SameRequest
    <3> QED BY <3>1, <3>2
  <2> HIDE DEF a
  <2>3. OpOf(a.current) \notin a.pending
    BY <2>2 DEF SameEntries
  <2>4. Sound(b, l) /\ b.current.status = "ended"
    BY <2>2, <2>3, EndCurrentSound
  <2>5. /\ SameFlags(b, a) /\ SameRequest(b, a) /\ b.pending = a.pending
        /\ b.next = a.next /\ b.ready = a.ready
        /\ b.current.serial = a.current.serial /\ b.current.submitted = a.current.submitted
    BY <2>2, EndCurrentFields DEF SameFlags
  <2> HIDE DEF b, u
  <2>6. Sound(u, l)
    BY <2>1, <2>4, RequestNextSound
  <2>7. SameFlags(u, b) /\ SameEntries(u, b) /\ u.pending = b.pending
    <3>1. b \in Record
      BY <2>5 DEF SameFlags
    <3> QED BY <2>1, <3>1, RequestNextFields
  <2>8. /\ SameFlags(u, t) /\ u.next = t.next /\ u.ready = t.ready /\ u.pending = P
        /\ u.current.serial = t.current.serial /\ u.current.submitted = t.current.submitted
        /\ u.current.status = "ended"
    BY <2>2, <2>4, <2>5, <2>7 DEF SameFlags, SameEntries
  <2>9. \A o \in P : o = OpOf(t.next)
    BY DEF Sound
  <2>10. SameRequest(b, t)
    BY <2>2, <2>5 DEF SameRequest
  <2> QED BY <1>2, <2>1, <2>4, <2>6, <2>8, <2>9, <2>10 DEF u
<1> QED BY <1>1, <1>2

LEMMA UserStoppedRecord ==
  ASSUME NEW t, NEW l \in Nat, Sound(t, l), t.phase # "none"
  PROVE  LET u == UserStopped(t) IN
         /\ Sound(u, l) /\ u.owner = t.owner /\ u.phase = "stopped" /\ u.pending = {}
         /\ u.current.status = "ended" /\ u.current.serial = t.current.serial
         /\ u.needed = FALSE /\ u.asked = FALSE
         /\ u.next = t.next \/ u.next = Nobody
<1> DEFINE c == EndCurrent(SupersedePending(t))
           a == SupersedePending(EndCurrent(t))
           b == IF a.ready THEN a ELSE NoNext(a)
           d == ClearRequest(b)
           u == UserStopped(t)
<1>1. a = c
  BY DEF SupersedePending, EndCurrent, HasCurrent, Sound, Record
<1>2. LET p == SupersedePending(t) IN
      Sound(p, l) /\ SameFlags(p, t) /\ SameEntries(p, t) /\ p.pending = {}
  BY PendingSound, PendingFields DEF SupersedePending, Sound
<1>3. /\ Sound(c, l) /\ SameFlags(c, t) /\ c.pending = {} /\ c.current.status = "ended"
      /\ c.current.serial = t.current.serial /\ c.next = t.next
  <2> DEFINE p == SupersedePending(t)
  <2> HIDE DEF p
  <2>1. Sound(p, l) /\ SameFlags(p, t) /\ SameEntries(p, t) /\ p.pending = {}
    BY <1>2 DEF p
  <2>2. LET q == EndCurrent(p) IN
        /\ Sound(q, l) /\ SameFlags(q, p) /\ q.pending = {} /\ q.current.status = "ended"
        /\ q.current.serial = p.current.serial /\ q.next = p.next
    BY <2>1, EndCurrentSound, EndCurrentFields DEF Sound
  <2> QED BY <2>1, <2>2 DEF SameFlags, SameEntries, p
<1>4. u = [d EXCEPT !.phase = "stopped"]
  BY DEF UserStopped
<1> HIDE DEF a, c, u
<1>5. /\ Sound(b, l) /\ SameFlags(b, a) /\ b.pending = {} /\ b.current = a.current
      /\ b.next = a.next \/ b.next = Nobody
  <2>1. Sound(a, l) /\ a.pending = {}
    BY <1>1, <1>3
  <2>2. CASE a.ready
    BY <2>1, <2>2 DEF Sound, SameFlags
  <2>3. CASE ~a.ready
    BY <2>1, <2>3, NoNextSound, NoNextFields DEF Sound
  <2> QED BY <2>2, <2>3
<1> HIDE DEF b
<1>6. Sound(d, l) /\ SameFlags(d, b) /\ SameEntries(d, b) /\ d.pending = {} /\ d.needed = FALSE /\ d.asked = FALSE
  BY <1>5, ClearRequestSound, ClearRequestFields DEF Sound
<1> HIDE DEF d
<1>7. d.current.status = "ended"
  BY <1>1, <1>3, <1>5, <1>6 DEF SameEntries
<1>8. Sound(u, l)
  BY <1>4, <1>6, <1>7, PhaseSound DEF Phase
<1>9. u.phase = "stopped" /\ u.owner = d.owner /\ SameEntries(u, d) /\ SameRequest(u, d) /\ u.pending = d.pending
  BY <1>4, <1>6, PhaseFields DEF Phase, SameFlags
<1> QED BY <1>1, <1>3, <1>5, <1>6, <1>7, <1>8, <1>9 DEF SameFlags, SameEntries, SameRequest, u

(* What TrackStarted makes of the record before it is reported as playing. *)
Shifted(t, current) ==
  IF t.current.serial # current
  THEN Attempt([EndCurrent(FinishOperation(t, t.current)) EXCEPT !.next = Nobody], t.next)
  ELSE IF t.current.status # "preparing"
       THEN Attempt(EndCurrent(t), [t.current EXCEPT !.op = "none"])
       ELSE t

LEMMA ShiftedRecord ==
  ASSUME NEW t, NEW l \in Nat, Sound(t, l), NEW current \in Nat, Follows(t, current)
  PROVE  LET u == Shifted(t, current) IN
         /\ SameFlags(u, t) /\ SameRequest(u, t) /\ u.ready = t.ready /\ u.open = 1
         /\ u.current.serial = current
         /\ OpOf(u.current) \in {OpOf(t.next)} \cup {OpOf(t.current)} \cup {[entry |-> current, op |-> "none"]}
         /\ t.current.serial # current =>
              u.next = Nobody /\ u.current = t.next /\ u.pending = t.pending \ {OpOf(t.current)}
         /\ t.current.serial = current =>
              /\ u.next = t.next /\ u.pending = t.pending /\ u.current.ref = t.current.ref
              /\ t.current.status = "preparing" => u.current = t.current
              /\ t.current.status # "preparing" => OpOf(u.current) = [entry |-> current, op |-> "none"]
<1> DEFINE u == Shifted(t, current)
<1>0. t \in Record /\ t.current \in SessionEntry /\ t.next \in SessionEntry
  BY DEF Sound, Record
<1>1. CASE t.current.serial # current
  <2> DEFINE P == t.pending \ {OpOf(t.current)}
             a == [t EXCEPT !.pending = P]
             b == EndCurrent(a)
             c == [b EXCEPT !.next = Nobody]
  <2>0. u = Attempt(c, t.next)
    <3>1. FinishOperation(t, t.current) = a
      BY <1>0 DEF FinishOperation, Record
    <3> QED BY <1>1, <3>1 DEF Shifted
  <2>1. P \in SUBSET Operation /\ P \subseteq t.pending
    BY <1>0 DEF Record
  <2>2. Sound(a, l) /\ SameFlags(a, t) /\ SameEntries(a, t) /\ SameRequest(a, t) /\ a.pending = P
    BY <1>0, <2>1, PendingSound, PendingFields
  <2> HIDE DEF a
  <2>3. OpOf(a.current) \notin a.pending
    BY <2>2 DEF SameEntries
  <2>4. Sound(b, l) /\ b.open = 0 /\ SameFlags(b, a) /\ SameRequest(b, a) /\ b.pending = P /\ b.ready = a.ready
    <3>1. a \in Record
      BY <2>2 DEF Sound
    <3> QED BY <2>2, <2>3, <3>1, EndCurrentSound, EndCurrentFields
  <2> HIDE DEF b
  <2>5. /\ SameFlags(c, b) /\ SameRequest(c, b) /\ c.pending = b.pending /\ c.ready = b.ready
        /\ c.open = b.open /\ c.next = Nobody
    BY <2>4, NobodyType DEF Sound, Record, SameFlags, SameRequest
  <2> HIDE DEF c
  <2>6. c \in Record
    BY <2>5 DEF SameFlags
  <2>7. /\ SameFlags(u, c) /\ SameRequest(u, c) /\ u.pending = c.pending
        /\ u.next = c.next /\ u.ready = c.ready /\ u.current = t.next /\ u.open = c.open + 1
    BY <1>0, <2>0, <2>6, AttemptFields
  <2> HIDE DEF u
  <2>8. t.next.serial = current
    BY <1>1 DEF Follows
  <2>9. /\ SameFlags(u, t) /\ SameRequest(u, t) /\ u.ready = t.ready /\ u.open = 1
        /\ u.next = Nobody /\ u.current = t.next /\ u.pending = P
    BY <2>2, <2>4, <2>5, <2>7 DEF SameFlags, SameRequest, SameEntries
  <2> QED BY <1>1, <2>8, <2>9 DEF u
<1>2. CASE t.current.serial = current /\ t.current.status # "preparing"
  <2> DEFINE a == EndCurrent(t)
             e == [t.current EXCEPT !.op = "none"]
  <2>0. u = Attempt(a, e)
    BY <1>2 DEF Shifted
  <2>1. /\ e \in SessionEntry /\ e.serial = current /\ e.op = "none" /\ e.ref = t.current.ref
    BY <1>0, <1>2 DEF SessionEntry
  <2>2. OpOf(t.current) \notin t.pending
    BY <1>2 DEF Sound
  <2>3. /\ a \in Record /\ a.open = 0 /\ SameFlags(a, t) /\ SameRequest(a, t) /\ a.pending = t.pending
        /\ a.next = t.next /\ a.ready = t.ready
    BY <1>0, <2>2, EndCurrentSound, EndCurrentFields DEF SameFlags
  <2> HIDE DEF a, e
  <2>4. /\ SameFlags(u, a) /\ SameRequest(u, a) /\ u.pending = a.pending
        /\ u.next = a.next /\ u.ready = a.ready /\ u.current = e /\ u.open = a.open + 1
    BY <2>0, <2>1, <2>3, AttemptFields
  <2> HIDE DEF u
  <2>5. /\ SameFlags(u, t) /\ SameRequest(u, t) /\ u.ready = t.ready /\ u.open = 1
        /\ u.next = t.next /\ u.current = e /\ u.pending = t.pending
    BY <2>3, <2>4 DEF SameFlags, SameRequest
  <2>6. OpOf(e) = [entry |-> current, op |-> "none"]
    BY <2>1 DEF OpOf
  <2> QED BY <1>2, <2>1, <2>5, <2>6 DEF u
<1>3. CASE t.current.serial = current /\ t.current.status = "preparing"
  <2>1. u = t
    BY <1>3 DEF Shifted
  <2>2. t.open = 1
    BY <1>3 DEF Sound
  <2> HIDE DEF u
  <2> QED BY <1>0, <1>3, <2>1, <2>2 DEF SameFlags, SameRequest, u
<1> QED BY <1>1, <1>2, <1>3

StartedParts(u, t, l, current, advanced, heard) ==
  /\ Sound(u, l) /\ u.phase = "active" /\ u.owner = t.owner
  /\ u.current.serial = current /\ u.current.status = "playing" /\ u.current.submitted = TRUE
  /\ t.current.serial # current => u.next = Nobody /\ u.pending = {}
  /\ t.current.serial = current => u.next = t.next /\ u.pending = t.pending \ {OpOf(t.current)}
  /\ u.ready = (t.ready /\ ~advanced)
  /\ u.current.ref = IF t.current.serial # current THEN t.next.ref ELSE t.current.ref
  /\ \E v : Sound(v, l) /\ u = RequestNext(v, heard) /\ ~v.needed

LEMMA TrackStartedRecord ==
  ASSUME NEW t, NEW l \in Nat, Sound(t, l), NEW current \in Nat, Follows(t, current), current <= l,
         NEW advanced \in BOOLEAN, t.current.serial # current => advanced, NEW heard \in BOOLEAN
  PROVE  StartedParts(TrackStarted(t, current, advanced, heard), t, l, current, advanced, heard)
<1> DEFINE a == Shifted(t, current)
           b == [a EXCEPT !.phase = "active", !.current.status = "playing",
                          !.current.submitted = TRUE, !.ready = @ /\ ~advanced]
           c == ClearRequest(b)
           P == c.pending \ {OpOf(b.current)}
           d == FinishOperation(c, b.current)
           u == TrackStarted(t, current, advanced, heard)
<1>0. u = RequestNext(d, heard)
  BY DEF TrackStarted, Shifted
<1>1. /\ SameFlags(a, t) /\ SameRequest(a, t) /\ a.ready = t.ready /\ a.open = 1
      /\ a.current.serial = current
      /\ t.current.serial # current =>
           a.next = Nobody /\ a.current = t.next /\ a.pending = t.pending \ {OpOf(t.current)}
      /\ t.current.serial = current =>
           /\ a.next = t.next /\ a.pending = t.pending /\ a.current.ref = t.current.ref
           /\ t.current.status = "preparing" => a.current = t.current
           /\ t.current.status # "preparing" => OpOf(a.current) = [entry |-> current, op |-> "none"]
  BY ShiftedRecord
<1> HIDE DEF a
<1>2. a \in Record /\ a.current \in SessionEntry
  BY <1>1 DEF SameFlags, Record
<1> DEFINE e == [a.current EXCEPT !.status = "playing", !.submitted = TRUE]
<1>3. /\ e \in SessionEntry /\ e.status = "playing" /\ e.submitted = TRUE /\ e.serial = current
      /\ e.op = a.current.op /\ e.ref = a.current.ref
  BY <1>1, <1>2 DEF SessionEntry
<1>4. /\ b \in Record /\ b.phase = "active" /\ b.owner = a.owner /\ b.started = a.started /\ b.eoq = a.eoq
      /\ b.current = e /\ b.next = a.next /\ b.open = a.open /\ b.pending = a.pending
      /\ b.ready = (a.ready /\ ~advanced)
  <2> DEFINE r == a.ready /\ ~advanced
           x == [a EXCEPT !.phase = "active", !.current = e, !.ready = r]
  <2>1. b = x
    BY <1>2 DEF Record
  <2>2. r \in BOOLEAN
    OBVIOUS
  <2>3. ASSUME NEW y \in BOOLEAN, NEW f \in SessionEntry
        PROVE  LET z == [a EXCEPT !.phase = "active", !.current = f, !.ready = y] IN
               /\ z \in Record /\ z.phase = "active" /\ z.owner = a.owner /\ z.started = a.started
               /\ z.eoq = a.eoq /\ z.current = f /\ z.next = a.next /\ z.open = a.open
               /\ z.pending = a.pending /\ z.ready = y
    BY <1>2 DEF Record, Phase
  <2> HIDE DEF e, b, r
  <2>4. /\ x \in Record /\ x.phase = "active" /\ x.owner = a.owner /\ x.started = a.started
        /\ x.eoq = a.eoq /\ x.current = e /\ x.next = a.next /\ x.open = a.open
        /\ x.pending = a.pending /\ x.ready = r
    BY <1>3, <2>2, <2>3
  <2> HIDE DEF x
  <2> QED BY <2>1, <2>4 DEF r
<1> HIDE DEF e, b
<1>5. SameFlags(c, b) /\ SameEntries(c, b) /\ c.pending = b.pending /\ c.needed = FALSE /\ c.asked = FALSE
  BY <1>4, ClearRequestFields
<1> HIDE DEF c
<1>6. c \in Record /\ P \in SUBSET Operation
  BY <1>5 DEF SameFlags, Record
<1>7. SameFlags(d, c) /\ SameEntries(d, c) /\ SameRequest(d, c) /\ d.pending = P
  BY <1>6, PendingFields DEF FinishOperation
<1> HIDE DEF d
<1>8. OpOf(e) = OpOf(a.current)
  BY <1>1, <1>3 DEF OpOf
<1>9. /\ t.current.serial # current => P = {}
      /\ t.current.serial = current => P = t.pending \ {OpOf(t.current)}
  <2>1. P = a.pending \ {OpOf(a.current)}
    BY <1>4, <1>5, <1>8
  <2> HIDE DEF P
  <2>2. CASE t.current.serial # current
    BY <1>1, <2>1, <2>2 DEF Sound
  <2>3. CASE t.current.serial = current /\ t.current.status = "preparing"
    BY <1>1, <2>1, <2>3
  <2>4. CASE t.current.serial = current /\ t.current.status # "preparing"
    <3>1. OpOf(a.current) \notin t.pending /\ OpOf(t.current) \notin t.pending
      BY <1>1, <2>4 DEF Sound, Record, Operation
    <3> QED BY <1>1, <2>1, <2>4, <3>1
  <2> QED BY <2>2, <2>3, <2>4
<1> HIDE DEF P
<1>10. /\ d \in Record /\ d.phase = "active" /\ d.owner = t.owner /\ d.started = t.started
       /\ d.current = e /\ d.next = a.next /\ d.open = 1 /\ d.pending = P
       /\ d.ready = (t.ready /\ ~advanced) /\ d.needed = FALSE /\ d.asked = FALSE
  BY <1>1, <1>4, <1>5, <1>7 DEF SameFlags, SameEntries, SameRequest
<1>11. Sound(d, l)
  <2>1. current # NoSerial /\ HasCurrent(t)
    BY DEF NoSerial, Follows
  <2>2. CASE t.current.serial # current
    <3>1. d.ready = FALSE /\ P = {} /\ d.next = Nobody /\ t.started
      BY <1>1, <1>9, <1>10, <2>1, <2>2 DEF Sound
    <3> QED BY <1>3, <1>10, <2>1, <3>1, NobodyType DEF Sound, HasCurrent, HasNext, NoSerial
  <2>3. CASE t.current.serial = current
    <3>1. OpOf(e) \notin P
      <4>1. CASE t.current.status = "preparing"
        BY <1>1, <1>8, <1>9, <2>3, <4>1
      <4>2. CASE t.current.status # "preparing"
        BY <1>1, <1>8, <1>9, <2>3, <4>2 DEF Sound, Record, Operation
      <4> QED BY <4>1, <4>2
    <3>2. \A o \in P : o = OpOf(t.next)
      BY <1>9, <2>3 DEF Sound
    <3>3. (d.ready => t.ready) /\ OpOf(d.next) = OpOf(t.next) /\ d.next = t.next /\ P \subseteq t.pending
      BY <1>1, <1>9, <1>10, <2>3
    <3> QED BY <1>3, <1>10, <2>1, <2>3, <3>1, <3>2, <3>3 DEF Sound, HasCurrent, HasNext
  <2> QED BY <2>2, <2>3
<1> HIDE DEF u
<1>12. Sound(u, l)
  BY <1>0, <1>11, RequestNextSound
<1>13. SameFlags(u, d) /\ SameEntries(u, d) /\ u.pending = d.pending
  BY <1>0, <1>10, RequestNextFields
<1>14. \E v : Sound(v, l) /\ u = RequestNext(v, heard) /\ ~v.needed
  BY <1>0, <1>10, <1>11
<1>15. /\ u.phase = "active" /\ u.owner = t.owner /\ u.current = e /\ u.next = a.next
       /\ u.pending = P /\ u.ready = (t.ready /\ ~advanced)
  BY <1>10, <1>13 DEF SameFlags, SameEntries
<1> QED BY <1>1, <1>3, <1>9, <1>12, <1>14, <1>15 DEF u, StartedParts

-----------------------------------------------------------------------------
(* Places of a sequence: the n-th of them is there, and it is the only one. *)
Rank(places, i) == Cardinality({j \in places : j <= i})

LEMMA RankOf ==
  ASSUME NEW N \in Nat, NEW places \in SUBSET (1..N)
  PROVE  /\ IsFiniteSet(places) /\ Cardinality(places) \in Nat
         /\ \A i \in places : Rank(places, i) \in 1..Cardinality(places)
         /\ \A i, k \in places : i < k => Rank(places, i) < Rank(places, k)
<1>1. IsFiniteSet(places) /\ Cardinality(places) \in Nat
  <2>1. IsFiniteSet(1..N)
    BY FS_Interval
  <2>2. IsFiniteSet(places)
    BY <2>1, FS_Subset
  <2> QED BY <2>2, FS_CardinalityType
<1>2. ASSUME NEW i \in places
      PROVE  LET T == {j \in places : j <= i} IN
             IsFiniteSet(T) /\ Cardinality(T) \in Nat /\ Cardinality(T) <= Cardinality(places) /\ i \in T
  <2> DEFINE T == {j \in places : j <= i}
  <2>1. T \in SUBSET places /\ i \in T
    OBVIOUS
  <2> HIDE DEF T
  <2>2. IsFiniteSet(T) /\ Cardinality(T) <= Cardinality(places) /\ Cardinality(T) \in Nat
    BY <1>1, <2>1, FS_Subset, FS_CardinalityType
  <2> QED BY <2>1, <2>2 DEF T
<1>3. ASSUME NEW i \in places PROVE Rank(places, i) \in 1..Cardinality(places)
  <2> DEFINE T == {j \in places : j <= i}
  <2>1. IsFiniteSet(T) /\ Cardinality(T) \in Nat /\ Cardinality(T) <= Cardinality(places) /\ T # {}
    BY <1>2
  <2>2. Rank(places, i) = Cardinality(T)
    BY DEF Rank
  <2> HIDE DEF T
  <2>3. Cardinality(T) # 0
    BY <2>1, FS_EmptySet
  <2> QED BY <1>1, <2>1, <2>2, <2>3
<1>4. ASSUME NEW i \in places, NEW k \in places, i < k
      PROVE  Rank(places, i) < Rank(places, k)
  <2> DEFINE T == {j \in places : j <= i}
             U == {j \in places : j <= k}
  <2>1. T \in SUBSET U /\ k \in U /\ k \notin T
    <3>1. i \in Nat /\ k \in Nat /\ places \subseteq Nat
      OBVIOUS
    <3>2. \A j \in places : j <= i => j <= k
      BY <1>4, <3>1
    <3>3. ~(k <= i) /\ k <= k
      BY <1>4, <3>1
    <3> QED BY <3>2, <3>3
  <2>2. IsFiniteSet(T) /\ Cardinality(T) \in Nat /\ IsFiniteSet(U) /\ Cardinality(U) \in Nat
    BY <1>2
  <2>3. Rank(places, i) = Cardinality(T) /\ Rank(places, k) = Cardinality(U)
    BY DEF Rank
  <2> HIDE DEF T, U
  <2>4. Cardinality(T) <= Cardinality(U) /\ (Cardinality(U) = Cardinality(T) => U = T)
    BY <2>1, <2>2, FS_Subset
  <2> QED BY <2>1, <2>2, <2>3, <2>4
<1> QED BY <1>1, <1>3, <1>4

LEMMA RankReached ==
  ASSUME NEW N \in Nat, NEW places \in SUBSET (1..N), NEW n \in 1..Cardinality(places)
  PROVE  \E i \in places : Rank(places, i) = n
<1> DEFINE c == Cardinality(places)
           f == [i \in places |-> Rank(places, i)]
           T == (1..c) \ {n}
<1>1. /\ IsFiniteSet(places) /\ c \in Nat
      /\ \A i \in places : Rank(places, i) \in 1..c
      /\ \A i, k \in places : i < k => Rank(places, i) < Rank(places, k)
  BY RankOf
<1>2. IsFiniteSet(T) /\ Cardinality(T) = c - 1
  <2>1. IsFiniteSet(1..c) /\ Cardinality(1..c) = c
    BY <1>1, FS_Interval
  <2>2. n \in 1..c
    OBVIOUS
  <2> HIDE DEF c
  <2> QED BY <2>1, <2>2, FS_RemoveElement
<1> SUFFICES ASSUME \A i \in places : Rank(places, i) # n PROVE FALSE
  OBVIOUS
<1>3. f \in [places -> T]
  BY <1>1
<1>4. PICK i \in places, k \in places : i # k /\ f[i] = f[k]
  <2> HIDE DEF f, T
  <2>1. Cardinality(T) < Cardinality(places)
    BY <1>1, <1>2
  <2> HIDE DEF c
  <2> QED BY <1>1, <1>2, <1>3, <2>1, FS_PigeonHole
<1>5. i < k \/ k < i
  BY <1>4
<1>6. Rank(places, i) = Rank(places, k)
  BY <1>4
<1> QED BY <1>1, <1>5, <1>6

(* Selected has the elements at the places, each once and in order.        *)
LEMMA SelectedParts ==
  ASSUME NEW S, NEW q \in Seq(S), NEW places \in SUBSET (1..Len(q))
  PROVE  /\ Selected(q, places) \in Seq(S)
         /\ Len(Selected(q, places)) = Cardinality(places) /\ Cardinality(places) \in Nat
         /\ \A n \in 1..Cardinality(places) :
              \E i \in places : Rank(places, i) = n /\ Selected(q, places)[n] = q[i]
         /\ \A i \in places : /\ Rank(places, i) \in 1..Cardinality(places)
                              /\ Selected(q, places)[Rank(places, i)] = q[i]
<1> DEFINE c == Cardinality(places)
           at(n) == CHOOSE i \in places : Rank(places, i) = n
           u == Selected(q, places)
<1>0. Len(q) \in Nat /\ \A i \in 1..Len(q) : q[i] \in S
  BY LenProperties
<1>1. /\ c \in Nat
      /\ \A i \in places : Rank(places, i) \in 1..c
      /\ \A i, k \in places : i < k => Rank(places, i) < Rank(places, k)
  BY <1>0, RankOf
<1>2. ASSUME NEW n \in 1..c PROVE at(n) \in places /\ Rank(places, at(n)) = n
  BY <1>0, RankReached
<1>3. u = [n \in 1..c |-> q[at(n)]]
  BY DEF Selected, Rank
<1> HIDE DEF c, at, u
<1>4. u \in [1..c -> S]
  BY <1>0, <1>2, <1>3
<1>5. u \in Seq(S) /\ Len(u) = c
  BY <1>1, <1>4, SeqOfFunction
<1>6. ASSUME NEW i \in places PROVE u[Rank(places, i)] = q[i]
  <2>1. Rank(places, i) \in 1..c
    BY <1>1
  <2>2. at(Rank(places, i)) \in places /\ Rank(places, at(Rank(places, i))) = Rank(places, i)
    BY <1>2, <2>1
  <2>3. at(Rank(places, i)) = i
    <3> DEFINE k == at(Rank(places, i))
    <3>0. k \in places /\ Rank(places, k) = Rank(places, i)
      BY <2>2
    <3> HIDE DEF k
    <3>1. k \in places /\ Rank(places, k) = Rank(places, i) /\ k \in Nat /\ i \in Nat
      BY <1>0, <3>0
    <3>2. Rank(places, i) \in Int
      BY <1>1, <2>1
    <3>3. ~(i < k) /\ ~(k < i)
      BY <1>1, <3>1, <3>2
    <3>4. i = k
      BY <3>1, <3>3
    <3> QED BY <3>4 DEF k
  <2> QED BY <1>3, <2>1, <2>3
<1>7. \A n \in 1..c : \E i \in places : Rank(places, i) = n /\ u[n] = q[i]
  BY <1>2, <1>3
<1> QED BY <1>1, <1>5, <1>6, <1>7 DEF c, u

-----------------------------------------------------------------------------
(* The account: every method keeps its type, and most keep its status.     *)
SameAccount(m, n) ==
  m \in Account /\ m.status = n.status /\ m.order = n.order /\ m.changed = n.changed

LEMMA MoveAccount ==
  ASSUME NEW n \in Account, NEW o \in Occurrence, NEW d \in Disposition
  PROVE  SameAccount(Move(n, o, d), n)
<1>1. [n.disposition EXCEPT ![o] = d] \in [Occurrence -> Disposition]
  BY DEF Account
<1>2. ASSUME NEW f \in [Occurrence -> Disposition]
      PROVE  SameAccount([n EXCEPT !.disposition = f], n)
  BY DEF Account, SameAccount
<1>3. Move(n, o, d) = [n EXCEPT !.disposition = [n.disposition EXCEPT ![o] = d]]
  BY DEF Move, Account
<1> QED BY <1>1, <1>2, <1>3

LEMMA StatusAccount ==
  ASSUME NEW n \in Account, NEW t \in Status
  PROVE  LET m == [n EXCEPT !.status = t] IN
         m \in Account /\ m.status = t /\ m.order = n.order /\ m.changed = n.changed
                       /\ m.disposition = n.disposition /\ m.next = n.next
BY DEF Account

LEMMA SelfAccount == ASSUME NEW n \in Account PROVE SameAccount(n, n)
BY DEF SameAccount

LEMMA MovedAccount ==
  ASSUME NEW n \in Account, NEW o \in Occurrence
  PROVE  /\ SameAccount(Queue(n, o), n) /\ SameAccount(WithdrawQueued(n, o), n)
         /\ SameAccount(Submit(n, o), n) /\ SameAccount(Indeterminate(n, o), n)
<1>1. SameAccount(Queue(n, o), n)
  BY MoveAccount, SelfAccount DEF Queue, Disposition
<1>2. SameAccount(WithdrawQueued(n, o), n)
  BY MoveAccount, SelfAccount DEF WithdrawQueued, Unqueue, Disposition
<1>3. SameAccount(Submit(n, o), n)
  BY MoveAccount, SelfAccount DEF Submit, Disposition
<1>4. SameAccount(Indeterminate(n, o), n)
  BY MoveAccount, SelfAccount DEF Indeterminate, Disposition
<1> QED BY <1>1, <1>2, <1>3, <1>4

LEMMA StartedAccount ==
  ASSUME NEW n \in Account, NEW ref \in Ref
  PROVE  SameAccount(Started(n, ref), n)
<1>1. CASE n.status \in {"none", "prepared", "restored", "detached"}
  BY <1>1, SelfAccount DEF Started
<1>2. CASE n.status \notin {"none", "prepared", "restored", "detached"} /\ ref \in Occurrence
  BY <1>2, MoveAccount, SelfAccount DEF Started, Disposition
<1>3. CASE n.status \notin {"none", "prepared", "restored", "detached"} /\ ref \notin Occurrence
  <2>1. CASE ref \in SourceRow /\ n.status # "conflicted"
    <3>1. ref + 1 \in 1..(SourceCount + 1)
      BY <2>1, LedgerAssumption DEF SourceRow
    <3>2. ASSUME NEW r \in 1..(SourceCount + 1) PROVE SameAccount([n EXCEPT !.next = r], n)
      BY DEF Account, SameAccount
    <3>3. Started(n, ref) = [n EXCEPT !.next = ref + 1]
      BY <1>3, <2>1 DEF Started
    <3> QED BY <3>1, <3>2, <3>3
  <2>2. CASE ~(ref \in SourceRow /\ n.status # "conflicted")
    BY <1>3, <2>2, SelfAccount DEF Started
  <2> QED BY <2>1, <2>2
<1> QED BY <1>1, <1>2, <1>3

LEMMA ContextAccount ==
  /\ NoContext \in Account /\ NoContext.status = "none"
  /\ \A row \in SourceRow, items \in Seq(Occurrence) :
       Prepared(row, items) \in Account /\ Prepared(row, items).status = "prepared"
<1>1. NoContext \in Account /\ NoContext.status = "none"
  <2>1. <<>> \in Seq(Occurrence)
    BY EmptySeq
  <2>2. [o \in Occurrence |-> "discarded"] \in [Occurrence -> Disposition]
    BY DEF Disposition
  <2>3. 1 \in SourceRow /\ 1 \in 1..(SourceCount + 1) /\ "none" \in Status
    BY LedgerAssumption DEF SourceRow, Status
  <2> QED BY <2>1, <2>2, <2>3 DEF NoContext, Account
<1>2. ASSUME NEW row \in SourceRow, NEW items \in Seq(Occurrence)
      PROVE  Prepared(row, items) \in Account /\ Prepared(row, items).status = "prepared"
  <2> DEFINE f == [o \in Occurrence |-> IF \E i \in DOMAIN items : items[i] = o THEN "pending" ELSE "discarded"]
  <2>1. f \in [Occurrence -> Disposition]
    BY DEF Disposition
  <2>2. row + 1 \in 1..(SourceCount + 1) /\ "prepared" \in Status
    BY LedgerAssumption DEF SourceRow, Status
  <2>3. Prepared(row, items) = [status |-> "prepared", current |-> row, next |-> row + 1,
                                order |-> items, changed |-> {}, disposition |-> f]
    BY DEF Prepared
  <2> HIDE DEF f
  <2> QED BY <2>1, <2>2, <2>3 DEF Account
<1> QED BY <1>1, <1>2

LEMMA StatusMethods ==
  ASSUME NEW n \in Account
  PROVE  /\ Adopt(n) \in Account
         /\ Adopt(n).status = IF n.status = "prepared" THEN "managed" ELSE n.status
         /\ Conflict(n) \in Account
         /\ Conflict(n).status = IF n.status \in {"none", "restored", "detached"} THEN n.status ELSE "conflicted"
         /\ Detach(n) \in Account
         /\ Detach(n).status = IF n.status \in {"none", "restored"} THEN n.status ELSE "detached"
         /\ DiscardPrepared(n) \in Account
         /\ DiscardPrepared(n).status = IF n.status = "prepared" THEN "none" ELSE n.status
         /\ PlanRestore(n) \in Account
         /\ PlanRestore(n).status = IF CanRestore(n) THEN "restoring" ELSE n.status
         /\ FinishRestore(n) \in Account
         /\ FinishRestore(n).status \in {n.status, "restored"}
<1>1. n.status \in Status
  BY DEF Account
<1>2. {"managed", "conflicted", "detached", "restoring", "restored"} \subseteq Status
  BY DEF Status
<1>3. /\ Adopt(n) \in Account
      /\ Adopt(n).status = IF n.status = "prepared" THEN "managed" ELSE n.status
  BY <1>2, StatusAccount DEF Adopt
<1>4. /\ Conflict(n) \in Account
      /\ Conflict(n).status = IF n.status \in {"none", "restored", "detached"} THEN n.status ELSE "conflicted"
  BY <1>1, <1>2, StatusAccount DEF Conflict
<1>5. /\ Detach(n) \in Account
      /\ Detach(n).status = IF n.status \in {"none", "restored"} THEN n.status ELSE "detached"
  BY <1>1, <1>2, StatusAccount DEF Detach
<1>6. /\ DiscardPrepared(n) \in Account
      /\ DiscardPrepared(n).status = IF n.status = "prepared" THEN "none" ELSE n.status
  BY ContextAccount DEF DiscardPrepared
<1>7. /\ PlanRestore(n) \in Account
      /\ PlanRestore(n).status = IF CanRestore(n) THEN "restoring" ELSE n.status
  BY <1>2, StatusAccount DEF PlanRestore
<1>8. /\ FinishRestore(n) \in Account
      /\ FinishRestore(n).status \in {n.status, "restored"}
  BY <1>2, StatusAccount DEF FinishRestore
<1> QED BY <1>3, <1>4, <1>5, <1>6, <1>7, <1>8

LEMMA RestoredAccount ==
  ASSUME NEW n \in Account, NEW given
  PROVE  SameAccount(Restored(n, given), n)
<1> DEFINE plan == SubSeq(Remaining(n), 1, given)
           f == [o \in Occurrence |-> IF \E i \in DOMAIN plan : plan[i] = o THEN "restored" ELSE n.disposition[o]]
<1>1. f \in [Occurrence -> Disposition]
  BY DEF Account, Disposition
<1>2. ASSUME NEW g \in [Occurrence -> Disposition]
      PROVE  SameAccount([n EXCEPT !.disposition = g], n)
  BY DEF Account, SameAccount
<1>3. Restored(n, given) = [n EXCEPT !.disposition = f]
  BY DEF Restored, Account
<1> HIDE DEF f
<1> QED BY <1>1, <1>2, <1>3

LEMMA EditedAccount ==
  ASSUME NEW n \in Account, NEW retained \in Seq(Occurrence)
  PROVE  CommitEdit(n, retained) \in Account /\ CommitEdit(n, retained).status = n.status
<1> DEFINE f == [o \in Occurrence |->
                  IF n.disposition[o] = "pending" /\ o \notin Kept(retained) THEN "discarded" ELSE n.disposition[o]]
<1>1. f \in [Occurrence -> Disposition]
  BY DEF Account, Disposition
<1>2. ASSUME NEW g \in [Occurrence -> Disposition]
      PROVE  LET m == [n EXCEPT !.order = retained, !.disposition = g] IN
             m \in Account /\ m.status = n.status
  BY DEF Account
<1>3. CASE ~CanEdit(n, retained) \/ Withdrawals(n, retained) # {}
  BY <1>3 DEF CommitEdit
<1>4. CASE ~(~CanEdit(n, retained) \/ Withdrawals(n, retained) # {})
  <2> DEFINE m == [n EXCEPT !.order = retained, !.disposition = f]
  <2>1. CommitEdit(n, retained) = m
    BY <1>4 DEF CommitEdit, Account
  <2> HIDE DEF f
  <2>2. m \in Account /\ m.status = n.status
    BY <1>1, <1>2
  <2> HIDE DEF m
  <2> QED BY <2>1, <2>2
<1> QED BY <1>3, <1>4

LEMMA ChangedAccount ==
  ASSUME NEW n \in Account, NEW change \in Change
  PROVE  LET m == [n EXCEPT !.changed = @ \cup {change}] IN m \in Account /\ m.status = n.status
BY DEF Account

LEMMA RemainingParts ==
  ASSUME NEW n \in Account
  PROVE  Remaining(n) \in Seq(Occurrence) /\ Len(Remaining(n)) \in Nat
<1> DEFINE places == {i \in DOMAIN n.order : Editable(n, n.order[i])}
<1>1. n.order \in Seq(Occurrence)
  BY DEF Account
<1>2. DOMAIN n.order = 1..Len(n.order)
  BY <1>1, LenProperties
<1>3. places \in SUBSET (1..Len(n.order))
  BY <1>2
<1>4. Remaining(n) = Selected(n.order, places)
  BY DEF Remaining
<1> HIDE DEF places
<1>5. Selected(n.order, places) \in Seq(Occurrence)
  BY <1>1, <1>3, SelectedParts
<1> QED BY <1>4, <1>5, LenProperties

LEMMA GivableParts ==
  ASSUME NEW n \in Account
  PROVE  Givable(n) \in 0..Len(Remaining(n))
<1> DEFINE kept == {i \in DOMAIN Remaining(n) : n.disposition[Remaining(n)[i]] # "pending"}
<1>1. Len(Remaining(n)) \in Nat /\ DOMAIN Remaining(n) = 1..Len(Remaining(n))
  BY RemainingParts, LenProperties
<1>2. CASE kept = {}
  BY <1>1, <1>2 DEF Givable
<1>3. CASE kept # {}
  <2>1. kept \in SUBSET (Nat \ {0}) /\ kept \subseteq 1..Len(Remaining(n))
    BY <1>1
  <2> DEFINE k == CHOOSE i \in kept : \A j \in kept : i <= j
  <2>2. Givable(n) = k - 1
    BY <1>3 DEF Givable
  <2> HIDE DEF kept
  <2>3. \E i \in kept : \A j \in kept : i <= j
    BY <1>3, <2>1, LeastOf
  <2>4. k \in kept
    BY <2>3
  <2> HIDE DEF k
  <2> QED BY <1>1, <2>1, <2>2, <2>4
<1> QED BY <1>2, <1>3

-----------------------------------------------------------------------------
(* Rows of the shadow playlist and the places they are found at.            *)
LEMMA RowOfParts ==
  ASSUME NEW l, NEW L \in Seq(0..l), NEW e
  PROVE  /\ Len(L) \in Nat /\ DOMAIN L = 1..Len(L)
         /\ RowOf(L, e) # NoRow => RowOf(L, e) \in 1..Len(L) /\ L[RowOf(L, e)] = e /\ e # NoEntry
         /\ RowOf(L, e) = NoRow => e = NoEntry \/ \A i \in 1..Len(L) : L[i] # e
         /\ LastRowOf(Table(L), e) # NoRow => LastRowOf(Table(L), e) \in 1..Len(L)
         /\ CurrentInsertPosition(Table(L), e, Len(L)) \in 0..Len(L)
<1> DEFINE tb == Table(L)
           own == OwnRows(tb, e)
<1>1. Len(L) \in Nat /\ DOMAIN L = 1..Len(L)
  BY LenProperties
<1>2. tb.rows = [i \in DOMAIN L |-> Row(L[i], "Single", "handle")] /\ tb.stale = FALSE
  BY DEF Table, Reset
<1>3. own = IF e = NoEntry THEN {} ELSE {i \in DOMAIN L : L[i] = e}
  <2>1. DOMAIN tb.rows = DOMAIN L /\ \A i \in DOMAIN L : tb.rows[i].entry = L[i]
    BY <1>2 DEF Row
  <2> HIDE DEF tb
  <2> QED BY <1>2, <2>1 DEF OwnRows
<1>4. own \in SUBSET (1..Len(L)) /\ own \in SUBSET (Nat \ {0})
  BY <1>1, <1>3
<1>5. FirstRowOf(tb, e) = IF own = {} THEN NoRow ELSE CHOOSE i \in own : \A j \in own : i <= j
  BY DEF FirstRowOf
<1>6. LastRowOf(tb, e) = IF own = {} THEN NoRow ELSE CHOOSE i \in own : \A j \in own : j <= i
  BY DEF LastRowOf
<1>7. own # {} => FirstRowOf(tb, e) \in own /\ LastRowOf(tb, e) \in own
  <2> HIDE DEF own, tb
  <2>1. own # {} => \E i \in own : \A j \in own : i <= j
    BY <1>4, LeastOf
  <2>2. own # {} => \E i \in own : \A j \in own : j <= i
    BY <1>1, <1>4, GreatestOf
  <2> QED BY <1>5, <1>6, <2>1, <2>2
<1>8. own = {} => FirstRowOf(tb, e) = NoRow /\ LastRowOf(tb, e) = NoRow
  BY <1>5, <1>6
<1>9. RowOf(L, e) = FirstRowOf(tb, e)
  BY DEF RowOf
<1>10. CurrentInsertPosition(tb, e, Len(L)) = IF FirstRowOf(tb, e) = NoRow THEN Len(L) ELSE FirstRowOf(tb, e) - 1
  BY DEF CurrentInsertPosition
<1> HIDE DEF own
<1>11. CASE own = {}
  BY <1>1, <1>3, <1>8, <1>9, <1>10, <1>11
<1>12. CASE own # {}
  <2>1. FirstRowOf(tb, e) \in 1..Len(L) /\ LastRowOf(tb, e) \in 1..Len(L) /\ e # NoEntry /\ L[FirstRowOf(tb, e)] = e
    BY <1>1, <1>3, <1>4, <1>7, <1>12
  <2> HIDE DEF tb
  <2>2. FirstRowOf(tb, e) # NoRow
    BY <1>1, <2>1 DEF NoRow
  <2>3. CurrentInsertPosition(tb, e, Len(L)) \in 0..Len(L)
    BY <1>1, <1>10, <2>1, <2>2
  <2> QED BY <1>1, <1>9, <2>1, <2>2, <2>3 DEF tb
<1> QED BY <1>11, <1>12

-----------------------------------------------------------------------------
(* The steps posted to the main thread.                                    *)
Elements(q) == {q[i] : i \in DOMAIN q}
OnceEach(q) == \A i, j \in DOMAIN q : q[i].kind \in AddKinds /\ q[i] = q[j] => i = j

LEMMA WithoutParts ==
  ASSUME NEW q \in Seq(Waiting), NEW kinds
  PROVE  /\ Without(q, kinds) \in Seq(Waiting)
         /\ Elements(Without(q, kinds)) = {x \in Elements(q) : x.kind \notin kinds}
         /\ OnceEach(q) => OnceEach(Without(q, kinds))
<1> DEFINE places == {i \in DOMAIN q : q[i].kind \notin kinds}
           w == Without(q, kinds)
           c == Cardinality(places)
<1>1. DOMAIN q = 1..Len(q) /\ Len(q) \in Nat
  BY LenProperties
<1>2. places \in SUBSET (1..Len(q))
  BY <1>1
<1>3. w = Selected(q, places)
  BY DEF Without
<1>4. \A i \in DOMAIN q : i \in places <=> q[i].kind \notin kinds
  OBVIOUS
<1> HIDE DEF places, w
<1>5. /\ w \in Seq(Waiting) /\ Len(w) = c /\ c \in Nat
      /\ \A n \in 1..c : \E i \in places : Rank(places, i) = n /\ w[n] = q[i]
      /\ \A i \in places : Rank(places, i) \in 1..c /\ w[Rank(places, i)] = q[i]
  BY <1>2, <1>3, SelectedParts
<1> HIDE DEF c
<1>6. DOMAIN w = 1..c
  BY <1>5, LenProperties
<1>7. Elements(w) = {x \in Elements(q) : x.kind \notin kinds}
  <2>1. ASSUME NEW n \in 1..c PROVE w[n] \in Elements(q) /\ w[n].kind \notin kinds
    <3>1. PICK i \in places : w[n] = q[i]
      BY <1>5
    <3> QED BY <1>1, <1>2, <1>4, <3>1 DEF Elements
  <2>2. ASSUME NEW i \in DOMAIN q, q[i].kind \notin kinds PROVE q[i] \in Elements(w)
    <3>1. Rank(places, i) \in 1..c /\ w[Rank(places, i)] = q[i]
      BY <1>4, <1>5, <2>2
    <3> QED BY <1>6, <3>1 DEF Elements
  <2> QED BY <1>6, <2>1, <2>2 DEF Elements
<1>8. ASSUME OnceEach(q) PROVE OnceEach(w)
  <2> SUFFICES ASSUME NEW n \in 1..c, NEW m \in 1..c, w[n].kind \in AddKinds, w[n] = w[m]
               PROVE  n = m
    BY <1>6 DEF OnceEach
  <2>1. PICK i \in places : Rank(places, i) = n /\ w[n] = q[i]
    BY <1>5
  <2>2. PICK k \in places : Rank(places, k) = m /\ w[m] = q[k]
    BY <1>5
  <2>3. i = k
    BY <1>1, <1>2, <1>8, <2>1, <2>2 DEF OnceEach
  <2> QED BY <2>1, <2>2, <2>3
<1> QED BY <1>5, <1>7, <1>8 DEF w

LEMMA AppendParts ==
  ASSUME NEW q \in Seq(Waiting), NEW x \in Waiting
  PROVE  /\ Append(q, x) \in Seq(Waiting) /\ Elements(Append(q, x)) = Elements(q) \cup {x}
         /\ OnceEach(q) /\ (x.kind \in AddKinds => x \notin Elements(q)) => OnceEach(Append(q, x))
<1> DEFINE w == Append(q, x)
           n == Len(q)
<1>1. n \in Nat /\ DOMAIN q = 1..n
  BY LenProperties
<1>2. /\ w \in Seq(Waiting) /\ Len(w) = n + 1
      /\ \A i \in 1..n : w[i] = q[i]
      /\ w[n + 1] = x
  BY AppendProperties
<1>3. DOMAIN w = 1..(n + 1)
  BY <1>2, LenProperties
<1> HIDE DEF w, n
<1>4. \A i \in 1..(n + 1) : i \in 1..n \/ i = n + 1
  BY <1>1
<1>5. \A i \in 1..n : i \in 1..(n + 1) /\ i # n + 1
  BY <1>1
<1>6. n + 1 \in 1..(n + 1)
  BY <1>1
<1>7. Elements(w) = Elements(q) \cup {x}
  <2>1. ASSUME NEW i \in 1..(n + 1) PROVE w[i] \in Elements(q) \cup {x}
    BY <1>1, <1>2, <1>4 DEF Elements
  <2>2. ASSUME NEW i \in 1..n PROVE q[i] \in Elements(w)
    BY <1>2, <1>3, <1>5 DEF Elements
  <2>3. x \in Elements(w)
    BY <1>2, <1>3, <1>6 DEF Elements
  <2> QED BY <1>1, <1>3, <2>1, <2>2, <2>3 DEF Elements
<1>8. ASSUME OnceEach(q), x.kind \in AddKinds => x \notin Elements(q) PROVE OnceEach(w)
  <2> SUFFICES ASSUME NEW i \in 1..(n + 1), NEW j \in 1..(n + 1), w[i].kind \in AddKinds, w[i] = w[j]
               PROVE  i = j
    BY <1>3 DEF OnceEach
  <2>1. CASE i \in 1..n /\ j \in 1..n
    BY <1>1, <1>2, <1>8, <2>1 DEF OnceEach
  <2>2. CASE i \in 1..n /\ j = n + 1
    BY <1>1, <1>2, <1>8, <2>2 DEF Elements
  <2>3. CASE i = n + 1 /\ j \in 1..n
    BY <1>1, <1>2, <1>8, <2>3 DEF Elements
  <2> QED BY <1>4, <2>1, <2>2, <2>3
<1> QED BY <1>2, <1>7, <1>8 DEF w

LEMMA TailParts ==
  ASSUME NEW q \in Seq(Waiting), q # <<>>
  PROVE  /\ Tail(q) \in Seq(Waiting) /\ Head(q) \in Waiting
         /\ Elements(q) = Elements(Tail(q)) \cup {Head(q)}
         /\ OnceEach(q) => /\ OnceEach(Tail(q))
                           /\ Head(q).kind \in AddKinds => Head(q) \notin Elements(Tail(q))
<1> DEFINE w == Tail(q)
           n == Len(q)
<1>1. n \in Nat /\ n # 0 /\ DOMAIN q = 1..n /\ \A i \in 1..n : q[i] \in Waiting
  BY LenProperties, EmptySeq
<1>2. w \in Seq(Waiting) /\ Len(w) = n - 1 /\ \A i \in 1..(n - 1) : w[i] = q[i + 1]
  <2>1. w \in Seq(Waiting) /\ Len(w) = n - 1 /\ \A i \in 1..Len(w) : w[i] = q[i + 1]
    BY HeadTailProperties, Zenon
  <2> HIDE DEF w, n
  <2> QED BY <1>1, <2>1
<1>3. Head(q) = q[1]
  OBVIOUS
<1>4. DOMAIN w = 1..(n - 1)
  BY <1>2, LenProperties
<1> HIDE DEF w, n
<1>5. 1 \in 1..n /\ \A i \in 1..(n - 1) : i + 1 \in 1..n /\ i + 1 # 1
  BY <1>1
<1>6. \A i \in 1..n : i # 1 => i - 1 \in 1..(n - 1) /\ (i - 1) + 1 = i
  BY <1>1
<1>7. Elements(q) = Elements(w) \cup {Head(q)}
  <2>1. ASSUME NEW i \in 1..n PROVE q[i] \in Elements(w) \cup {Head(q)}
    <3>1. CASE i = 1
      BY <1>3, <3>1
    <3>2. CASE i # 1
      <4>1. i - 1 \in 1..(n - 1) /\ w[i - 1] = q[i]
        BY <1>2, <1>6, <3>2
      <4> QED BY <1>4, <4>1 DEF Elements
    <3> QED BY <3>1, <3>2
  <2>2. ASSUME NEW i \in 1..(n - 1) PROVE w[i] \in Elements(q)
    BY <1>1, <1>2, <1>5 DEF Elements
  <2>3. Head(q) \in Elements(q)
    BY <1>1, <1>3, <1>5 DEF Elements
  <2> QED BY <1>1, <1>4, <2>1, <2>2, <2>3 DEF Elements
<1>8. ASSUME OnceEach(q)
      PROVE  OnceEach(w) /\ (Head(q).kind \in AddKinds => Head(q) \notin Elements(w))
  <2>1. ASSUME NEW i \in 1..(n - 1), NEW j \in 1..(n - 1), w[i].kind \in AddKinds, w[i] = w[j]
        PROVE  i = j
    <3>1. i + 1 \in 1..n /\ j + 1 \in 1..n /\ q[i + 1] = w[i] /\ q[j + 1] = w[j]
      BY <1>2, <1>5
    <3>2. i + 1 = j + 1
      BY <1>1, <1>8, <2>1, <3>1 DEF OnceEach
    <3> QED BY <3>2
  <2>2. ASSUME NEW i \in 1..(n - 1), q[1].kind \in AddKinds, w[i] = q[1] PROVE FALSE
    <3>1. i + 1 \in 1..n /\ i + 1 # 1 /\ q[i + 1] = q[1]
      BY <1>2, <1>5, <2>2
    <3> QED BY <1>1, <1>5, <1>8, <2>2, <3>1 DEF OnceEach
  <2>3. OnceEach(w)
    BY <1>4, <2>1 DEF OnceEach
  <2> QED BY <1>3, <1>4, <2>2, <2>3 DEF Elements
<1>9. Head(q) \in Waiting
  BY <1>1, <1>3, <1>5
<1> QED BY <1>2, <1>7, <1>8, <1>9 DEF w

-----------------------------------------------------------------------------
(* The player's tracks when rows go, and the queue.                         *)
LEMMA OccurrencesApart == NoRef \notin Occurrence /\ \A r \in SourceRow : r \notin Occurrence /\ r # NoRef
BY LedgerAssumption DEF SourceRow, NoRef

LEMMA NoTrackType ==
  /\ NoTrack \in Tracks /\ Nothing \in Tracks /\ NoTrack # Nothing
  /\ NoTrack.list = "none" /\ Nothing.list = "end" /\ NoTrack.row = 0 /\ Nothing.row = 0
BY DEF NoTrack, Nothing, Track, Tracks, NoRow, NoRef

Settled(track) == track.list \in {"none", "end"} => track \in {NoTrack, Nothing}

LEMMA ShrunkTrack ==
  ASSUME NEW track \in Tracks, NEW n \in Nat, track.list = "shadow" => track.row <= n,
         NEW first \in 1..(n + 1), NEW last \in (first - 1)..n
  PROVE  LET x == Shrunk(track, first, last) IN
         /\ x \in Tracks /\ x.list = track.list
         /\ x.list = "shadow" => x.row <= n - (last - first + 1)
         /\ (x = NoTrack) <=> (track = NoTrack)
         /\ Settled(track) => Settled(x)
         /\ track.row = NoRow => x.row = NoRow
<1> DEFINE x == Shrunk(track, first, last)
<1>1. CASE track.list # "shadow" \/ track.row < first
  <2>1. x = track
    BY <1>1 DEF Shrunk
  <2>2. track.list = "shadow" => track.row <= n - (last - first + 1)
    BY <1>1 DEF Tracks
  <2> QED BY <2>1, <2>2
<1>2. CASE ~(track.list # "shadow" \/ track.row < first)
  <2> DEFINE r == IF track.row <= last THEN NoRow ELSE track.row - (last - first + 1)
  <2>1. x = [track EXCEPT !.row = r]
    BY <1>2 DEF Shrunk
  <2>2. r \in Nat /\ r <= n - (last - first + 1)
    BY <1>2 DEF NoRow, Tracks
  <2> HIDE DEF x, r
  <2>3. x \in Tracks /\ x.list = "shadow" /\ x.row = r
    BY <1>2, <2>1, <2>2 DEF Tracks
  <2>4. track.row # NoRow
    BY <1>2 DEF Tracks, NoRow
  <2> QED BY <1>2, <2>2, <2>3, <2>4, NoTrackType DEF Settled, x
<1> QED BY <1>1, <1>2

QueueTracks == {track \in Tracks : track.list \notin {"none", "end"}}

LEMMA CutQueue ==
  ASSUME NEW S, NEW q \in Seq(S), NEW i \in 1..Len(q)
  PROVE  Cut(q, i, i) \in Seq(S)
BY CutParts DEF Cut

LEMMA QueueWithdrawnType ==
  ASSUME queue \in Seq(QueueTracks)
  PROVE  QueueWithdrawn \in Seq(QueueTracks)
<1>1. TicketPlaces \subseteq 1..Len(queue) /\ Len(queue) \in Nat
  BY LenProperties DEF TicketPlaces
<1>2. CASE TicketPlaces # {}
  <2> DEFINE k == CHOOSE i \in TicketPlaces : \A j \in TicketPlaces : i <= j
  <2>1. k \in TicketPlaces
    <3>1. TicketPlaces \in SUBSET (Nat \ {0})
      BY <1>1
    <3>2. \E i \in TicketPlaces : \A j \in TicketPlaces : i <= j
      BY <1>2, <3>1, LeastOf
    <3> QED BY <3>2
  <2>2. QueueWithdrawn = Cut(queue, k, k)
    BY <1>2 DEF QueueWithdrawn
  <2> HIDE DEF k
  <2> QED BY <1>1, <2>1, <2>2, CutQueue
<1> QED BY <1>2 DEF QueueWithdrawn

LEMMA RequeuedType ==
  ASSUME NEW q \in Seq(QueueTracks), NEW l \in 0..MaxEntry, NEW L \in Seq(0..l)
  PROVE  Requeued(q, L) \in Seq(QueueTracks)
<1> DEFINE places == {i \in DOMAIN q : q[i].list # "shadow" \/ q[i].row \in DOMAIN L}
           there == Selected(q, places)
<1>1. places \in SUBSET (1..Len(q))
  BY LenProperties
<1> HIDE DEF places
<1>2. there \in Seq(QueueTracks) /\ Len(there) \in Nat /\ DOMAIN there = 1..Len(there)
      /\ Len(there) = Cardinality(places)
      /\ \A n \in 1..Cardinality(places) : \E i \in places : there[n] = q[i]
  BY <1>1, SelectedParts, LenProperties
<1>3. \A i \in DOMAIN there : there[i] \in QueueTracks
      /\ (there[i].list = "shadow" => there[i].row \in 1..Len(L) /\ L[there[i].row] \in 0..l)
  <2> SUFFICES ASSUME NEW i \in DOMAIN there
               PROVE  there[i] \in QueueTracks
                      /\ (there[i].list = "shadow" => there[i].row \in 1..Len(L) /\ L[there[i].row] \in 0..l)
    OBVIOUS
  <2>1. PICK k \in places : there[i] = q[k]
    BY <1>2
  <2>2. k \in 1..Len(q) /\ q[k] \in QueueTracks
    BY <1>1, LenProperties
  <2>3. q[k].list = "shadow" => q[k].row \in DOMAIN L
    BY DEF places
  <2>4. DOMAIN L = 1..Len(L) /\ \A n \in 1..Len(L) : L[n] \in 0..l
    BY LenProperties
  <2> HIDE DEF there
  <2> QED BY <2>1, <2>2, <2>3, <2>4
<1> DEFINE f == [i \in DOMAIN there |->
                   IF there[i].list = "shadow" THEN QueuedRow(there[i].row, L[there[i].row]) ELSE there[i]]
<1>4. Requeued(q, L) = f
  BY DEF Requeued, places
<1>5. f \in [1..Len(there) -> QueueTracks]
  <2> SUFFICES ASSUME NEW i \in DOMAIN there
               PROVE  (IF there[i].list = "shadow" THEN QueuedRow(there[i].row, L[there[i].row]) ELSE there[i])
                      \in QueueTracks
    BY <1>2
  <2> HIDE DEF there
  <2>1. there[i] \in QueueTracks
        /\ (there[i].list = "shadow" => there[i].row \in 1..Len(L) /\ L[there[i].row] \in 0..l)
    BY <1>3
  <2>2. CASE there[i].list = "shadow"
    <3>1. \A r \in Nat, e \in 0..l : QueuedRow(r, e) \in QueueTracks
      BY SessionAssumption DEF QueuedRow, Track, QueueTracks, Tracks, NoRef
    <3>2. there[i].row \in Nat
      BY <2>1 DEF QueueTracks, Tracks
    <3> QED BY <2>1, <2>2, <3>1, <3>2
  <2> QED BY <2>1, <2>2
<1> QED BY <1>2, <1>4, <1>5, SeqOfFunction

(* What is done with the account while the ticket is withdrawn.             *)
LEMMA NativeWithdrawnAccount ==
  ASSUME native \in Account, ticket.of \in {NoRef} \cup Occurrence
  PROVE  SameAccount(NativeWithdrawn, native)
<1>1. CASE ticket.of = NoRef
  BY <1>1 DEF NativeWithdrawn, SameAccount
<1>2. CASE ticket.of \in Occurrence
  BY <1>2, MovedAccount, OccurrencesApart DEF NativeWithdrawn
<1> QED BY <1>1, <1>2

LEMMA MarkSubmittedAccount ==
  ASSUME NEW n \in Account, NEW e
  PROVE  SameAccount(MarkSubmitted(n, e), n)
<1> DEFINE ref == IF s.current.serial = e THEN s.current.ref
                  ELSE IF s.next.serial = e THEN s.next.ref ELSE NoRef
<1>1. CASE ref \in Occurrence
  <2>1. MarkSubmitted(n, e) = Submit(n, ref)
    BY <1>1 DEF MarkSubmitted
  <2> HIDE DEF ref
  <2> QED BY <1>1, <2>1, MovedAccount
<1>2. CASE ref \notin Occurrence
  BY <1>2 DEF MarkSubmitted, SameAccount
<1> QED BY <1>1, <1>2

(* What RestoreNativeContext leaves: the account may only be restoring,     *)
(* restored or conflicted if it was open, and keeps its status otherwise.   *)
LEMMA ItemsType ==
  ASSUME NEW n \in Account
  PROVE  /\ Items(n) \in Seq(QueueTracks) /\ Len(Items(n)) = Len(Remaining(n))
         /\ SourceItems(n) \in Seq(QueueTracks)
<1>1. /\ Remaining(n) \in Seq(Occurrence) /\ Len(Remaining(n)) \in Nat
      /\ DOMAIN Remaining(n) = 1..Len(Remaining(n))
      /\ \A i \in 1..Len(Remaining(n)) : Remaining(n)[i] \in Occurrence
  BY RemainingParts, LenProperties
<1>2. \A o \in Occurrence : GivenBack(n, o) \in QueueTracks
  BY DEF GivenBack, QueuedTrack, Track, QueueTracks, Tracks, NoRow
<1>3. Items(n) \in [1..Len(Remaining(n)) -> QueueTracks]
  BY <1>1, <1>2 DEF Items
<1>4. Items(n) \in Seq(QueueTracks) /\ Len(Items(n)) = Len(Remaining(n))
  BY <1>1, <1>3, SeqOfFunction
<1>5. SourceItems(n) \in Seq(QueueTracks)
  <2>1. SourceTrack(n.next) \in QueueTracks
    BY LedgerAssumption DEF SourceTrack, Track, QueueTracks, Tracks, Account
  <2> HIDE DEF QueueTracks
  <2> QED BY <2>1 DEF SourceItems
<1> QED BY <1>4, <1>5

LEMMA PlanAccount ==
  ASSUME NEW n \in Account, CanRestore(n)
  PROVE  /\ \A given : /\ Restored(PlanRestore(n), given) \in Account
                       /\ Restored(PlanRestore(n), given).status = "restoring"
         /\ \A given : /\ FinishRestore(Restored(PlanRestore(n), given)) \in Account
                       /\ FinishRestore(Restored(PlanRestore(n), given)).status \in {"restoring", "restored"}
<1>1. PlanRestore(n) \in Account /\ PlanRestore(n).status = "restoring"
  BY StatusMethods
<1>2. \A given : SameAccount(Restored(PlanRestore(n), given), PlanRestore(n))
  BY <1>1, RestoredAccount
<1>3. \A given : Restored(PlanRestore(n), given) \in Account
                 /\ Restored(PlanRestore(n), given).status = "restoring"
  BY <1>1, <1>2 DEF SameAccount
<1> QED BY <1>3, StatusMethods

LEMMA RestoreContext ==
  ASSUME NEW n \in Account, NEW q \in Seq(QueueTracks), RestoreNativeContext(n, q),
         upsets \in 0..MaxUpsets, list \in {"source", "shadow", "other", "own"}
  PROVE  /\ native' \in Account /\ queue' \in Seq(QueueTracks) /\ upsets' \in 0..MaxUpsets
         /\ list' \in {"source", "shadow", "other", "own"}
         /\ IF Open(n) THEN native'.status \in {n.status, "restoring", "restored", "conflicted"}
            ELSE native' = n
<1> USE SessionAssumption
<1>1. Items(n) \in Seq(QueueTracks) /\ Len(Items(n)) = Len(Remaining(n))
      /\ SourceItems(n) \in Seq(QueueTracks) /\ Len(Items(n)) \in Nat
  BY ItemsType, LenProperties
<1>2. Givable(n) \in 0..Len(Items(n))
  BY <1>1, GivableParts
<1>3. ASSUME NEW k \in 0..Len(Items(n))
      PROVE  q \o SubSeq(Items(n), 1, k) \in Seq(QueueTracks)
  <2>1. SubSeq(Items(n), 1, k) \in Seq(QueueTracks)
    BY <1>1, SubSeqInside
  <2> QED BY <2>1, ConcatProperties
<1>4. ASSUME Restorable(n, q), PlayingFrom(n), UNCHANGED upsets,
             IF Givable(n) = Len(Items(n)) THEN GiveBack(n, q) ELSE GiveBackRefused(n, q)
      PROVE  /\ native' \in Account /\ queue' \in Seq(QueueTracks) /\ upsets' \in 0..MaxUpsets
             /\ list' \in {"source", "shadow", "other", "own"} /\ Open(n)
             /\ native'.status \in {"restoring", "restored"}
  <2>1. Open(n) /\ CanRestore(n)
    BY <1>4 DEF Restorable
  <2>2. native' \in Account /\ native'.status \in {"restoring", "restored"}
    BY <1>4, <2>1, PlanAccount DEF GiveBack, GiveBackRefused
  <2>3. CASE GiveBack(n, q)
    <3>1. q \o Items(n) \in Seq(QueueTracks)
      BY <1>1, ConcatProperties
    <3>2. (q \o Items(n)) \o SourceItems(n) \in Seq(QueueTracks)
      BY <1>1, <3>1, ConcatProperties
    <3> QED BY <1>4, <2>1, <2>2, <2>3, <3>2 DEF GiveBack, PlayingFrom
  <2>4. CASE Givable(n) # Len(Items(n)) /\ GiveBackRefused(n, q)
    <3>1. Givable(n) + 1 \in 0..Len(Items(n))
      BY <1>1, <1>2, <2>4
    <3>2. queue' \in Seq(QueueTracks)
      BY <1>3, <2>4, <3>1 DEF GiveBackRefused
    <3> QED BY <1>4, <2>1, <2>2, <3>2 DEF PlayingFrom
  <2> QED BY <1>4, <2>3, <2>4
<1>5. ASSUME Restorable(n, q), Upset("write"), GiveBackSome(n, q), PlayingFrom(n)
      PROVE  /\ native' \in Account /\ queue' \in Seq(QueueTracks) /\ upsets' \in 0..MaxUpsets
             /\ list' \in {"source", "shadow", "other", "own"} /\ Open(n)
             /\ native'.status \in {"restoring", "restored"}
  <2>1. Open(n) /\ CanRestore(n)
    BY <1>5 DEF Restorable
  <2>2. PICK k \in 0..Givable(n) : /\ native' = Restored(PlanRestore(n), k)
                                   /\ queue' = q \o SubSeq(Items(n), 1, k)
    BY <1>5 DEF GiveBackSome
  <2>3. k \in 0..Len(Items(n))
    BY <1>1, <1>2
  <2>4. queue' \in Seq(QueueTracks)
    BY <1>3, <2>2, <2>3
  <2>5. native' \in Account /\ native'.status = "restoring"
    BY <2>1, <2>2, PlanAccount
  <2>6. upsets' \in 0..MaxUpsets
    BY <1>5 DEF Upset
  <2> QED BY <1>5, <2>1, <2>4, <2>5, <2>6 DEF PlayingFrom
<1>6. ASSUME native' = (IF Open(n) THEN RestoreChecked(n, q) ELSE n), queue' = q, UNCHANGED <<list, upsets>>
      PROVE  /\ native' \in Account /\ queue' \in Seq(QueueTracks) /\ upsets' \in 0..MaxUpsets
             /\ list' \in {"source", "shadow", "other", "own"}
             /\ IF Open(n) THEN native'.status \in {n.status, "restoring", "conflicted"} ELSE native' = n
  <2>1. CASE Open(n)
    <3>1. PlanRestore(n) \in Account /\ (CanRestore(n) => PlanRestore(n).status = "restoring")
      BY StatusMethods
    <3>2. Conflict(n) \in Account /\ Conflict(n).status \in {n.status, "conflicted"}
      BY StatusMethods
    <3>3. Conflict(PlanRestore(n)) \in Account
          /\ Conflict(PlanRestore(n)).status \in {PlanRestore(n).status, "conflicted"}
      BY <3>1, StatusMethods
    <3>4. RestoreChecked(n, q) \in Account
          /\ RestoreChecked(n, q).status \in {n.status, "restoring", "conflicted"}
      BY <3>1, <3>2, <3>3 DEF RestoreChecked
    <3> QED BY <1>6, <2>1, <3>4
  <2> QED BY <1>6, <2>1
<1> QED BY <1>4, <1>5, <1>6 DEF RestoreNativeContext

-----------------------------------------------------------------------------
(* The inductive invariant.  First what every variable may hold: an add    *)
(* that waits is for an entry that was given out, and what the player      *)
(* settled on or has queued is a track it can play.                        *)
Steps == Elements(posted) \cup resolving
InRows(e) == \E i \in DOMAIN rows : rows[i] = e

Slots ==
  /\ load \in [Window -> 0..MaxReload] /\ idle \in BOOLEAN
  /\ lastEntry \in 0..MaxEntry /\ currentEntry \in 0..lastEntry /\ nextEntry \in 0..lastEntry
  /\ rows \in Seq(0..lastEntry)
Threads ==
  /\ posted \in Seq(Waiting) /\ resolving \in SUBSET Waiting
  /\ \A x \in resolving : x.kind \in AddKinds
  /\ \A x \in Steps : x.kind \in AddKinds => x.entry \in 1..lastEntry
Playback ==
  /\ item \in Tracks /\ picked \in Tracks /\ Located(item) /\ Located(picked) /\ Settled(picked)
  /\ phase \in {"stopped", "opening", "playing"} /\ (phase = "stopped" <=> item = NoTrack)
(* A context that was only prepared was so with no row to settle on.        *)
Planned == native.status = "prepared" /\ picked.list = "shadow" => picked.row = NoRow
Queues ==
  /\ list \in {"source", "shadow", "other", "own"} /\ queue \in Seq(QueueTracks)
  /\ ticket \in [row : Nat, entry : 0..MaxEntry, of : {NoRef} \cup Occurrence]
  /\ native \in Account /\ upsets \in 0..MaxUpsets

(* The record: sound, and nobody waits for an answer that was not asked    *)
(* for.  Only documents that were loaded own sessions.                     *)
Answered(t, heard) ==
  /\ t.needed /\ heard => t.asked
  /\ t.phase = "active" /\ HasCurrent(t) /\ t.current.status # "preparing" /\ ~HasNext(t) /\ ~t.eoq
       => t.needed
Owned == s.owner.window \in Window => s.owner.load <= load[s.owner.window]
Recorded == Sound(s, lastEntry) /\ Owned /\ Answered(s, Heard)

(* What the shadow playlist takes to come next is the session's next       *)
(* entry, and while an attempt is being prepared with nothing to follow,   *)
(* a row that could take its place is its own.                             *)
Following == Schedules(s) /\ HasNext(s) => nextEntry = s.next.serial /\ currentEntry # s.next.serial
Replaced ==
  s.phase = "active" /\ s.current.status = "preparing" /\ ~HasNext(s) /\ nextEntry # NoEntry /\ InRows(nextEntry)
    => nextEntry = s.current.serial

(* The waiting adds: each is for an entry of its own that is not in the    *)
(* shadow playlist yet, and a next one is for the session's next entry.    *)
StepsExact ==
  /\ OnceEach(posted)
  /\ \A x \in resolving : x \notin Elements(posted)
  /\ \A x \in Steps : x.kind \in AddKinds =>
       /\ ~InRows(x.entry)
       /\ \A y \in Steps : y.kind \in AddKinds /\ y.entry = x.entry => y = x
       /\ x.kind = "next" => Schedules(s) /\ HasNext(s) /\ x.entry = s.next.serial
       /\ x.kind = "current" => x.entry # nextEntry

Carried ==
  /\ OpOf(s.next) \in s.pending => Step("next", s.next.serial) \in Steps
  /\ OpOf(s.current) \in s.pending =>
       Step("current", s.current.serial) \in Steps \/ (s.current.submitted /\ phase # "stopped")

IInv ==
  /\ Slots /\ Threads /\ Playback /\ Queues /\ Planned
  /\ Recorded /\ Following /\ Replaced /\ StepsExact /\ Carried /\ ReleasedIsGivenBack

-----------------------------------------------------------------------------
(* The waiting steps.                                                      *)
LEMMA WaitingSteps ==
  /\ AddKinds \subseteq SessionKinds /\ "track" \in SessionKinds /\ "restore" \notin SessionKinds
  /\ "track" \notin AddKinds /\ "restore" \notin AddKinds
  /\ \A kind \in SessionKinds \cup {"restore"}, e \in 0..MaxEntry : Step(kind, e) \in Waiting
  /\ AttributionStep \in Waiting /\ RestoringStep \in Waiting
  /\ AttributionStep.kind = "track" /\ RestoringStep.kind = "restore"
BY SessionAssumption DEF AddKinds, SessionKinds, Step, Waiting, AttributionStep, RestoringStep, NoEntry

LEMMA StepsGone ==
  ASSUME posted' \in Seq(Waiting), \A x \in Elements(posted') : x.kind \notin AddKinds, resolving' = {}
  PROVE  Threads' /\ StepsExact'
<1>1. Steps' = Elements(posted')
  BY DEF Steps, Elements
<1>2. OnceEach(posted')
  BY DEF OnceEach, Elements
<1> QED BY <1>1, <1>2 DEF Threads, StepsExact, OnceEach, Elements

LEMMA EndedSteps ==
  ASSUME Threads, EndSession
  PROVE  Threads' /\ StepsExact'
<1>1. /\ Without(posted, SessionKinds) \in Seq(Waiting)
      /\ Elements(Without(posted, SessionKinds)) = {x \in Elements(posted) : x.kind \notin SessionKinds}
  BY WithoutParts DEF Threads
<1>2. \A x \in Elements(posted') : x.kind \notin AddKinds
  BY <1>1, WaitingSteps DEF EndSession
<1> QED BY <1>1, <1>2, StepsGone DEF EndSession

(* Steps are only taken away, and no row is owned by more entries.         *)
LEMMA StepsKept ==
  ASSUME Threads, StepsExact, posted' \in Seq(Waiting), OnceEach(posted'),
         \A x \in Elements(posted') : x.kind \in AddKinds => x \in Elements(posted),
         resolving' \in SUBSET resolving,
         lastEntry \in Nat, lastEntry' \in Nat, lastEntry <= lastEntry',
         \A e \in 1..lastEntry : InRows(e)' => InRows(e),
         nextEntry' \in {nextEntry, NoEntry},
         \A x \in Steps : x.kind = "next" /\ x \in Steps'
           => Schedules(s') /\ HasNext(s') /\ x.entry = s'.next.serial
  PROVE  Threads' /\ StepsExact'
<1>1. Steps' = Elements(posted') \cup resolving'
  BY DEF Steps, Elements
<1>2. \A x \in Steps' : x.kind \in AddKinds => x \in Steps /\ x.entry \in 1..lastEntry
  BY <1>1 DEF Steps, Threads
<1>3. Threads'
  BY <1>1, <1>2 DEF Threads
<1>4. \A x \in resolving' : x \notin Elements(posted')
  BY DEF StepsExact, Threads
<1>5. ASSUME NEW x \in Steps', x.kind \in AddKinds
      PROVE  /\ ~InRows(x.entry)'
             /\ \A y \in Steps' : y.kind \in AddKinds /\ y.entry = x.entry => y = x
             /\ x.kind = "next" => Schedules(s') /\ HasNext(s') /\ x.entry = s'.next.serial
             /\ x.kind = "current" => x.entry # nextEntry'
  <2>1. x \in Steps /\ x.entry \in 1..lastEntry
    BY <1>2, <1>5
  <2>2. ~InRows(x.entry)'
    BY <1>5, <2>1 DEF StepsExact
  <2>3. \A y \in Steps' : y.kind \in AddKinds /\ y.entry = x.entry => y = x
    BY <1>2, <1>5, <2>1 DEF StepsExact
  <2>4. x.kind = "current" => x.entry # nextEntry'
    BY <1>5, <2>1 DEF StepsExact, NoEntry
  <2> QED BY <1>5, <2>1, <2>2, <2>3, <2>4
<1>6. OnceEach(posted)'
  BY DEF OnceEach
<1> QED BY <1>3, <1>4, <1>5, <1>6 DEF StepsExact, Elements

LEMMA InRowsBound ==
  ASSUME Slots
  PROVE  \A e : InRows(e) => e \in 0..lastEntry
BY LenProperties DEF InRows, Slots

(* StartEntry and TakeNext post the add of an entry just given out.         *)
LEMMA StartedSteps ==
  ASSUME NEW e, e = lastEntry + 1, Slots, Threads, lastEntry < MaxEntry, lastEntry' = e, StartEntry(e),
         rows' = rows
  PROVE  /\ Threads' /\ StepsExact' /\ Step("current", e) \in Steps'
         /\ currentEntry' = e /\ nextEntry' = NoEntry /\ idle' = FALSE
<1> DEFINE w == Without(posted, SessionKinds)
           x == Step("current", e)
<1>1. e \in 1..MaxEntry /\ lastEntry \in Nat /\ e > lastEntry
  BY SessionAssumption DEF Slots
<1>2. w \in Seq(Waiting) /\ \A y \in Elements(w) : y.kind \notin SessionKinds
  BY WithoutParts DEF Threads
<1>3. x \in Waiting /\ x.kind = "current" /\ x.entry = e
  BY <1>1, WaitingSteps DEF Step, SessionKinds, AddKinds
<1>4. posted' = Append(w, x) /\ resolving' = {}
      /\ currentEntry' = e /\ nextEntry' = NoEntry /\ idle' = FALSE
  BY DEF StartEntry
<1>5. OnceEach(w)
  BY <1>2, WaitingSteps DEF OnceEach, Elements
<1> HIDE DEF w, x
<1>6. /\ posted' \in Seq(Waiting) /\ Elements(posted') = Elements(w) \cup {x} /\ OnceEach(posted')
  BY <1>2, <1>3, <1>4, <1>5, AppendParts, WaitingSteps
<1>7. Steps' = Elements(w) \cup {x}
  BY <1>4, <1>6 DEF Steps, Elements
<1>8. \A y \in Steps' : y.kind \in AddKinds => y = x
  BY <1>2, <1>7, WaitingSteps
<1>9. ~InRows(e)'
  <2>1. ~InRows(e)
    BY <1>1, InRowsBound
  <2> QED BY <2>1 DEF InRows
<1>10. Threads'
  BY <1>1, <1>3, <1>4, <1>6, <1>8 DEF Threads
<1>11. StepsExact'
  <2>1. OnceEach(posted)'
    BY <1>6 DEF OnceEach
  <2>2. e # NoEntry
    BY <1>1 DEF NoEntry
  <2>3. ~InRows(x.entry)'
    BY <1>3, <1>9
  <2> QED BY <1>3, <1>4, <1>8, <2>1, <2>2, <2>3 DEF StepsExact
<1>12. x \in Steps'
  BY <1>7
<1> QED BY <1>4, <1>10, <1>11, <1>12 DEF x

LEMMA WithoutNext ==
  ASSUME Threads, StepsExact
  PROVE  LET w == Without(posted, {"next"})
             r == {x \in resolving : x.kind # "next"} IN
         /\ w \in Seq(Waiting) /\ OnceEach(w) /\ r \in SUBSET resolving
         /\ \A x : x \in Elements(w) <=> x \in Elements(posted) /\ x.kind # "next"
         /\ \A x \in Elements(w) : x \notin r
BY WithoutParts DEF Threads, StepsExact

LEMMA NextSteps ==
  ASSUME NEW e, e = lastEntry + 1, Slots, Threads, StepsExact, lastEntry < MaxEntry, lastEntry' = e,
         TakeNext(Step("next", e)), \A k \in 1..e : InRows(k)' => InRows(k),
         Schedules(s'), HasNext(s'), s'.next.serial = e, nextEntry' = e
  PROVE  /\ Threads' /\ StepsExact' /\ Step("next", e) \in Steps'
         /\ \A x \in Steps : x.kind = "current" => x \in Steps'
<1> DEFINE w == Without(posted, {"next"})
           r == {y \in resolving : y.kind # "next"}
           x == Step("next", e)
<1>1. e \in 1..MaxEntry /\ lastEntry \in Nat /\ e > lastEntry /\ e \notin 1..lastEntry
  BY SessionAssumption DEF Slots
<1>2. /\ w \in Seq(Waiting) /\ OnceEach(w) /\ r \in SUBSET resolving
      /\ \A y : y \in Elements(w) <=> y \in Elements(posted) /\ y.kind # "next"
      /\ \A y \in Elements(w) : y \notin r
  BY WithoutNext
<1>3. x \in Waiting /\ x.kind = "next" /\ x.entry = e /\ x.kind \in AddKinds
  BY <1>1, WaitingSteps DEF Step, SessionKinds, AddKinds
<1>4. posted' = Append(w, x) /\ resolving' = r
  BY DEF TakeNext
<1>5. \A y \in r : y.kind # "next"
  OBVIOUS
<1>6. \A y \in Steps : y.kind \in AddKinds => y.entry \in 1..lastEntry
  BY DEF Threads
<1>7. s'.next.serial = e /\ nextEntry' = e /\ lastEntry' = e
  OBVIOUS
<1>8. \A k \in 1..e : InRows(k)' => InRows(k)
  OBVIOUS
<1>9. \A y \in resolving : y.kind # "next" => y \in r
  OBVIOUS
<1> HIDE DEF w, x, r
<1>10. /\ posted' \in Seq(Waiting) /\ Elements(posted') = Elements(w) \cup {x} /\ OnceEach(posted')
  BY <1>2, <1>3, <1>4, AppendParts
<1>11. Steps' = Elements(w) \cup {x} \cup r
  BY <1>4, <1>10 DEF Steps, Elements
<1>12. \A y \in Steps' : y = x \/ (y \in Steps /\ y.kind # "next")
  BY <1>2, <1>5, <1>11 DEF Steps
<1>13. x \notin Elements(w) \cup r
  BY <1>2, <1>3, <1>5
<1>14. Threads'
  <2>1. \A y \in Steps' : y.kind \in AddKinds => y.entry \in 1..lastEntry'
    BY <1>1, <1>3, <1>6, <1>7, <1>12
  <2>2. resolving' \in SUBSET Waiting /\ \A y \in resolving' : y.kind \in AddKinds
    BY <1>2, <1>4 DEF Threads
  <2> QED BY <1>10, <2>1, <2>2 DEF Threads
<1>15. StepsExact'
  <2>1. OnceEach(posted)'
    BY <1>10 DEF OnceEach
  <2>2. \A y \in resolving' : y \notin Elements(posted)'
    <3>1. \A y \in resolving' : y \notin Elements(posted')
      BY <1>2, <1>4, <1>10, <1>13
    <3> QED BY <3>1 DEF Elements
  <2>3. ~InRows(e)'
    <3>1. ~InRows(e)
      BY <1>1, InRowsBound
    <3> QED BY <1>1, <1>8, <3>1
  <2>4. ASSUME NEW y \in Steps', y.kind \in AddKinds
        PROVE  /\ ~InRows(y.entry)'
               /\ \A z \in Steps' : z.kind \in AddKinds /\ z.entry = y.entry => z = y
               /\ y.kind = "next" => y.entry = e
               /\ y.kind = "current" => y.entry # e
    <3>1. CASE y = x
      <4>1. ASSUME NEW z \in Steps', z.kind \in AddKinds, z.entry = y.entry PROVE z = y
        <5>1. z.entry = e
          BY <1>3, <3>1, <4>1
        <5>2. ~(z \in Steps)
          BY <1>1, <1>6, <4>1, <5>1
        <5> QED BY <1>12, <3>1, <5>2
      <4> QED BY <1>3, <2>3, <3>1, <4>1
    <3>2. CASE y # x
      <4>1. y \in Steps /\ y.kind # "next" /\ y.entry \in 1..lastEntry /\ y.entry # e
        BY <1>1, <1>6, <1>12, <2>4, <3>2
      <4>2. ~InRows(y.entry)'
        <5>1. ~InRows(y.entry)
          BY <2>4, <4>1 DEF StepsExact
        <5> QED BY <1>1, <1>8, <4>1, <5>1
      <4>3. ASSUME NEW z \in Steps', z.kind \in AddKinds, z.entry = y.entry PROVE z = y
        <5>1. z # x
          BY <1>3, <4>1, <4>3
        <5> QED BY <1>12, <2>4, <4>1, <4>3, <5>1 DEF StepsExact
      <4> QED BY <4>1, <4>2, <4>3
    <3> QED BY <3>1, <3>2
  <2> QED BY <1>7, <2>1, <2>2, <2>4 DEF StepsExact
<1>16. x \in Steps' /\ \A y \in Steps : y.kind = "current" => y \in Steps'
  BY <1>2, <1>9, <1>11 DEF Steps
<1> QED BY <1>14, <1>15, <1>16 DEF x

(* WithdrawNext and a next that is dropped take the live next add back.     *)
LEMMA NextGoneSteps ==
  ASSUME Slots, Threads, StepsExact, UNCHANGED lastEntry,
         posted' = Without(posted, {"next"}), resolving' = {x \in resolving : x.kind # "next"},
         \A e \in 1..lastEntry : InRows(e)' => InRows(e), nextEntry' = NoEntry
  PROVE  Threads' /\ StepsExact' /\ \A x \in Steps : x.kind = "current" => x \in Steps'
<1>1. /\ posted' \in Seq(Waiting) /\ OnceEach(posted') /\ resolving' \in SUBSET resolving
      /\ \A x : x \in Elements(posted') <=> x \in Elements(posted) /\ x.kind # "next"
  BY WithoutNext
<1>2. Steps' = Elements(posted') \cup resolving'
  BY DEF Steps, Elements
<1>3. \A x \in Steps' : x.kind # "next"
  BY <1>1, <1>2
<1>4. lastEntry \in Nat
  BY SessionAssumption DEF Slots
<1>5. Threads' /\ StepsExact'
  BY <1>1, <1>3, <1>4, StepsKept
<1>6. \A x \in Steps : x.kind = "current" => x \in Steps'
  BY <1>1, <1>2 DEF Steps
<1> QED BY <1>5, <1>6

LEMMA HeadTaken ==
  ASSUME Slots, Threads, StepsExact, posted # <<>>, posted' = Tail(posted), UNCHANGED <<lastEntry, resolving>>,
         nextEntry' \in {nextEntry, NoEntry},
         \A e \in 1..lastEntry : InRows(e)' => InRows(e),
         \A x \in Steps : x.kind = "next" /\ x # Head(posted)
           => Schedules(s') /\ HasNext(s') /\ x.entry = s'.next.serial
  PROVE  /\ Threads' /\ StepsExact'
         /\ \A x : x \in Steps' <=> x \in Elements(Tail(posted)) \cup resolving
         /\ \A x \in Steps : x # Head(posted) => x \in Steps'
<1>1. /\ posted' \in Seq(Waiting) /\ OnceEach(posted')
      /\ Elements(posted) = Elements(posted') \cup {Head(posted)}
      /\ Head(posted).kind \in AddKinds => Head(posted) \notin Elements(posted')
  BY TailParts DEF Threads, StepsExact
<1>2. Steps' = Elements(posted') \cup resolving
  BY DEF Steps, Elements
<1>3. lastEntry \in Nat
  BY SessionAssumption DEF Slots
<1>4. Head(posted).kind \in AddKinds => Head(posted) \notin Steps'
  BY <1>1, <1>2 DEF StepsExact
<1>5. \A x \in Steps : x.kind = "next" /\ x \in Steps' => Schedules(s') /\ HasNext(s') /\ x.entry = s'.next.serial
  BY <1>4 DEF AddKinds
<1>6. Threads' /\ StepsExact'
  BY <1>1, <1>3, <1>5, StepsKept
<1>7. \A x \in Steps : x # Head(posted) => x \in Steps'
  BY <1>1, <1>2 DEF Steps
<1> QED BY <1>2, <1>6, <1>7

-----------------------------------------------------------------------------
(* The record.                                                             *)
LEMMA SoundLater ==
  ASSUME NEW t, NEW l \in Nat, NEW m \in Nat, Sound(t, l), l <= m
  PROVE  Sound(t, m)
BY DEF Sound, Record, SessionEntry, NoSerial

LEMMA HeardBoolean == Heard \in BOOLEAN
BY DEF Heard, Alive

LEMMA HeardKept ==
  ASSUME UNCHANGED load, s'.owner = s.owner
  PROVE  Heard' = Heard
BY DEF Heard, Alive, Document

LEMMA AnsweredRequest ==
  ASSUME NEW t, NEW l, Sound(t, l), NEW heard \in BOOLEAN, t.needed /\ heard => t.asked
  PROVE  Answered(RequestNext(t, heard), heard)
<1> DEFINE u == RequestNext(t, heard)
<1>1. /\ SameFlags(u, t) /\ SameEntries(u, t)
      /\ ~(t.phase # "active" \/ ~HasCurrent(t) \/ HasNext(t) \/ t.eoq \/ t.needed)
           => u.needed = TRUE /\ u.asked = heard
      /\ (t.phase # "active" \/ ~HasCurrent(t) \/ HasNext(t) \/ t.eoq \/ t.needed) => u = t
  BY RequestNextFields DEF Sound
<1> HIDE DEF u
<1>2. Answered(u, heard)
  BY <1>1 DEF Answered, SameFlags, SameEntries, HasCurrent, HasNext
<1> QED BY <1>2 DEF u

LEMMA AnsweredNoRequest ==
  ASSUME NEW t, NEW heard, t.needed = FALSE,
         t.phase # "active" \/ HasNext(t) \/ t.current.status = "preparing" \/ ~HasCurrent(t)
  PROVE  Answered(t, heard)
BY DEF Answered

(* The record of a step that leaves the owner and the documents alone.      *)
LEMMA RecordedBy ==
  ASSUME Recorded, UNCHANGED load, s'.owner = s.owner, Sound(s', lastEntry'), Answered(s', Heard)
  PROVE  Recorded'
<1>1. Heard' = Heard
  BY HeardKept
<1>2. Owned'
  BY DEF Recorded, Owned
<1>3. Answered(s, Heard)'
  BY <1>1
<1>4. Sound(s, lastEntry)'
  OBVIOUS
<1> QED BY <1>2, <1>3, <1>4 DEF Recorded

LEMMA RecordedSame ==
  ASSUME Recorded, UNCHANGED <<load, s, lastEntry>>
  PROVE  Recorded'
<1>1. Recorded => Sound(s, lastEntry) /\ Answered(s, Heard)
  BY DEF Recorded
<1> QED BY <1>1, RecordedBy

(* An entry nobody stands for is not pending, and nothing is pending while  *)
(* the session has no current entry or is not active.                       *)
LEMMA PendingOf ==
  ASSUME NEW t, NEW l, Sound(t, l)
  PROVE  /\ \A o \in t.pending : o.entry \in 1..MaxEntry /\ o \in Operation /\ t.phase = "active"
         /\ OpOf(t.next) \in t.pending => HasNext(t) /\ t.next.op = "add"
         /\ OpOf(t.current) \in t.pending => HasCurrent(t) /\ t.current.status = "preparing"
         /\ ~HasCurrent(t) \/ t.phase # "active" => t.pending = {}
         /\ \A o \in t.pending : o = OpOf(t.current) \/ o = OpOf(t.next)
         /\ HasNext(t) => HasCurrent(t) /\ OpOf(t.next) # OpOf(t.current)
<1>1. \A o \in t.pending : o.entry \in 1..MaxEntry /\ o \in Operation
  BY DEF Sound, Record, Operation
<1>2. \A o \in t.pending : o = OpOf(t.current) \/ o = OpOf(t.next)
  BY DEF Sound
<1>3. \A o \in t.pending : t.phase = "active"
  BY DEF Sound
<1>4. OpOf(t.next).entry = t.next.serial /\ OpOf(t.current).entry = t.current.serial
  BY DEF OpOf
<1>5. NoSerial \notin 1..MaxEntry
  BY DEF NoSerial
<1>6. OpOf(t.next) \in t.pending => HasNext(t)
  BY <1>1, <1>4, <1>5 DEF HasNext
<1>7. OpOf(t.current) \in t.pending => HasCurrent(t)
  BY <1>1, <1>4, <1>5 DEF HasCurrent
<1>8. HasNext(t) => HasCurrent(t) /\ t.current.serial < t.next.serial /\ t.next.op = "add"
  BY DEF Sound
<1>9. OpOf(t.current) \in t.pending => t.current.status = "preparing"
  BY DEF Sound
<1>10. HasNext(t) => OpOf(t.next) # OpOf(t.current)
  <2>1. t.current.serial \in Int /\ t.next.serial \in Int
    BY SessionAssumption DEF Sound, Record, SessionEntry, NoSerial
  <2> QED BY <1>4, <1>8, <2>1
<1>11. ~HasCurrent(t) \/ t.phase # "active" => t.pending = {}
  BY <1>2, <1>3, <1>6, <1>7, <1>8
<1> QED BY <1>1, <1>2, <1>3, <1>6, <1>7, <1>8, <1>9, <1>10, <1>11

-----------------------------------------------------------------------------
(* Steps of the contract.                                                   *)
KeepsContract == Contract!Next \/ UNCHANGED Contract!vars
Seen(p) == IF p = "legacy" THEN "stopped" ELSE p
AttemptOf(t) == IF t.current.status = "ended" THEN "closed" ELSE t.current.status

LEMMA SeenAttempt ==
  ASSUME NEW t, NEW l, Sound(t, l)
  PROVE  (IF t.open # (IF t.current.status = "ended" THEN 0 ELSE 1) THEN "miscounted"
          ELSE IF t.current.status = "ended" THEN "closed" ELSE t.current.status) = AttemptOf(t)
BY DEF Sound, AttemptOf

LEMMA ContractSame ==
  ASSUME Sound(s, lastEntry), Sound(s', lastEntry'),
         s'.phase = s.phase, s'.pending = s.pending, s'.current.status = s.current.status
  PROVE  KeepsContract
<1>1. OpenAttempt = AttemptOf(s) /\ OpenAttempt' = AttemptOf(s')
  BY SeenAttempt DEF OpenAttempt
<1> QED BY <1>1 DEF KeepsContract, Contract!vars, AttemptOf

LEMMA ContractStutter ==
  ASSUME UNCHANGED s
  PROVE  KeepsContract
BY DEF KeepsContract, Contract!vars, OpenAttempt

LEMMA ContractProgress ==
  ASSUME Sound(s, lastEntry), Sound(s', lastEntry'), s.phase = "active", s'.phase = "active",
         s'.pending \subseteq s.pending, s'.current.status \in {s.current.status, "playing", "ended"}
  PROVE  KeepsContract
<1>1. OpenAttempt = AttemptOf(s) /\ OpenAttempt' = AttemptOf(s')
  BY SeenAttempt DEF OpenAttempt
<1>2. AttemptOf(s') \in {AttemptOf(s), "playing", "closed"}
  BY DEF AttemptOf
<1>3. Contract!Progress
  BY <1>1, <1>2 DEF Contract!Progress
<1> QED BY <1>3 DEF KeepsContract, Contract!Next

LEMMA ContractResume ==
  ASSUME Sound(s, lastEntry), Sound(s', lastEntry'), s.phase = "stopped", s'.phase = "active",
         s'.pending \subseteq s.pending, s'.current.status = "playing"
  PROVE  KeepsContract
<1>1. OpenAttempt' = "playing"
  BY SeenAttempt DEF OpenAttempt, AttemptOf
<1>2. s.pending = {} /\ s'.pending = {}
  BY DEF Sound
<1>3. Contract!Resume
  BY <1>1, <1>2 DEF Contract!Resume
<1> QED BY <1>3 DEF KeepsContract, Contract!Next

LEMMA ContractLeave ==
  ASSUME Sound(s', lastEntry'), s.phase \in {"active", "stopped", "legacy"},
         s'.phase \in {"stopped", "legacy", "released"}
  PROVE  KeepsContract
<1>1. s'.pending = {} /\ s'.current.status = "ended"
  BY DEF Sound
<1>2. OpenAttempt' = "closed"
  BY <1>1, SeenAttempt DEF OpenAttempt, AttemptOf
<1>3. Contract!Leave
  BY <1>1, <1>2 DEF Contract!Leave
<1> QED BY <1>3 DEF KeepsContract, Contract!Next

LEMMA ContractAccept ==
  ASSUME Sound(s, lastEntry), Sound(s', lastEntry'), s.phase \in {"active", "stopped", "legacy"},
         s'.phase = "active", NEW o \in Operation, o \notin s.pending, o \in s'.pending,
         s'.pending \subseteq s.pending \cup {o}, s'.current.status \in {s.current.status, "preparing"}
  PROVE  KeepsContract
<1>1. OpenAttempt = AttemptOf(s) /\ OpenAttempt' = AttemptOf(s')
  BY SeenAttempt DEF OpenAttempt
<1>2. AttemptOf(s') \in {AttemptOf(s), "preparing"}
  BY DEF AttemptOf
<1>3. Contract!Accept(o)
  BY <1>1, <1>2 DEF Contract!Accept
<1> QED BY <1>3 DEF KeepsContract, Contract!Next

-----------------------------------------------------------------------------
(* Steps of the player and of the user that leave the session's record and *)
(* its rows as they are.                                                   *)
SameAdds(p) == \A x : x.kind \in AddKinds => (x \in Elements(p) <=> x \in Elements(posted))

LEMMA PlayerStep ==
  ASSUME IInv, UNCHANGED <<load, s, managerVars, lastEntry, rows, resolving>>,
         posted' \in Seq(Waiting), OnceEach(posted'), SameAdds(posted'),
         Playback', Queues', Planned', phase' # "stopped" \/ phase' = phase,
         Open(native') => Open(native)
  PROVE  IInv' /\ KeepsContract
<1>1. UNCHANGED <<load, s, idle, currentEntry, nextEntry, lastEntry, rows, resolving>>
  BY DEF managerVars
<1>2. Slots /\ Threads /\ Recorded /\ Following /\ Replaced /\ StepsExact /\ Carried /\ ReleasedIsGivenBack
  BY DEF IInv
<1>3. Slots'
  BY <1>1, <1>2 DEF Slots
<1>4. \A e : InRows(e)' <=> InRows(e)
  BY <1>1 DEF InRows
<1>5. Recorded'
  BY <1>1, <1>2, RecordedSame
<1>6. Following' /\ Replaced'
  BY <1>1, <1>2, <1>4 DEF Following, Replaced
<1>7. Threads' /\ StepsExact'
  <2>1. lastEntry \in Nat
    BY <1>2, SessionAssumption DEF Slots
  <2>2. \A x \in Elements(posted') : x.kind \in AddKinds => x \in Elements(posted)
    BY DEF SameAdds
  <2>3. \A x \in Steps : x.kind = "next" => Schedules(s') /\ HasNext(s') /\ x.entry = s'.next.serial
    BY <1>1, <1>2 DEF StepsExact, AddKinds
  <2> QED BY <1>1, <1>2, <1>4, <2>1, <2>2, <2>3, StepsKept
<1>8. \A x \in Steps : x.kind \in AddKinds => x \in Steps'
  <2>1. Steps' = Elements(posted') \cup resolving
    BY <1>1 DEF Steps, Elements
  <2> QED BY <2>1 DEF Steps, SameAdds
<1>9. Carried'
  <2>1. /\ Step("next", s.next.serial) \in Steps => Step("next", s.next.serial) \in Steps'
        /\ Step("current", s.current.serial) \in Steps => Step("current", s.current.serial) \in Steps'
    BY <1>8 DEF Step, AddKinds
  <2> QED BY <1>1, <1>2, <2>1 DEF Carried
<1>10. ReleasedIsGivenBack'
  BY <1>1, <1>2 DEF ReleasedIsGivenBack
<1>11. KeepsContract
  BY <1>1, ContractStutter
<1> QED BY <1>3, <1>5, <1>6, <1>7, <1>9, <1>10, <1>11 DEF IInv

LEMMA SamePosted ==
  ASSUME IInv, UNCHANGED posted
  PROVE  posted' \in Seq(Waiting) /\ OnceEach(posted') /\ SameAdds(posted')
BY DEF IInv, Threads, StepsExact, SameAdds

LEMMA OutdatedAccount ==
  ASSUME native \in Account, Outdated
  PROVE  native' \in Account /\ (Open(native') => Open(native)) /\ native'.status # "prepared"
<1>1. native' \in Account /\ native'.status = IF native.status = "prepared" THEN "none" ELSE native.status
  BY StatusMethods DEF Outdated
<1> QED BY <1>1 DEF Open

LEMMA LocatedKept ==
  ASSUME NEW track, Located(track), UNCHANGED rows
  PROVE  Located(track)'
BY DEF Located

LEMMA NewTrackKeeps ==
  ASSUME IInv, OnPlaybackNewTrack, item' \in Tracks, item' # NoTrack, Located(item)',
         list' \in {"source", "shadow", "other", "own"}
  PROVE  IInv' /\ KeepsContract
<1>1. Threads /\ StepsExact /\ Playback /\ Queues
  BY DEF IInv
<1>2. /\ posted' = Append(Without(posted, {"track"}), AttributionStep)
      /\ phase' = "playing" /\ picked' = NoTrack /\ Outdated
      /\ UNCHANGED <<load, s, ticket, managerVars, lastEntry, rows, resolving, queue, upsets>>
  BY DEF OnPlaybackNewTrack
<1>3. posted' \in Seq(Waiting) /\ OnceEach(posted') /\ SameAdds(posted')
  <2> DEFINE w == Without(posted, {"track"})
  <2>1. /\ w \in Seq(Waiting) /\ OnceEach(w)
        /\ Elements(w) = {x \in Elements(posted) : x.kind \notin {"track"}}
    BY <1>1, WithoutParts DEF Threads, StepsExact
  <2> HIDE DEF w
  <2>2. /\ Append(w, AttributionStep) \in Seq(Waiting) /\ OnceEach(Append(w, AttributionStep))
        /\ Elements(Append(w, AttributionStep)) = Elements(w) \cup {AttributionStep}
    BY <2>1, AppendParts, WaitingSteps
  <2>3. SameAdds(Append(w, AttributionStep))
    BY <2>1, <2>2, WaitingSteps DEF SameAdds
  <2> QED BY <1>2, <2>2, <2>3 DEF w
<1>4. native' \in Account /\ (Open(native') => Open(native)) /\ native'.status # "prepared"
  BY <1>1, <1>2, OutdatedAccount DEF Queues
<1>5. Queues'
  BY <1>1, <1>2, <1>4 DEF Queues
<1>6. Playback'
  BY <1>2, NoTrackType DEF Playback, Settled, Located
<1> QED BY <1>2, <1>3, <1>4, <1>5, <1>6, PlayerStep DEF Planned

LEMMA OpensKeeps ==
  ASSUME IInv, Opens
  PROVE  IInv' /\ KeepsContract
<1>1. item' = item /\ list' = list /\ phase = "opening" /\ OnPlaybackNewTrack /\ UNCHANGED rows
  BY DEF Opens, OnPlaybackNewTrack
<1>2. Playback /\ Queues
  BY DEF IInv
<1>3. item' \in Tracks /\ item' # NoTrack /\ Located(item)' /\ list' \in {"source", "shadow", "other", "own"}
  BY <1>1, <1>2 DEF Playback, Queues, Located
<1> QED BY <1>1, <1>3, NewTrackKeeps

LEMMA NextTrackKeeps ==
  ASSUME IInv, NextTrack
  PROVE  IInv' /\ KeepsContract
<1>1. /\ item' = picked /\ picked \notin {NoTrack, Nothing} /\ OnPlaybackNewTrack /\ UNCHANGED rows
      /\ list' = (IF picked.list = "other" THEN list ELSE picked.list)
  BY DEF NextTrack, OnPlaybackNewTrack
<1>2. Playback /\ Queues
  BY DEF IInv
<1>3. picked.list \in {"source", "shadow", "other", "own"}
  BY <1>1, <1>2 DEF Playback, Settled, Tracks
<1>4. item' \in Tracks /\ item' # NoTrack /\ Located(item)' /\ list' \in {"source", "shadow", "other", "own"}
  BY <1>1, <1>2, <1>3 DEF Playback, Queues, Located
<1> QED BY <1>1, <1>4, NewTrackKeeps

LEMMA TrackOfList ==
  ASSUME Slots, NEW l, NEW track \in TracksOf(l)
  PROVE  /\ track \in Tracks /\ Located(track) /\ track # NoTrack
         /\ track.list \in {"source", "shadow"}
<1>1. \A r \in SourceRow : /\ SourceTrack(r) \in Tracks /\ SourceTrack(r).list = "source"
  BY LedgerAssumption DEF SourceTrack, Track, Tracks, SourceRow
<1>2. \A r \in DOMAIN rows : /\ ShadowTrack(r) \in Tracks /\ ShadowTrack(r).list = "shadow"
                             /\ ShadowTrack(r).row <= Len(rows)
  BY LenProperties DEF ShadowTrack, Track, Tracks, Slots
<1>3. \/ \E r \in SourceRow : track = SourceTrack(r)
      \/ \E r \in DOMAIN rows : track = ShadowTrack(r)
  BY DEF TracksOf
<1> QED BY <1>1, <1>2, <1>3, NoTrackType DEF Located

LEMMA SettlesKeeps ==
  ASSUME IInv, Settles
  PROVE  IInv' /\ KeepsContract
<1>1. Slots /\ Playback /\ Queues
  BY DEF IInv
<1>2. /\ UNCHANGED <<load, s, ticket, managerVars, lastEntry, rows, posted, resolving, item, phase, list, upsets>>
      /\ Outdated
  BY DEF Settles, threadVars
<1>3. /\ picked' \in Tracks /\ Located(picked') /\ Settled(picked') /\ queue' \in Seq(QueueTracks)
  <2>1. CASE queue # <<>>
    <3>1. picked' = Taken(Head(queue)) /\ queue' = Tail(queue)
      BY <2>1 DEF Settles
    <3>2. queue' \in Seq(QueueTracks) /\ Head(queue) \in QueueTracks
      BY <1>1, <2>1, <3>1, HeadTailProperties DEF Queues
    <3>3. QueuedTrack(NoRef) \in QueueTracks /\ QueuedTrack(NoRef).list = "other"
      BY DEF QueuedTrack, Track, QueueTracks, Tracks, NoRow
    <3>4. \A r \in DOMAIN rows : ShadowTrack(r) \in QueueTracks /\ ShadowTrack(r).row <= Len(rows)
      BY <1>1, LenProperties DEF ShadowTrack, Track, QueueTracks, Tracks, Slots
    <3> DEFINE h == Head(queue)
    <3> HIDE DEF h
    <3>5. h \in QueueTracks => Taken(h) \in QueueTracks /\ Located(Taken(h))
      BY <3>3, <3>4 DEF Taken, Located
    <3>6. picked' \in QueueTracks /\ Located(picked')
      BY <3>1, <3>2, <3>5 DEF h
    <3> QED BY <3>2, <3>6 DEF QueueTracks, Settled
  <2>2. CASE queue = <<>>
    <3>1. picked' \in Successors /\ queue' = queue
      BY <2>2 DEF Settles
    <3>2. \E l : picked' \in TracksOf(l) \cup {Nothing}
      BY <3>1 DEF Successors
    <3>3. CASE picked' = Nothing
      BY <1>1, <3>1, <3>3, NoTrackType DEF Queues, Located, Settled
    <3>4. CASE \E l : picked' \in TracksOf(l)
      <4>1. picked' \in Tracks /\ Located(picked') /\ picked'.list \in {"source", "shadow"}
        BY <1>1, <3>4, TrackOfList
      <4> QED BY <1>1, <3>1, <4>1 DEF Queues, Settled
    <3> QED BY <3>2, <3>3, <3>4
  <2> QED BY <2>1, <2>2
<1>4. native' \in Account /\ (Open(native') => Open(native)) /\ native'.status # "prepared"
  BY <1>1, <1>2, OutdatedAccount DEF Queues
<1>5. Playback' /\ Queues'
  BY <1>1, <1>2, <1>3, <1>4 DEF Playback, Queues, Located
<1> QED BY <1>2, <1>4, <1>5, SamePosted, PlayerStep DEF Planned

LEMMA UserPlaysKeeps ==
  ASSUME IInv, UserPlays
  PROVE  IInv' /\ KeepsContract
<1>1. Slots /\ Playback /\ Queues
  BY DEF IInv
<1>2. /\ UNCHANGED <<load, s, ticket, managerVars, lastEntry, rows, posted, resolving>>
      /\ phase' = "opening" /\ picked' = NoTrack /\ queue' = <<>> /\ Outdated /\ Upset("play")
  BY DEF UserPlays, threadVars
<1>3. PICK track \in TracksOf("source") \cup TracksOf("shadow") : item' = track /\ list' = track.list
  BY DEF UserPlays
<1>4. track \in Tracks /\ Located(track) /\ track # NoTrack /\ track.list \in {"source", "shadow"}
  BY <1>1, <1>3, TrackOfList
<1>5. native' \in Account /\ (Open(native') => Open(native)) /\ native'.status # "prepared"
  BY <1>1, <1>2, OutdatedAccount DEF Queues
<1>6. upsets' \in 0..MaxUpsets
  BY <1>1, <1>2, SessionAssumption DEF Queues, Upset
<1>7. Playback'
  BY <1>2, <1>3, <1>4, NoTrackType DEF Playback, Settled, Located
<1>8. Queues'
  <2>1. <<>> \in Seq(QueueTracks)
    BY EmptySeq
  <2> QED BY <1>1, <1>2, <1>3, <1>4, <1>5, <1>6, <2>1 DEF Queues
<1> QED BY <1>2, <1>5, <1>7, <1>8, SamePosted, PlayerStep DEF Planned

LEMMA UserQueuesKeeps ==
  ASSUME IInv, UserQueues
  PROVE  IInv' /\ KeepsContract
<1>1. Slots /\ Playback /\ Queues
  BY DEF IInv
<1>2. /\ UNCHANGED <<load, s, ticket, managerVars, lastEntry, rows, posted, resolving, item, phase, picked, list>>
      /\ queue' = Append(queue, QueuedTrack(NoRef)) /\ Outdated /\ Upset("queue")
  BY DEF UserQueues, threadVars, playerVars
<1>3. queue' \in Seq(QueueTracks)
  <2>1. QueuedTrack(NoRef) \in QueueTracks
    BY DEF QueuedTrack, Track, QueueTracks, Tracks, NoRow
  <2> QED BY <1>1, <1>2, <2>1, AppendProperties DEF Queues
<1>4. native' \in Account /\ (Open(native') => Open(native)) /\ native'.status # "prepared"
  BY <1>1, <1>2, OutdatedAccount DEF Queues
<1>5. upsets' \in 0..MaxUpsets
  BY <1>1, <1>2, SessionAssumption DEF Queues, Upset
<1>6. Playback' /\ Queues'
  BY <1>1, <1>2, <1>3, <1>4, <1>5 DEF Playback, Queues, Located
<1> QED BY <1>2, <1>4, <1>6, SamePosted, PlayerStep DEF Planned

LEMMA UserChangesKeeps ==
  ASSUME IInv, NEW change \in Change, UserChanges(change)
  PROVE  IInv' /\ KeepsContract
<1>1. Slots /\ Playback /\ Queues
  BY DEF IInv
<1>2. /\ UNCHANGED <<load, s, ticket, managerVars, lastEntry, rows, posted, resolving, item, phase, picked, list, queue>>
      /\ Upset(change)
      /\ \/ native.status = "prepared" /\ native' = NoContext
         \/ native.status # "prepared" /\ native' = [native EXCEPT !.changed = @ \cup {change}]
         \/ native.status # "prepared" /\ native' = native
  BY DEF UserChanges, threadVars, playerVars
<1>3. native' \in Account /\ (Open(native') => Open(native)) /\ native'.status # "prepared"
  <2>1. NoContext \in Account /\ ~Open(NoContext) /\ NoContext.status = "none"
    BY ContextAccount DEF Open
  <2>2. LET m == [native EXCEPT !.changed = @ \cup {change}] IN m \in Account /\ m.status = native.status
    BY <1>1, ChangedAccount DEF Queues
  <2>3. Open([native EXCEPT !.changed = @ \cup {change}]) => Open(native)
    BY <2>2 DEF Open
  <2>4. native \in Account
    BY <1>1 DEF Queues
  <2> QED BY <1>2, <2>1, <2>2, <2>3, <2>4
<1>4. upsets' \in 0..MaxUpsets
  BY <1>1, <1>2, SessionAssumption DEF Queues, Upset
<1>5. Playback' /\ Queues'
  BY <1>1, <1>2, <1>3, <1>4 DEF Playback, Queues, Located
<1> QED BY <1>2, <1>3, <1>5, SamePosted, PlayerStep DEF Planned

LEMMA PrepareAdoptionKeeps ==
  ASSUME IInv, PrepareAdoption
  PROVE  IInv' /\ KeepsContract
<1>1. Slots /\ Playback /\ Queues
  BY DEF IInv
<1>2. /\ UNCHANGED <<load, s, ticket, managerVars, lastEntry, rows, posted, resolving, item, phase, picked, list,
                     queue, upsets>>
      /\ \A i \in DOMAIN queue : queue[i].of \in Occurrence
      /\ rows = <<>>
  BY DEF PrepareAdoption, threadVars, playerVars
<1>3. PICK row \in SourceRow : native' = Prepared(row, [i \in DOMAIN queue |-> queue[i].of])
  BY DEF PrepareAdoption
<1>4. native' \in Account /\ native'.status = "prepared"
  <2>1. DOMAIN queue = 1..Len(queue) /\ Len(queue) \in Nat
    BY <1>1, LenProperties DEF Queues
  <2>2. [i \in DOMAIN queue |-> queue[i].of] \in [1..Len(queue) -> Occurrence]
    BY <1>2, <2>1
  <2>3. [i \in DOMAIN queue |-> queue[i].of] \in Seq(Occurrence)
    BY <2>1, <2>2, SeqOfFunction
  <2> QED BY <1>3, <2>3, ContextAccount
<1>5. Playback' /\ Queues'
  BY <1>1, <1>2, <1>4 DEF Playback, Queues, Located
<1>6. Planned'
  <2>1. Len(rows) = 0
    BY <1>2
  <2> QED BY <1>1, <1>2, <2>1 DEF Planned, Playback, Located, Tracks, NoRow
<1> QED BY <1>2, <1>4, <1>5, <1>6, SamePosted, PlayerStep DEF Open

-----------------------------------------------------------------------------
(* The step a user's stop posts.                                           *)
LEMMA RestoreStepKeeps ==
  ASSUME IInv, RestoreStep
  PROVE  IInv' /\ KeepsContract
<1>1. Slots /\ Threads /\ Playback /\ Queues /\ Planned /\ Recorded /\ StepsExact
  BY DEF IInv
<1>2. /\ posted # <<>> /\ Head(posted).kind = "restore" /\ posted' = Tail(posted)
      /\ UNCHANGED <<load, s, managerVars, lastEntry, rows, resolving, item, phase, picked>>
  BY DEF RestoreStep
<1>3. posted' \in Seq(Waiting) /\ OnceEach(posted') /\ SameAdds(posted')
  BY <1>1, <1>2, TailParts, WaitingSteps DEF Threads, StepsExact, SameAdds
<1>4. /\ list' \in {"source", "shadow", "other", "own"} /\ queue' \in Seq(QueueTracks)
      /\ ticket' \in [row : Nat, entry : 0..MaxEntry, of : {NoRef} \cup Occurrence]
      /\ native' \in Account /\ upsets' \in 0..MaxUpsets
      /\ Open(native') => Open(native)
      /\ native'.status = "prepared" => native.status = "prepared"
  <2>1. CASE s.phase \in {"stopped", "legacy"} /\ Open(native)
    <3>1. ticket' = NoTicket /\ RestoreNativeContext(NativeWithdrawn, QueueWithdrawn)
      BY <2>1 DEF RestoreStep
    <3>2. NativeWithdrawn \in Account /\ NativeWithdrawn.status = native.status /\ QueueWithdrawn \in Seq(QueueTracks)
      BY <1>1, NativeWithdrawnAccount, QueueWithdrawnType DEF Queues, SameAccount
    <3>3. NoTicket \in [row : Nat, entry : 0..MaxEntry, of : {NoRef} \cup Occurrence]
      BY SessionAssumption DEF NoTicket, NoRow, NoEntry
    <3>4. Open(NativeWithdrawn)
      BY <2>1, <3>2 DEF Open
    <3>5. /\ native' \in Account /\ queue' \in Seq(QueueTracks) /\ upsets' \in 0..MaxUpsets
          /\ list' \in {"source", "shadow", "other", "own"}
          /\ native'.status \in {NativeWithdrawn.status, "restoring", "restored", "conflicted"}
      BY <1>1, <3>1, <3>2, <3>4, RestoreContext DEF Queues
    <3> QED BY <2>1, <3>1, <3>2, <3>3, <3>5
  <2>2. CASE ~(s.phase \in {"stopped", "legacy"} /\ Open(native))
    <3>1. UNCHANGED <<ticket, native, queue, list, upsets>>
      BY <2>2 DEF RestoreStep
    <3> QED BY <1>1, <3>1 DEF Queues
  <2> QED BY <2>1, <2>2
<1>5. Playback' /\ Queues'
  BY <1>1, <1>2, <1>4 DEF Playback, Queues, Located
<1>6. Planned'
  BY <1>1, <1>2, <1>4 DEF Planned
<1> QED BY <1>2, <1>3, <1>4, <1>5, <1>6, PlayerStep

(* Documents come and go.                                                  *)
LEMMA ReloadKeeps ==
  ASSUME IInv, NEW w \in Window, Reload(w)
  PROVE  IInv' /\ KeepsContract
<1>1. /\ UNCHANGED <<s, native, ticket, idle, currentEntry, nextEntry, lastEntry, rows, posted, resolving,
                     item, phase, picked, list, queue, upsets>>
      /\ load[w] < MaxReload /\ load' = [load EXCEPT ![w] = @ + 1]
  BY DEF Reload, managerVars, threadVars, playerVars
<1>2. IInv => Slots /\ Recorded
  BY DEF IInv
<1>3. /\ load' \in [Window -> 0..MaxReload]
      /\ \A v \in Window : load[v] \in Nat /\ load'[v] = IF v = w THEN load[v] + 1 ELSE load[v]
  BY <1>1, <1>2, SessionAssumption DEF Slots
<1>4. Slots'
  BY <1>1, <1>2, <1>3 DEF Slots
<1>5. Heard' => Heard
  <2>1. HAVE Heard'
  <2>2. s.owner.window \in Window /\ s.owner = [window |-> s.owner.window, load |-> load'[s.owner.window]]
    BY <1>1, <2>1 DEF Heard, Alive, Document
  <2>3. s.owner.load = load'[s.owner.window]
    BY <2>2
  <2>4. s.owner.load <= load[s.owner.window]
    BY <1>2, <2>2 DEF Recorded, Owned
  <2>5. s.owner.window # w
    BY <1>3, <2>2, <2>3, <2>4
  <2> QED BY <1>3, <2>2, <2>5 DEF Heard, Alive, Document
<1>6. Recorded'
  <2>1. Owned'
    <3>1. Owned /\ Sound(s, lastEntry)
      BY <1>2 DEF Recorded
    <3>2. s.owner.load \in Nat
      BY <3>1, SessionAssumption DEF Sound, Record
    <3> QED BY <1>1, <1>3, <3>1, <3>2 DEF Owned
  <2>2. Answered(s, Heard)'
    BY <1>1, <1>2, <1>5 DEF Recorded, Answered, HasCurrent, HasNext
  <2> QED BY <1>1, <1>2, <2>1, <2>2 DEF Recorded
<1>7. (Threads /\ Playback /\ Queues /\ Planned /\ Following /\ Replaced /\ StepsExact /\ Carried /\ ReleasedIsGivenBack)'
  BY <1>1 DEF IInv, Threads, Playback, Queues, Planned, Following, Replaced, StepsExact, Carried, ReleasedIsGivenBack,
              Steps, InRows, Located, Elements
<1>8. KeepsContract
  BY <1>1, ContractStutter
<1> QED BY <1>4, <1>6, <1>7, <1>8 DEF IInv

(* The waiting steps as they are, and nothing but records taken from them. *)
LEMMA StepsSame ==
  ASSUME Slots, Threads, StepsExact, UNCHANGED <<posted, resolving, lastEntry>>, nextEntry' \in {nextEntry, NoEntry},
         \A e \in 1..lastEntry : InRows(e)' => InRows(e),
         \A x \in Steps : x.kind = "next" => Schedules(s') /\ HasNext(s') /\ x.entry = s'.next.serial
  PROVE  Threads' /\ StepsExact' /\ Steps' = Steps
<1>1. Steps' = Steps
  BY DEF Steps, Elements
<1>2. lastEntry \in Nat
  BY SessionAssumption DEF Slots
<1> QED BY <1>1, <1>2, StepsKept DEF StepsExact, Threads

LEMMA NewSessionRecord ==
  ASSUME NEW w \in Window, Slots
  PROVE  LET u == NewSession(Document(w)) IN
         /\ Sound(u, lastEntry) /\ u.phase = "active" /\ u.owner = Document(w) /\ ~HasCurrent(u) /\ ~HasNext(u)
         /\ u.pending = {} /\ u.needed = FALSE /\ u.current = Nobody /\ u.next = Nobody
<1> DEFINE u == NewSession(Document(w))
<1>1. Document(w) \in [window : Window \cup {"none"}, load : 0..MaxReload]
  BY DEF Document, Slots
<1>2. /\ Unopened \in Record /\ Unopened.current = Nobody /\ Unopened.next = Nobody
      /\ Unopened.ready = FALSE /\ Unopened.started = FALSE /\ Unopened.needed = FALSE
      /\ Unopened.open = 0 /\ Unopened.pending = {}
  BY NobodyType, SessionAssumption DEF Unopened, NoDocument, Record, Phase
<1>3. /\ u \in Record /\ u.phase = "active" /\ u.owner = Document(w) /\ u.current = Nobody /\ u.next = Nobody
      /\ u.ready = FALSE /\ u.needed = FALSE /\ u.open = 0 /\ u.pending = {}
  BY <1>1, <1>2 DEF NewSession, Record, Phase
<1> HIDE DEF u
<1>4. ~HasCurrent(u) /\ ~HasNext(u)
  BY <1>3, NobodyType DEF HasCurrent, HasNext
<1>5. lastEntry \in Nat
  BY SessionAssumption DEF Slots
<1>6. Sound(u, lastEntry)
  BY <1>3, <1>4, <1>5, NobodyType DEF Sound, NoSerial
<1> QED BY <1>3, <1>4, <1>6 DEF u

LEMMA CreateKeeps ==
  ASSUME IInv, NEW w \in Window, Create(w)
  PROVE  IInv' /\ KeepsContract
<1>1. /\ UNCHANGED <<load, idle, currentEntry, nextEntry, lastEntry, rows, posted, resolving,
                     item, phase, picked, list, queue, upsets>>
      /\ s.phase \in {"none", "released"} /\ s' = NewSession(Document(w))
      /\ native' = NoContext /\ ticket' = NoTicket
  BY DEF Create, managerVars, threadVars, playerVars
<1>2. Slots /\ Threads /\ Playback /\ Queues /\ Recorded /\ StepsExact
  BY DEF IInv
<1>3. /\ Sound(s', lastEntry) /\ s'.phase = "active" /\ s'.owner = Document(w) /\ ~HasCurrent(s') /\ ~HasNext(s')
      /\ s'.pending = {} /\ s'.needed = FALSE /\ s'.current = Nobody
  BY <1>1, <1>2, NewSessionRecord
<1>4. Slots' /\ Playback'
  BY <1>1, <1>2 DEF Slots, Playback, Located
<1>5. Queues'
  BY <1>1, <1>2, ContextAccount, SessionAssumption DEF Queues, NoTicket, NoRow, NoEntry
<1>6. Recorded'
  <2>1. Answered(s', Heard')
    BY <1>3, AnsweredNoRequest
  <2>2. Owned'
    BY <1>1, <1>2, <1>3, SessionAssumption DEF Owned, Document, Slots
  <2> QED BY <1>1, <1>3, <2>1, <2>2 DEF Recorded
<1>7. Following' /\ Replaced'
  BY <1>3, NobodyType DEF Following, Replaced
<1>8. Threads' /\ StepsExact'
  <2>1. \A e : InRows(e)' <=> InRows(e)
    BY <1>1 DEF InRows
  <2>2. \A x \in Steps : x.kind # "next"
    BY <1>1, <1>2 DEF StepsExact, Schedules, AddKinds
  <2> QED BY <1>1, <1>2, <2>1, <2>2, StepsSame
<1>9. Carried'
  BY <1>3 DEF Carried
<1>10. ReleasedIsGivenBack'
  BY <1>3 DEF ReleasedIsGivenBack
<1>11. KeepsContract
  <2>1. s.current.status = "ended" /\ s.pending = {}
    BY <1>1, <1>2 DEF Recorded, Sound
  <2>2. OpenAttempt' = "closed"
    BY <1>1, <1>3, SeenAttempt, NobodyType DEF OpenAttempt, AttemptOf
  <2>3. Contract!Create
    BY <1>1, <1>3, <2>2 DEF Contract!Create
  <2> QED BY <2>3 DEF KeepsContract, Contract!Next
<1>12. Planned'
  BY <1>1, ContextAccount DEF Planned
<1> QED BY <1>4, <1>5, <1>6, <1>7, <1>8, <1>9, <1>10, <1>11, <1>12 DEF IInv

LEMMA OwnerFields ==
  ASSUME NEW t, NEW l, Sound(t, l), NEW d \in [window : Window \cup {"none"}, load : 0..MaxReload]
  PROVE  LET u == Told([t EXCEPT !.owner = d]) IN
         /\ Sound(u, l) /\ u.owner = d /\ u.phase = t.phase /\ u.current = t.current /\ u.next = t.next
         /\ u.pending = t.pending /\ u.needed = t.needed /\ u.asked = t.needed /\ u.eoq = t.eoq
<1> DEFINE a == [t EXCEPT !.owner = d]
           u == Told(a)
<1>1. /\ a \in Record /\ a.owner = d /\ a.phase = t.phase /\ a.eoq = t.eoq /\ a.started = t.started
      /\ SameEntries(a, t) /\ SameRequest(a, t) /\ a.pending = t.pending
  BY DEF Sound, Record, SameEntries, SameRequest
<1> HIDE DEF a
<1>2. u = [a EXCEPT !.asked = a.needed]
  BY DEF Told
<1>3. SameFlags(u, a) /\ SameEntries(u, a) /\ u.pending = a.pending /\ u.needed = a.needed /\ u.asked = a.needed
  BY <1>1, <1>2 DEF Record, SameFlags, SameEntries
<1> HIDE DEF u
<1>4. Sound(u, l)
  BY <1>1, <1>3 DEF Sound, SameFlags, SameEntries, HasCurrent, HasNext, OpOf
<1>5. /\ Sound(u, l) /\ u.owner = d /\ u.phase = t.phase /\ u.current = t.current /\ u.next = t.next
      /\ u.pending = t.pending /\ u.needed = t.needed /\ u.asked = t.needed /\ u.eoq = t.eoq
  BY <1>1, <1>3, <1>4 DEF SameFlags, SameEntries, SameRequest
<1> QED BY <1>5 DEF u, a

LEMMA ClaimControlKeeps ==
  ASSUME IInv, NEW w \in Window, NEW mode, ClaimControl(w, mode)
  PROVE  IInv' /\ KeepsContract
<1>1. /\ UNCHANGED <<load, ticket, idle, currentEntry, nextEntry, lastEntry, rows, posted, resolving,
                     item, phase, picked, list, queue, upsets>>
      /\ s' = Told([s EXCEPT !.owner = Document(w)]) /\ native' = DiscardPrepared(native)
  BY DEF ClaimControl, managerVars, threadVars, playerVars
<1>2. Slots /\ Threads /\ Playback /\ Queues /\ Recorded /\ Following /\ Replaced /\ StepsExact /\ Carried
      /\ ReleasedIsGivenBack
  BY DEF IInv
<1>3. Document(w) \in [window : Window \cup {"none"}, load : 0..MaxReload]
  BY <1>2 DEF Document, Slots
<1>4. /\ Sound(s', lastEntry) /\ s'.owner = Document(w) /\ s'.phase = s.phase /\ s'.current = s.current
      /\ s'.next = s.next /\ s'.pending = s.pending /\ s'.needed = s.needed /\ s'.asked = s.needed
      /\ s'.eoq = s.eoq
  BY <1>1, <1>2, <1>3, OwnerFields DEF Recorded
<1>5. Slots' /\ Playback'
  BY <1>1, <1>2 DEF Slots, Playback, Located
<1>6. native' \in Account /\ (Open(native') => Open(native)) /\ native'.status # "prepared"
  BY <1>1, <1>2, OutdatedAccount DEF Queues, Outdated
<1>7. Queues'
  BY <1>1, <1>2, <1>6 DEF Queues
<1>8. Recorded'
  <2>1. Answered(s', Heard')
    BY <1>2, <1>4 DEF Recorded, Answered, HasCurrent, HasNext
  <2>2. Owned'
    BY <1>1, <1>2, <1>4, SessionAssumption DEF Owned, Document, Slots
  <2> QED BY <1>1, <1>4, <2>1, <2>2 DEF Recorded
<1>9. \A e : InRows(e)' <=> InRows(e)
  BY <1>1 DEF InRows
<1>10. Following' /\ Replaced'
  BY <1>1, <1>2, <1>4, <1>9 DEF Following, Replaced, Schedules, HasNext
<1>11. Threads' /\ StepsExact' /\ Steps' = Steps
  <2>1. \A x \in Steps : x.kind = "next" => Schedules(s') /\ HasNext(s') /\ x.entry = s'.next.serial
    BY <1>2, <1>4 DEF StepsExact, Schedules, HasNext, AddKinds
  <2> QED BY <1>1, <1>2, <1>9, <2>1, StepsSame
<1>12. Carried'
  BY <1>1, <1>2, <1>4, <1>11 DEF Carried, OpOf
<1>13. ReleasedIsGivenBack'
  BY <1>2, <1>4, <1>6 DEF ReleasedIsGivenBack
<1>14. KeepsContract
  BY <1>1, <1>2, <1>4, ContractSame DEF Recorded
<1>15. Planned'
  BY <1>6 DEF Planned
<1> QED BY <1>5, <1>7, <1>8, <1>10, <1>11, <1>12, <1>13, <1>14, <1>15 DEF IInv

LEMMA SeqWider ==
  ASSUME NEW l \in Nat, NEW m \in Nat, l <= m, NEW q \in Seq(0..l)
  PROVE  q \in Seq(0..m)
<1>1. Len(q) \in Nat /\ q \in [1..Len(q) -> 0..l]
  BY LenProperties
<1>2. q \in [1..Len(q) -> 0..m]
  BY <1>1
<1> QED BY <1>1, <1>2, SeqOfFunction

LEMMA NoTicketType == NoTicket \in [row : Nat, entry : 0..MaxEntry, of : {NoRef} \cup Occurrence]
BY SessionAssumption DEF NoTicket, NoRow, NoEntry

(* The ticket is withdrawn and nothing else of the queue changes.           *)
LEMMA TicketGone ==
  ASSUME Queues
  PROVE  /\ NoTicket \in [row : Nat, entry : 0..MaxEntry, of : {NoRef} \cup Occurrence]
         /\ QueueWithdrawn \in Seq(QueueTracks)
         /\ NativeWithdrawn \in Account /\ NativeWithdrawn.status = native.status
         /\ DiscardPrepared(NativeWithdrawn) \in Account
         /\ Open(DiscardPrepared(NativeWithdrawn)) <=> Open(native)
         /\ DiscardPrepared(NativeWithdrawn).status # "prepared"
<1>1. NativeWithdrawn \in Account /\ NativeWithdrawn.status = native.status
  BY NativeWithdrawnAccount DEF Queues, SameAccount
<1>2. DiscardPrepared(NativeWithdrawn) \in Account
      /\ DiscardPrepared(NativeWithdrawn).status = IF native.status = "prepared" THEN "none" ELSE native.status
  BY <1>1, StatusMethods
<1> QED BY <1>1, <1>2, NoTicketType, QueueWithdrawnType DEF Queues, Open

LEMMA PlayKeeps ==
  ASSUME IInv, NEW ref \in Ref, PlayEntry(ref)
  PROVE  IInv' /\ KeepsContract
<1> DEFINE e == lastEntry + 1
<1>0. PICK k : k = e
  OBVIOUS
<1> HIDE DEF e
<1>1. /\ UNCHANGED <<load, rows, item, phase, picked, list, upsets>>
      /\ Controlled /\ lastEntry < MaxEntry /\ lastEntry' = k /\ k = lastEntry + 1
      /\ native' = DiscardPrepared(NativeWithdrawn) /\ ticket' = NoTicket /\ queue' = QueueWithdrawn
      /\ StartEntry(k)
  BY <1>0 DEF PlayEntry, playerVars, WithdrawNativeTicket, e
<1>2. s' = PlayedRecord(s, Entry(k, "add", "preparing", ref))
  BY <1>0 DEF PlayEntry, PlayedRecord, e
<1>3. Slots /\ Threads /\ Playback /\ Queues /\ Recorded
  BY DEF IInv
<1>4. lastEntry \in 0..(MaxEntry - 1) /\ lastEntry \in Nat /\ k \in 1..MaxEntry
  BY <1>1, <1>3, SessionAssumption DEF Slots
<1> DEFINE x == Entry(k, "add", "preparing", ref)
<1>5. /\ Sound(s', k) /\ s'.phase = "active" /\ s'.owner = s.owner
      /\ s'.current = x /\ s'.next = Nobody /\ s'.ready = FALSE
      /\ s'.needed = FALSE /\ s'.asked = FALSE /\ s'.pending = {OpOf(x)}
  <2> DEFINE y == Entry(k, "add", "preparing", ref)
             u == PlayedRecord(s, y)
  <2>1. Sound(s, lastEntry)
    BY <1>3 DEF Recorded
  <2>2. PlayedParts(u, s, y, k)
    BY <1>1, <1>4, <2>1, PlayRecord
  <2>3. s' = u /\ x = y
    BY <1>1, <1>2
  <2> HIDE DEF u, x, y
  <2> QED BY <1>1, <2>2, <2>3 DEF PlayedParts
<1>6. /\ x.serial = k /\ x.status = "preparing" /\ OpOf(x) \in Operation /\ OpOf(x).entry = k
  BY <1>4, EntryType DEF Entry, OpOf
<1> HIDE DEF x
<1>7. /\ Threads' /\ StepsExact' /\ Step("current", k) \in Steps'
      /\ currentEntry' = k /\ nextEntry' = NoEntry /\ idle' = FALSE
  BY <1>1, <1>3, StartedSteps
<1>8. Slots'
  <2>1. rows' \in Seq(0..lastEntry')
    BY <1>1, <1>3, <1>4, SeqWider DEF Slots
  <2>2. lastEntry' \in 0..MaxEntry /\ currentEntry' \in 0..lastEntry' /\ nextEntry' \in 0..lastEntry'
    BY <1>1, <1>4, <1>7, SessionAssumption DEF NoEntry
  <2>3. load' \in [Window -> 0..MaxReload] /\ idle' \in BOOLEAN
    BY <1>1, <1>3, <1>7 DEF Slots
  <2> QED BY <2>1, <2>2, <2>3 DEF Slots
<1>9. Playback'
  BY <1>1, <1>3 DEF Playback, Located
<1>10. Queues'
  BY <1>1, <1>3, TicketGone DEF Queues
<1>17. Planned'
  BY <1>1, <1>3, TicketGone DEF Planned
<1>11. HasCurrent(s') /\ ~HasNext(s')
  BY <1>4, <1>5, <1>6, NobodyType DEF HasCurrent, HasNext, NoSerial
<1>12. Recorded'
  <2>1. Answered(s', Heard)
    BY <1>5, <1>6, AnsweredNoRequest
  <2> QED BY <1>1, <1>3, <1>5, <2>1, RecordedBy
<1>13. Following' /\ Replaced'
  BY <1>7, <1>11 DEF Following, Replaced
<1>14. Carried'
  <2>1. OpOf(s'.next) \notin s'.pending
    BY <1>5, <1>11, PendingOf
  <2> QED BY <1>5, <1>6, <1>7, <2>1 DEF Carried
<1>15. ReleasedIsGivenBack'
  BY <1>5 DEF ReleasedIsGivenBack
<1>16. KeepsContract
  <2>1. s.phase \in {"active", "stopped", "legacy"}
    BY <1>1, <1>3 DEF Controlled, Recorded, Sound, Record, Phase
  <2>2. OpOf(x) \notin s.pending
    <3>1. Sound(s, lastEntry)
      BY <1>3 DEF Recorded
    <3>2. \A o \in s.pending : o.entry \in Int /\ o.entry <= lastEntry
      BY <1>4, <3>1, SessionAssumption DEF Sound, Record, Operation, OpOf
    <3> QED BY <1>1, <1>4, <1>6, <3>2
  <2>3. s'.current.status = "preparing"
    BY <1>5, <1>6
  <2> QED BY <1>1, <1>3, <1>5, <1>6, <2>1, <2>2, <2>3, ContractAccept DEF Recorded
<1> QED BY <1>7, <1>8, <1>9, <1>10, <1>12, <1>13, <1>14, <1>15, <1>16, <1>17 DEF IInv

-----------------------------------------------------------------------------
(* The next entry is replaced or withdrawn.                                *)
LEMMA WithdrawnRows ==
  ASSUME Slots, Playback, NEW e, Withdraws(e)
  PROVE  /\ rows' \in Seq(0..lastEntry) /\ (\A k : InRows(k)' => InRows(k))
         /\ item' \in Tracks /\ picked' \in Tracks /\ Located(item)' /\ Located(picked)' /\ Settled(picked')
         /\ (item' = NoTrack) <=> (item = NoTrack)
         /\ picked'.list = picked.list /\ (picked.row = NoRow => picked'.row = NoRow)
<1> DEFINE row == RowOf(rows, e)
           n == Len(rows)
<1>1. /\ n \in Nat /\ DOMAIN rows = 1..n /\ rows \in Seq(0..lastEntry)
      /\ row # NoRow => row \in 1..n
  BY RowOfParts DEF Slots
<1>2. /\ item \in Tracks /\ picked \in Tracks /\ Settled(picked)
      /\ item.list = "shadow" => item.row <= n
      /\ picked.list = "shadow" => picked.row <= n
  BY DEF Playback, Located
<1>3. CASE row = NoRow
  <2>1. UNCHANGED <<rows, item, picked>>
    BY <1>3 DEF Withdraws
  <2> QED BY <1>1, <1>2, <2>1 DEF InRows, Located
<1>4. CASE row # NoRow
  <2>1. rows' = Cut(rows, row, row) /\ item' = Shrunk(item, row, row) /\ picked' = Shrunk(picked, row, row)
    BY <1>4 DEF Withdraws
  <2> HIDE DEF row
  <2>2. row \in 1..n /\ row \in row..n
    BY <1>1, <1>4
  <2>3. /\ Cut(rows, row, row) \in Seq(0..lastEntry) /\ Len(Cut(rows, row, row)) = n - (row - row + 1)
        /\ \A i \in 1..Len(Cut(rows, row, row)) :
             Cut(rows, row, row)[i] = IF i < row THEN rows[i] ELSE rows[i + (row - row + 1)]
    BY <1>1, <2>2, CutParts
  <2> HIDE DEF n
  <2>4. n - (row - row + 1) = n - 1 /\ row - row + 1 = 1 /\ n - 1 \in Nat
    BY <1>1, <2>2
  <2>5. rows' \in Seq(0..lastEntry) /\ Len(rows') = n - 1
        /\ \A i \in 1..(n - 1) : rows'[i] = IF i < row THEN rows[i] ELSE rows[i + 1]
    BY <2>1, <2>3, <2>4
  <2>6. DOMAIN rows' = 1..(n - 1)
    BY <2>5, LenProperties
  <2>7. ASSUME NEW i \in DOMAIN rows' PROVE \E j \in DOMAIN rows : rows[j] = rows'[i]
    <3>1. i \in 1..n /\ i + 1 \in 1..n
      BY <1>1, <2>6
    <3> QED BY <1>1, <2>5, <2>6, <3>1
  <2>8. \A k : InRows(k)' => InRows(k)
    BY <2>7 DEF InRows
  <2>9. row \in 1..(n + 1) /\ row \in (row - 1)..n
    BY <1>1, <2>2
  <2>10. /\ item' \in Tracks /\ picked' \in Tracks /\ Settled(picked')
         /\ item'.list = "shadow" => item'.row <= n - 1
         /\ picked'.list = "shadow" => picked'.row <= n - 1
         /\ (item' = NoTrack) <=> (item = NoTrack)
         /\ picked'.list = picked.list /\ (picked.row = NoRow => picked'.row = NoRow)
    BY <1>1, <1>2, <2>1, <2>4, <2>9, ShrunkTrack
  <2> QED BY <2>5, <2>8, <2>10 DEF Located
<1> QED BY <1>3, <1>4

LEMMA NextKeeps ==
  ASSUME IInv, NEW ref \in Ref, NextEntry(ref)
  PROVE  IInv' /\ KeepsContract
<1>0. PICK k : k = lastEntry + 1
  OBVIOUS
<1>1. /\ UNCHANGED <<load, phase, list, upsets, currentEntry>>
      /\ Schedules(s) /\ s.phase = "active" /\ HasCurrent(s)
      /\ lastEntry < MaxEntry /\ lastEntry' = k
      /\ native' = NativeWithdrawn /\ ticket' = NoTicket /\ queue' = QueueWithdrawn
      /\ Withdraws(nextEntry) /\ nextEntry' = k /\ idle' = FALSE
  BY <1>0 DEF NextEntry, MaySetNext, ReplaceNext, WithdrawNativeTicket, Schedules
<1>2. s' = NextGivenRecord(s, Entry(k, "add", "preparing", ref))
  BY <1>0 DEF NextEntry, NextTaken, NextGivenRecord
<1>3. Slots /\ Threads /\ Playback /\ Queues /\ Planned /\ Recorded /\ StepsExact /\ Carried
  BY DEF IInv
<1>4. lastEntry \in 0..(MaxEntry - 1) /\ lastEntry \in Nat /\ k \in 1..MaxEntry
  BY <1>0, <1>1, <1>3, SessionAssumption DEF Slots
<1>5. TakeNext(Step("next", k))
  BY <1>0, <1>1, <1>4 DEF NextEntry, ReplaceNext, NoEntry
<1> DEFINE x == Entry(k, "add", "preparing", ref)
<1>6. /\ Sound(s', k) /\ s'.phase = "active" /\ s'.owner = s.owner
      /\ s'.current = s.current /\ s'.next = x /\ s'.ready = FALSE
      /\ s'.needed = FALSE /\ s'.asked = FALSE
      /\ s'.pending = (s.pending \ {OpOf(s.next)}) \cup {OpOf(x)}
  <2> DEFINE y == Entry(k, "add", "preparing", ref)
             u == NextGivenRecord(s, y)
  <2>1. Sound(s, lastEntry)
    BY <1>3 DEF Recorded
  <2>2. NextGivenParts(u, s, y, k)
    BY <1>0, <1>1, <1>4, <2>1, NextRecord
  <2>3. s' = u /\ x = y
    BY <1>0, <1>2
  <2> HIDE DEF u, x, y
  <2> QED BY <1>0, <2>2, <2>3 DEF NextGivenParts
<1>7. /\ x.serial = k /\ x.status = "preparing" /\ OpOf(x) \in Operation /\ OpOf(x).entry = k
  BY <1>4, EntryType DEF Entry, OpOf
<1> HIDE DEF x
<1>8. /\ rows' \in Seq(0..lastEntry) /\ (\A e : InRows(e)' => InRows(e))
      /\ item' \in Tracks /\ picked' \in Tracks /\ Located(item)' /\ Located(picked)' /\ Settled(picked')
      /\ (item' = NoTrack) <=> (item = NoTrack)
      /\ picked'.list = picked.list /\ (picked.row = NoRow => picked'.row = NoRow)
  BY <1>1, <1>3, WithdrawnRows
<1>9. HasCurrent(s') /\ HasNext(s')
  BY <1>1, <1>4, <1>6, <1>7 DEF HasCurrent, HasNext, NoSerial
<1>10. /\ Threads' /\ StepsExact' /\ Step("next", k) \in Steps'
       /\ \A y \in Steps : y.kind = "current" => y \in Steps'
  <2>1. Schedules(s') /\ s'.next.serial = k
    BY <1>6, <1>7 DEF Schedules
  <2>2. \A e \in 1..k : InRows(e)' => InRows(e)
    BY <1>8
  <2> QED BY <1>0, <1>1, <1>3, <1>5, <1>9, <2>1, <2>2, NextSteps
<1>11. Slots'
  <2>1. rows' \in Seq(0..lastEntry')
    BY <1>0, <1>1, <1>4, <1>8, SeqWider
  <2>2. lastEntry' \in 0..MaxEntry /\ currentEntry' \in 0..lastEntry' /\ nextEntry' \in 0..lastEntry'
    BY <1>0, <1>1, <1>3, <1>4, SessionAssumption DEF Slots
  <2>3. load' \in [Window -> 0..MaxReload] /\ idle' \in BOOLEAN
    BY <1>1, <1>3 DEF Slots
  <2> QED BY <2>1, <2>2, <2>3 DEF Slots
<1>12. Playback'
  BY <1>1, <1>3, <1>8 DEF Playback
<1>13. Queues'
  BY <1>1, <1>3, TicketGone DEF Queues
<1>20. Planned'
  BY <1>1, <1>3, <1>8, TicketGone DEF Planned
<1>14. Recorded'
  <2>1. Answered(s', Heard)
    BY <1>6, <1>9, AnsweredNoRequest
  <2> QED BY <1>1, <1>3, <1>6, <2>1, RecordedBy
<1>15. Following' /\ Replaced'
  <2>1. currentEntry # k
    BY <1>0, <1>3, <1>4 DEF Slots
  <2> QED BY <1>1, <1>6, <1>7, <1>9, <2>1 DEF Following, Replaced
<1>16. Sound(s, lastEntry) /\ \A o \in s.pending : o.entry \in Int /\ o.entry <= lastEntry
  <2>1. Sound(s, lastEntry)
    BY <1>3 DEF Recorded
  <2> QED BY <1>4, <2>1, SessionAssumption DEF Sound, Record, Operation, OpOf
<1>17. Carried'
  <2>1. Step("next", s'.next.serial) \in Steps'
    BY <1>6, <1>7, <1>10
  <2>2. ASSUME OpOf(s'.current) \in s'.pending
        PROVE  Step("current", s'.current.serial) \in Steps' \/ (s'.current.submitted /\ phase' # "stopped")
    <3>1. OpOf(s.current) # OpOf(x)
      BY <1>0, <1>4, <1>7, <1>16, SessionAssumption DEF OpOf, Sound, Record, SessionEntry, NoSerial
    <3>2. OpOf(s.current) \in s.pending
      BY <1>6, <2>2, <3>1
    <3>3. Step("current", s.current.serial).kind = "current"
      BY DEF Step
    <3> QED BY <1>1, <1>3, <1>6, <1>10, <3>2, <3>3 DEF Carried
  <2> QED BY <2>1, <2>2 DEF Carried
<1>18. ReleasedIsGivenBack'
  BY <1>6 DEF ReleasedIsGivenBack
<1>19. KeepsContract
  <2>1. OpOf(x) \notin s.pending
    BY <1>0, <1>4, <1>7, <1>16
  <2> QED BY <1>1, <1>6, <1>7, <1>16, <2>1, ContractAccept
<1> QED BY <1>10, <1>11, <1>12, <1>13, <1>14, <1>15, <1>17, <1>18, <1>19, <1>20 DEF IInv

(* A next entry taken away leaves no add of it and no place for it.        *)
LEMMA NextGoneKeeps ==
  ASSUME IInv, UNCHANGED <<load, lastEntry, phase, list, upsets>>, ReplaceNext(NoEntry),
         Sound(s', lastEntry), s'.phase = s.phase, s'.owner = s.owner, s'.current = s.current,
         s'.next = Nobody, s'.pending = s.pending \ {OpOf(s.next)}, Answered(s', Heard),
         native' \in Account, native'.status = native.status
  PROVE  IInv' /\ KeepsContract
<1>1. /\ Slots /\ Threads /\ Playback /\ Queues /\ Planned /\ Recorded /\ StepsExact /\ Carried /\ ReleasedIsGivenBack
      /\ Sound(s, lastEntry)
  BY DEF IInv, Recorded
<1>2. /\ ticket' = NoTicket /\ queue' = QueueWithdrawn /\ Withdraws(nextEntry)
      /\ nextEntry' = NoEntry /\ idle' = FALSE /\ UNCHANGED currentEntry
      /\ posted' = Without(posted, {"next"}) /\ resolving' = {x \in resolving : x.kind # "next"}
  BY DEF ReplaceNext, WithdrawNativeTicket
<1>3. /\ rows' \in Seq(0..lastEntry) /\ (\A k : InRows(k)' => InRows(k))
      /\ item' \in Tracks /\ picked' \in Tracks /\ Located(item)' /\ Located(picked)' /\ Settled(picked')
      /\ (item' = NoTrack) <=> (item = NoTrack)
      /\ picked'.list = picked.list /\ (picked.row = NoRow => picked'.row = NoRow)
  BY <1>1, <1>2, WithdrawnRows
<1>4. ~HasNext(s')
  BY NobodyType DEF HasNext
<1>5. Threads' /\ StepsExact' /\ \A x \in Steps : x.kind = "current" => x \in Steps'
  BY <1>1, <1>2, <1>3, NextGoneSteps
<1>6. Slots'
  <2>1. lastEntry' \in 0..MaxEntry /\ currentEntry' \in 0..lastEntry' /\ nextEntry' \in 0..lastEntry'
    BY <1>1, <1>2, SessionAssumption DEF Slots, NoEntry
  <2>2. load' \in [Window -> 0..MaxReload] /\ idle' \in BOOLEAN
    BY <1>1, <1>2 DEF Slots
  <2>3. rows' \in Seq(0..lastEntry')
    BY <1>3
  <2> QED BY <2>1, <2>2, <2>3 DEF Slots
<1>7. Playback'
  BY <1>1, <1>3 DEF Playback
<1>8. Queues'
  BY <1>1, <1>2, TicketGone DEF Queues
<1>9. Recorded'
  BY <1>1, RecordedBy
<1>10. Following' /\ Replaced'
  BY <1>2, <1>4 DEF Following, Replaced
<1>11. Carried'
  <2>1. OpOf(s'.next) \notin s'.pending
    BY <1>4, PendingOf
  <2>2. ASSUME OpOf(s'.current) \in s'.pending
        PROVE  Step("current", s'.current.serial) \in Steps' \/ (s'.current.submitted /\ phase' # "stopped")
    <3>1. OpOf(s.current) \in s.pending
      BY <2>2
    <3>2. Step("current", s.current.serial).kind = "current"
      BY DEF Step
    <3> QED BY <1>1, <1>5, <3>1, <3>2 DEF Carried
  <2> QED BY <2>1, <2>2 DEF Carried
<1>12. ReleasedIsGivenBack' /\ Planned'
  BY <1>1, <1>3 DEF ReleasedIsGivenBack, Open, Planned
<1>13. KeepsContract
  <2>1. CASE s.phase = "active"
    BY <1>1, <2>1, ContractProgress
  <2>2. CASE s.phase # "active"
    <3>1. s.pending = {}
      BY <1>1, <2>2, PendingOf
    <3>2. s'.pending = s.pending
      BY <3>1
    <3> QED BY <1>1, <3>2, ContractSame
  <2> QED BY <2>1, <2>2
<1> QED BY <1>5, <1>6, <1>7, <1>8, <1>9, <1>10, <1>11, <1>12, <1>13 DEF IInv

LEMMA WithdrawNextKeeps ==
  ASSUME IInv, NEW endOfQueue \in BOOLEAN, WithdrawNext(endOfQueue)
  PROVE  IInv' /\ KeepsContract
<1>1. /\ Slots /\ Queues /\ Sound(s, lastEntry) /\ lastEntry \in Nat
  BY SessionAssumption DEF IInv, Recorded, Slots
<1>2. /\ UNCHANGED <<load, lastEntry, phase, list, upsets>> /\ ReplaceNext(NoEntry)
      /\ s' = RequestNext([NextTaken EXCEPT !.eoq = endOfQueue], Heard) /\ native' = NativeWithdrawn
  BY DEF WithdrawNext
<1> DEFINE a == WithdrawnRecord(s, endOfQueue)
           u == RequestNext(a, Heard)
<1>3. WithdrawnParts(a, u, s, lastEntry)
  BY <1>1, HeardBoolean, WithdrawRecord
<1>4. s' = u
  BY <1>2 DEF NextTaken, WithdrawnRecord
<1> HIDE DEF a
<1>5. Answered(u, Heard)
  BY <1>3, HeardBoolean, AnsweredRequest DEF WithdrawnParts
<1> HIDE DEF u
<1>6. native' \in Account /\ native'.status = native.status
  BY <1>1, <1>2, TicketGone
<1>7. /\ Sound(u, lastEntry) /\ u.phase = s.phase /\ u.owner = s.owner
      /\ u.current = s.current /\ u.next = Nobody /\ u.pending = s.pending \ {OpOf(s.next)}
  BY <1>3 DEF WithdrawnParts
<1> QED BY <1>2, <1>4, <1>5, <1>6, <1>7, NextGoneKeeps

LEMMA SetNativeQueueKeeps ==
  ASSUME IInv, NEW retained \in Seq(Occurrence), SetNativeQueue(retained)
  PROVE  IInv' /\ KeepsContract
<1>1. /\ Slots /\ Threads /\ Playback /\ Queues /\ Planned /\ Sound(s, lastEntry) /\ lastEntry \in Nat /\ Recorded
      /\ Following /\ Replaced /\ StepsExact /\ Carried /\ ReleasedIsGivenBack
  BY SessionAssumption DEF IInv, Recorded, Slots
<1>2. UNCHANGED <<load, lastEntry, phase, list, upsets>>
  BY DEF SetNativeQueue
<1>3. CASE NextDropped(retained)
  <2>1. /\ ReplaceNext(NoEntry) /\ s' = RequestNext(NextTaken, Heard)
        /\ native' = CommitEdit(NativeWithdrawn, retained)
    BY <1>3 DEF SetNativeQueue
  <2> DEFINE v == ClearRequest(NoNext(FinishOperation(s, s.next)))
             u == RequestNext(v, Heard)
  <2>2. /\ Sound(v, lastEntry) /\ SameFlags(v, s) /\ v.current = s.current
        /\ v.next = Nobody /\ v.needed = FALSE
        /\ v.pending = s.pending \ {OpOf(s.next)}
    BY <1>1, NextTakenRecord
  <2>3. s' = u
    BY <2>1 DEF NextTaken
  <2> HIDE DEF v
  <2>4. Answered(u, Heard) /\ Sound(u, lastEntry)
    BY <2>2, HeardBoolean, AnsweredRequest, RequestNextSound
  <2>5. SameFlags(u, v) /\ SameEntries(u, v) /\ u.pending = v.pending
    <3>1. v \in Record
      BY <2>2 DEF Sound
    <3> QED BY <3>1, HeardBoolean, RequestNextFields
  <2> HIDE DEF u
  <2>6. native' \in Account /\ native'.status = native.status
    <3>1. NativeWithdrawn \in Account /\ NativeWithdrawn.status = native.status
      BY <1>1, TicketGone
    <3>2. native' \in Account /\ native'.status = NativeWithdrawn.status
      BY <2>1, <3>1, EditedAccount
    <3> QED BY <3>1, <3>2
  <2>7. /\ s'.phase = s.phase /\ s'.owner = s.owner /\ s'.current = s.current /\ s'.next = Nobody
        /\ s'.pending = s.pending \ {OpOf(s.next)} /\ Answered(s', Heard) /\ Sound(s', lastEntry)
    BY <2>2, <2>3, <2>4, <2>5 DEF SameFlags, SameEntries
  <2> QED BY <1>2, <2>1, <2>6, <2>7, NextGoneKeeps
<1>4. CASE ~NextDropped(retained)
  <2>1. /\ s' = RequestNext(s, Heard) /\ native' = CommitEdit(native, retained)
        /\ UNCHANGED <<ticket, queue, rows, item, picked, idle, currentEntry, nextEntry, posted, resolving>>
    BY <1>4 DEF SetNativeQueue, managerVars, threadVars
  <2>2. /\ Sound(s', lastEntry) /\ Answered(s', Heard)
    BY <1>1, <2>1, HeardBoolean, AnsweredRequest, RequestNextSound DEF Recorded, Answered
  <2>3. SameFlags(s', s) /\ SameEntries(s', s) /\ s'.pending = s.pending
    <3>1. s \in Record
      BY <1>1 DEF Sound
    <3> QED BY <2>1, <3>1, HeardBoolean, RequestNextFields
  <2>4. native' \in Account /\ native'.status = native.status
    BY <1>1, <2>1, EditedAccount DEF Queues
  <2>5. /\ s'.phase = s.phase /\ s'.owner = s.owner /\ s'.current = s.current /\ s'.next = s.next
    BY <2>3 DEF SameFlags, SameEntries
  <2>6. Slots' /\ Playback'
    BY <1>1, <1>2, <2>1 DEF Slots, Playback, Located
  <2>7. Queues'
    BY <1>1, <1>2, <2>1, <2>4 DEF Queues
  <2>8. Recorded'
    BY <1>1, <1>2, <2>2, <2>5, RecordedBy
  <2>9. \A e : InRows(e)' <=> InRows(e)
    BY <2>1 DEF InRows
  <2>10. Following' /\ Replaced'
    BY <1>1, <2>1, <2>5, <2>9 DEF Following, Replaced, Schedules, HasNext
  <2>11. Threads' /\ StepsExact' /\ Steps' = Steps
    <3>1. \A x \in Steps : x.kind = "next" => Schedules(s') /\ HasNext(s') /\ x.entry = s'.next.serial
      BY <1>1, <2>5 DEF StepsExact, Schedules, HasNext, AddKinds
    <3> QED BY <1>1, <1>2, <2>1, <2>9, <3>1, StepsSame
  <2>12. Carried'
    BY <1>1, <1>2, <2>3, <2>5, <2>11 DEF Carried, OpOf
  <2>13. ReleasedIsGivenBack' /\ Planned'
    BY <1>1, <2>1, <2>4, <2>5 DEF ReleasedIsGivenBack, Open, Planned
  <2>14. KeepsContract
    BY <1>1, <1>2, <2>2, <2>3, <2>5, ContractSame
  <2> QED BY <2>6, <2>7, <2>8, <2>10, <2>11, <2>12, <2>13, <2>14 DEF IInv
<1> QED BY <1>3, <1>4

-----------------------------------------------------------------------------
(* A session that is left: nothing is pending, no attempt is open.         *)
LEMMA LeftKeeps ==
  ASSUME IInv, UNCHANGED load, s'.owner = s.owner, s'.needed = FALSE, Sound(s', lastEntry'),
         s.phase \in {"active", "stopped", "legacy"}, s'.phase \in {"stopped", "legacy", "released"},
         Slots', Threads', StepsExact', Playback', Queues', Planned', Following',
         s'.phase = "released" => ~Open(native')
  PROVE  IInv' /\ KeepsContract
<1>1. Recorded
  BY DEF IInv
<1>2. Recorded'
  <2>1. Answered(s', Heard)
    BY AnsweredNoRequest
  <2> QED BY <1>1, <2>1, RecordedBy
<1>3. Replaced'
  BY DEF Replaced
<1>4. Carried'
  <2>1. s'.pending = {}
    BY DEF Sound
  <2> QED BY <2>1 DEF Carried
<1>5. ReleasedIsGivenBack'
  BY DEF ReleasedIsGivenBack
<1>6. KeepsContract
  BY ContractLeave
<1> QED BY <1>2, <1>3, <1>4, <1>5, <1>6 DEF IInv

(* A session that does not schedule is left alone by the legacy calls.      *)
LEMMA UntouchedKeeps ==
  ASSUME IInv, UNCHANGED <<load, s>>, ~Schedules(s), lastEntry' \in Nat, lastEntry <= lastEntry',
         Slots', Threads', StepsExact', Playback', Queues', Planned', Open(native') => Open(native)
  PROVE  IInv' /\ KeepsContract
<1>1. Recorded /\ Slots /\ ReleasedIsGivenBack
  BY DEF IInv
<1>2. lastEntry \in Nat
  BY <1>1, SessionAssumption DEF Slots
<1>3. Sound(s', lastEntry')
  BY <1>1, <1>2, SoundLater DEF Recorded
<1>4. Recorded'
  <2>1. s'.owner = s.owner /\ s' = s
    OBVIOUS
  <2>2. Answered(s', Heard)
    BY <1>1, <2>1 DEF Recorded
  <2> QED BY <1>1, <1>3, <2>1, <2>2, RecordedBy
<1>5. Following' /\ Replaced'
  BY DEF Following, Replaced, Schedules
<1>6. Carried'
  <2>1. s'.pending = {}
    BY <1>3 DEF Sound, Schedules
  <2> QED BY <2>1 DEF Carried
<1>7. ReleasedIsGivenBack'
  BY <1>1 DEF ReleasedIsGivenBack
<1>8. KeepsContract
  BY ContractStutter
<1> QED BY <1>4, <1>5, <1>6, <1>7, <1>8 DEF IInv

(* No row is left, and nobody locates a track.                             *)
LEMMA UnlocatedTrack ==
  ASSUME Playback, Slots, NEW track \in {item, picked}
  PROVE  LET x == Unlocated(track) IN
         /\ x \in Tracks /\ x.list = track.list /\ (x.list = "shadow" => x.row <= 0)
         /\ (x = NoTrack) <=> (track = NoTrack)
         /\ Settled(track) => Settled(x)
         /\ track.row = NoRow => x.row = NoRow
<1> DEFINE n == Len(rows)
<1>1. n \in Nat /\ track \in Tracks /\ (track.list = "shadow" => track.row <= n)
  BY LenProperties DEF Playback, Located, Slots
<1>2. 1 \in 1..(n + 1) /\ n \in (1 - 1)..n /\ n - (n - 1 + 1) = 0
  BY <1>1
<1>3. Unlocated(track) = Shrunk(track, 1, n)
  BY DEF Unlocated
<1> HIDE DEF n
<1> QED BY <1>1, <1>2, <1>3, ShrunkTrack

LEMMA ClearedKept ==
  ASSUME Playback, Slots, Planned, ClearInternalKept, native'.status = "prepared" => native.status = "prepared"
  PROVE  Playback' /\ Planned'
<1>1. rows' = <<>> /\ item' = Unlocated(item) /\ picked' = Unlocated(picked) /\ UNCHANGED phase
  BY DEF ClearInternalKept, ClearInternal
<1>2. /\ item' \in Tracks /\ (item'.list = "shadow" => item'.row <= 0)
      /\ (item' = NoTrack) <=> (item = NoTrack)
  BY <1>1, UnlocatedTrack
<1>3. /\ picked' \in Tracks /\ picked'.list = picked.list /\ (picked'.list = "shadow" => picked'.row <= 0)
      /\ Settled(picked') /\ (picked.row = NoRow => picked'.row = NoRow)
  BY <1>1, UnlocatedTrack DEF Playback
<1>4. Len(rows') = 0
  BY <1>1
<1> QED BY <1>1, <1>2, <1>3, <1>4 DEF Playback, Planned, Located

LEMMA Silenced ==
  ASSUME Silence
  PROVE  Playback' /\ Planned'
BY NoTrackType DEF Silence, Playback, Planned, Settled, Located

LEMMA ClearedSlots ==
  ASSUME Slots, ClearInternal, UNCHANGED <<load, lastEntry>>
  PROVE  Slots'
<1>1. /\ rows' = <<>> /\ currentEntry' = NoEntry /\ nextEntry' = NoEntry /\ idle' = TRUE
  BY DEF ClearInternal
<1>2. rows' \in Seq(0..lastEntry')
  BY <1>1, EmptySeq
<1>3. lastEntry' \in 0..MaxEntry /\ currentEntry' \in 0..lastEntry' /\ nextEntry' \in 0..lastEntry'
  BY <1>1, SessionAssumption DEF Slots, NoEntry
<1> QED BY <1>1, <1>2, <1>3 DEF Slots

(* Nothing of the shadow playlist changes when a session without a next    *)
(* entry is left.                                                          *)
LEMMA ShadowKept ==
  ASSUME Slots, Threads, StepsExact, Playback, Planned, UNCHANGED <<load, lastEntry, managerVars, rows, threadVars, item, phase, picked>>,
         ~Schedules(s) \/ ~HasNext(s), native'.status = "prepared" => native.status = "prepared"
  PROVE  Slots' /\ Threads' /\ StepsExact' /\ Playback' /\ Planned'
<1>1. UNCHANGED <<idle, currentEntry, nextEntry, posted, resolving>>
  BY DEF managerVars, threadVars
<1>2. \A e : InRows(e)' <=> InRows(e)
  BY DEF InRows
<1>3. \A x \in Steps : x.kind # "next"
  BY DEF StepsExact, AddKinds
<1>4. Threads' /\ StepsExact'
  BY <1>1, <1>2, <1>3, StepsSame
<1> QED BY <1>1, <1>4 DEF Slots, Playback, Planned, Located

(* A row of the shadow playlist is started.                                *)
LEMMA Activated ==
  ASSUME NEW row \in Nat \ {0}, row <= Len(rows'), Activate(row)
  PROVE  /\ Playback' /\ Planned' /\ phase' = "opening"
         /\ list' \in {"source", "shadow", "other", "own"}
<1>1. item' = ShadowTrack(row) /\ phase' = "opening" /\ picked' = NoTrack /\ list' = "shadow"
  BY DEF Activate
<1>2. ShadowTrack(row) \in Tracks /\ ShadowTrack(row).list = "shadow" /\ ShadowTrack(row).row = row
  BY DEF ShadowTrack, Track, Tracks
<1>3. item' # NoTrack
  BY <1>1, <1>2, NoTrackType
<1> QED BY <1>1, <1>2, <1>3, NoTrackType DEF Playback, Planned, Settled, Located

LEMMA SkipKeeps ==
  ASSUME IInv, Skip
  PROVE  IInv' /\ KeepsContract
<1> DEFINE row == RowOf(rows, s.next.serial)
<1>1. /\ s.phase = "active" /\ s.current.status = "playing" /\ HasNext(s) /\ s.ready /\ row # NoRow
      /\ UNCHANGED <<load, idle, currentEntry, nextEntry, lastEntry, rows, posted, resolving, upsets>>
      /\ ticket' = NoTicket /\ queue' = Requeued(QueueWithdrawn, rows) /\ Activate(row)
      /\ native' = MarkSubmitted(NativeWithdrawn, SkippedEntry(s).serial)
  BY DEF Skip, managerVars, threadVars, SkippedEntry
<1>2. /\ Slots /\ Threads /\ Playback /\ Queues /\ Planned /\ Recorded /\ Following /\ StepsExact
      /\ Sound(s, lastEntry) /\ lastEntry \in Nat
  BY SessionAssumption DEF IInv, Recorded, Slots
<1>3. /\ Len(rows) \in Nat /\ DOMAIN rows = 1..Len(rows)
      /\ row \in 1..Len(rows) /\ rows[row] = s.next.serial /\ s.next.serial # NoEntry
  BY <1>1, <1>2, RowOfParts DEF Slots
<1> HIDE DEF row
<1>4. s.next.serial \in Nat
  <2>1. rows[row] \in 0..lastEntry
    BY <1>2, <1>3, ElementOfSeq DEF Slots
  <2> QED BY <1>2, <1>3, <2>1
<1>5. s' = SkippedRecord(s, s.next.serial)
  <2>1. s' = Submitted(Begin(SkippedTo(SkippedEntry(s)), SkippedEntry(s)), rows[row])
    BY DEF Skip, SkippedEntry, row
  <2> QED BY <1>3, <2>1 DEF SkippedTo, SkippedRecord
<1>6. SkippedParts(s', s, lastEntry)
  <2> DEFINE u == SkippedRecord(s, s.next.serial)
  <2>1. SkippedParts(u, s, lastEntry)
    BY <1>1, <1>2, <1>4, SkipRecord
  <2> HIDE DEF u
  <2> QED BY <1>5, <2>1 DEF u
<1>7. /\ Sound(s', lastEntry) /\ s'.phase = "active" /\ s'.owner = s.owner
      /\ s'.current.serial = s.next.serial /\ s'.current.status = "preparing"
      /\ s'.current.submitted = TRUE /\ s'.next = Nobody
      /\ s'.needed = FALSE
      /\ s.pending = {} /\ s'.pending = {OpOf(s'.current)} /\ OpOf(s'.current) \in Operation
  BY <1>6 DEF SkippedParts
<1>8. ~HasNext(s')
  BY <1>7, NobodyType DEF HasNext
<1>9. row \in Nat \ {0} /\ row <= Len(rows')
  BY <1>1, <1>3
<1>10. Playback' /\ Planned' /\ phase' = "opening" /\ list' \in {"source", "shadow", "other", "own"}
  BY <1>1, <1>9, Activated
<1>11. Slots'
  BY <1>1, <1>2 DEF Slots
<1>12. \A e : InRows(e)' <=> InRows(e)
  BY <1>1 DEF InRows
<1>13. Threads' /\ StepsExact' /\ Steps' = Steps
  <2>1. InRows(s.next.serial)
    BY <1>3 DEF InRows
  <2>2. \A x \in Steps : x.kind # "next"
    BY <1>2, <2>1 DEF StepsExact, AddKinds
  <2> QED BY <1>1, <1>2, <1>12, <2>2, StepsSame
<1>14. Queues'
  <2>1. NativeWithdrawn \in Account /\ QueueWithdrawn \in Seq(QueueTracks)
    BY <1>2, TicketGone
  <2>2. native' \in Account
    BY <1>1, <2>1, MarkSubmittedAccount DEF SameAccount
  <2>3. queue' \in Seq(QueueTracks)
    <3>1. lastEntry \in 0..MaxEntry /\ rows \in Seq(0..lastEntry)
      BY <1>2 DEF Slots
    <3> QED BY <1>1, <2>1, <3>1, RequeuedType
  <2> QED BY <1>1, <1>2, <1>10, <2>2, <2>3, NoTicketType DEF Queues
<1>15. Recorded'
  <2>1. Answered(s', Heard)
    BY <1>7, AnsweredNoRequest
  <2> QED BY <1>1, <1>2, <1>7, <2>1, RecordedBy
<1>16. Following' /\ Replaced'
  <2>1. nextEntry' = s'.current.serial
    BY <1>1, <1>2, <1>7 DEF Following, Schedules
  <2> QED BY <1>8, <2>1 DEF Following, Replaced
<1>17. Carried'
  <2>1. OpOf(s'.next) \notin s'.pending
    BY <1>1, <1>7, <1>8, PendingOf
  <2> QED BY <1>7, <1>10, <2>1 DEF Carried
<1>18. ReleasedIsGivenBack'
  BY <1>7 DEF ReleasedIsGivenBack
<1>19. KeepsContract
  <2>1. lastEntry' = lastEntry
    BY <1>1
  <2> QED BY <1>1, <1>2, <1>7, <2>1, ContractAccept
<1> QED BY <1>10, <1>11, <1>13, <1>14, <1>15, <1>16, <1>17, <1>18, <1>19 DEF IInv

LeftParts(u, t, l, p) ==
  Sound(u, l) /\ u.phase = p /\ u.owner = t.owner /\ u.needed = FALSE /\ u.next = Nobody

LEMMA LeftRecord ==
  ASSUME NEW t, NEW v, NEW l \in Nat, Sound(v, l), Over(v, t), NEW p \in {"stopped", "legacy", "released"}
  PROVE  LeftParts([v EXCEPT !.phase = p], t, l, p)
<1> DEFINE u == [v EXCEPT !.phase = p]
<1>1. v \in Record /\ v.current.status = "ended" /\ v.pending = {} /\ p \in Phase \ {"none"}
  BY DEF Over, Sound, Phase
<1>2. Sound(u, l)
  BY <1>1, PhaseSound
<1>3. u.phase = p /\ u.owner = v.owner /\ SameEntries(u, v) /\ SameRequest(u, v)
  BY <1>1, PhaseFields
<1> HIDE DEF u
<1> QED BY <1>2, <1>3 DEF LeftParts, Over, SameFlags, SameEntries, SameRequest, u

(* The context is restored after the ticket went.                          *)
LEMMA RestoredKept ==
  ASSUME Queues, NEW n \in Account, n.status \in {native.status, "none"},
         RestoreNativeContext(n, QueueWithdrawn), ticket' = NoTicket
  PROVE  Queues' /\ (native'.status = "prepared" => native.status = "prepared")
<1>1. QueueWithdrawn \in Seq(QueueTracks) /\ NoTicket \in [row : Nat, entry : 0..MaxEntry, of : {NoRef} \cup Occurrence]
  BY TicketGone
<1>2. /\ native' \in Account /\ queue' \in Seq(QueueTracks) /\ upsets' \in 0..MaxUpsets
      /\ list' \in {"source", "shadow", "other", "own"}
      /\ IF Open(n) THEN native'.status \in {n.status, "restoring", "restored", "conflicted"}
         ELSE native' = n
  BY <1>1, RestoreContext DEF Queues
<1> QED BY <1>1, <1>2 DEF Queues

LEMMA StopKeeps ==
  ASSUME IInv, Stop
  PROVE  IInv' /\ KeepsContract
<1> DEFINE v == ClearRequest(NoNext(EndCurrent(SupersedePending(s))))
           n == DiscardPrepared(NativeWithdrawn)
<1>1. /\ Controlled /\ s' = [v EXCEPT !.phase = "stopped"] /\ ticket' = NoTicket
      /\ RestoreNativeContext(n, QueueWithdrawn) /\ UNCHANGED <<load, lastEntry>>
  BY DEF Stop
<1>2. \/ s.started /\ ClearInternal /\ Silence
      \/ s.started /\ ClearInternalKept
      \/ ~s.started /\ UNCHANGED <<managerVars, rows, threadVars, item, phase, picked>>
  BY DEF Stop
<1>3. /\ Slots /\ Threads /\ Playback /\ Queues /\ Planned /\ StepsExact
      /\ Sound(s, lastEntry) /\ lastEntry \in Nat
  BY SessionAssumption DEF IInv, Recorded, Slots
<1>4. LeftParts(s', s, lastEntry, "stopped")
  <2>1. Sound(v, lastEntry) /\ Over(v, s)
    BY <1>3, LeaveOver
  <2> HIDE DEF v
  <2> DEFINE u == [v EXCEPT !.phase = "stopped"]
  <2>2. LeftParts(u, s, lastEntry, "stopped")
    BY <1>3, <2>1, LeftRecord
  <2>3. s' = u
    BY <1>1
  <2> HIDE DEF u
  <2> QED BY <2>2, <2>3
<1>5. /\ Sound(s', lastEntry') /\ s'.phase = "stopped" /\ s'.owner = s.owner /\ s'.needed = FALSE
      /\ ~HasNext(s')
  BY <1>1, <1>4, NobodyType DEF LeftParts, HasNext
<1>6. n \in Account /\ n.status \in {native.status, "none"}
  BY <1>3, TicketGone, StatusMethods
<1> HIDE DEF n
<1>7. Queues' /\ (native'.status = "prepared" => native.status = "prepared")
  BY <1>1, <1>3, <1>6, RestoredKept
<1>8. Slots' /\ Threads' /\ StepsExact' /\ Playback' /\ Planned'
  <2>1. CASE ClearInternal /\ Silence
    <3>1. EndSession
      BY <2>1 DEF ClearInternal
    <3> QED BY <1>1, <1>3, <2>1, <3>1, EndedSteps, ClearedSlots, Silenced
  <2>2. CASE ClearInternalKept
    <3>1. EndSession /\ ClearInternal
      BY <2>2 DEF ClearInternalKept, ClearInternal
    <3> QED BY <1>1, <1>3, <1>7, <2>2, <3>1, EndedSteps, ClearedSlots, ClearedKept
  <2>3. CASE ~s.started /\ UNCHANGED <<managerVars, rows, threadVars, item, phase, picked>>
    <3>1. ~HasNext(s)
      BY <1>3, <2>3 DEF Sound
    <3> QED BY <1>1, <1>3, <1>7, <2>3, <3>1, ShadowKept
  <2> QED BY <1>2, <2>1, <2>2, <2>3
<1>9. Following'
  BY <1>5 DEF Following
<1>10. s.phase \in {"active", "stopped", "legacy"}
  BY <1>1, <1>3 DEF Controlled, Sound, Record, Phase
<1> QED BY <1>1, <1>5, <1>7, <1>8, <1>9, <1>10, LeftKeeps

LEMMA ReleaseKeeps ==
  ASSUME IInv, NEW disposition \in {"restore", "detach"}, Release(disposition)
  PROVE  IInv' /\ KeepsContract
<1> DEFINE v == Leave(SupersedePending(s))
           restored == ~Open(native) \/ native'.status \in {"restored", "detached"}
<1>1. /\ Controlled /\ UNCHANGED <<load, lastEntry>>
      /\ s' = IF restored THEN [v EXCEPT !.phase = "released"] ELSE s
      /\ IF restored /\ s.started /\ s.phase # "legacy" THEN ClearInternalKept
         ELSE UNCHANGED <<managerVars, rows, threadVars, item, phase, picked>>
  BY DEF Release
<1>2. /\ Slots /\ Threads /\ Playback /\ Queues /\ Planned /\ StepsExact
      /\ Sound(s, lastEntry) /\ lastEntry \in Nat
  BY SessionAssumption DEF IInv, Recorded, Slots
<1>3. /\ Queues' /\ (native'.status = "prepared" => native.status = "prepared")
      /\ Open(native') => Open(native)
  <2>1. CASE ~Open(native)
    <3>1. native' = DiscardPrepared(native) /\ UNCHANGED <<ticket, queue, list, upsets>>
      BY <2>1 DEF Release
    <3>2. native' \in Account /\ (Open(native') => Open(native)) /\ native'.status # "prepared"
      BY <1>2, <3>1, OutdatedAccount DEF Queues, Outdated
    <3> QED BY <1>2, <3>1, <3>2 DEF Queues
  <2>2. CASE Open(native) /\ disposition = "detach"
    <3>1. /\ ticket' = NoTicket /\ native' = Detach(NativeWithdrawn) /\ queue' = QueueWithdrawn
          /\ UNCHANGED <<list, upsets>>
      BY <2>2 DEF Release
    <3>2. native' \in Account /\ native'.status \in {native.status, "detached"}
      BY <1>2, <3>1, TicketGone, StatusMethods
    <3> QED BY <1>2, <2>2, <3>1, <3>2, TicketGone DEF Queues
  <2>3. CASE Open(native) /\ disposition # "detach"
    <3>1. ticket' = NoTicket /\ RestoreNativeContext(NativeWithdrawn, QueueWithdrawn)
      BY <2>3 DEF Release
    <3> QED BY <1>2, <2>3, <3>1, TicketGone, RestoredKept
  <2> QED BY <2>1, <2>2, <2>3
<1>4. CASE ~restored
  <2>1. /\ UNCHANGED <<load, s, lastEntry, managerVars, rows, posted, resolving, item, phase, picked>>
    BY <1>1, <1>4 DEF threadVars
  <2>2. Playback' /\ Planned'
    BY <1>2, <1>3, <2>1 DEF Playback, Planned, Located
  <2> QED BY <1>3, <2>1, <2>2, SamePosted, PlayerStep
<1>5. CASE restored
  <2>1. ~Open(native')
    BY <1>3, <1>5 DEF Open
  <2>2. LeftParts(s', s, lastEntry, "released")
    <3>1. Sound(v, lastEntry) /\ Over(v, s)
      BY <1>2, LeaveOver
    <3>2. s' = [v EXCEPT !.phase = "released"]
      BY <1>1, <1>5
    <3> HIDE DEF v
    <3> DEFINE u == [v EXCEPT !.phase = "released"]
    <3>3. LeftParts(u, s, lastEntry, "released")
      BY <1>2, <3>1, LeftRecord
    <3>4. s' = u
      BY <3>2
    <3> HIDE DEF u
    <3> QED BY <3>3, <3>4
  <2>3. /\ Sound(s', lastEntry') /\ s'.phase = "released" /\ s'.owner = s.owner /\ s'.needed = FALSE
        /\ ~HasNext(s')
    BY <1>1, <2>2, NobodyType DEF LeftParts, HasNext
  <2>4. Slots' /\ Threads' /\ StepsExact' /\ Playback' /\ Planned'
    <3>1. CASE s.started /\ s.phase # "legacy"
      <4>1. ClearInternalKept
        BY <1>1, <1>5, <3>1
      <4>2. EndSession /\ ClearInternal
        BY <4>1 DEF ClearInternalKept, ClearInternal
      <4> QED BY <1>1, <1>2, <1>3, <4>1, <4>2, EndedSteps, ClearedSlots, ClearedKept
    <3>2. CASE ~(s.started /\ s.phase # "legacy")
      <4>1. UNCHANGED <<managerVars, rows, threadVars, item, phase, picked>>
        BY <1>1, <3>2
      <4>2. ~Schedules(s) \/ ~HasNext(s)
        BY <1>2, <3>2 DEF Sound, Schedules
      <4> QED BY <1>1, <1>2, <1>3, <4>1, <4>2, ShadowKept
    <3> QED BY <3>1, <3>2
  <2>5. Following'
    BY <2>3 DEF Following
  <2>6. s.phase \in {"active", "stopped", "legacy"}
    BY <1>1, <1>2 DEF Controlled, Sound, Record, Phase
  <2> QED BY <1>1, <1>3, <2>1, <2>3, <2>4, <2>5, <2>6, LeftKeeps
<1> QED BY <1>4, <1>5

(* The legacy calls.                                                       *)
LEMMA TakeoverParts ==
  ASSUME IInv, LegacyTakeover
  PROVE  /\ native' \in Account /\ (Open(native') => Open(native))
         /\ native'.status = "prepared" => native.status = "prepared"
         /\ ticket' = NoTicket /\ queue' \in Seq(QueueTracks)
         /\ ~Schedules(s) => s' = s
         /\ Schedules(s) => /\ Sound(s', lastEntry) /\ s'.owner = s.owner /\ s'.needed = FALSE
                            /\ s'.phase \in {"legacy", "released"} /\ s.phase \in {"active", "stopped"}
                            /\ s'.phase = "released" => ~Open(native')
<1>1. Queues /\ Sound(s, lastEntry) /\ lastEntry \in Nat
  BY SessionAssumption DEF IInv, Recorded, Slots
<1>2. /\ s' = TakenOver(s) /\ ticket' = NoTicket /\ queue' = QueueWithdrawn
      /\ native' = (IF ~Schedules(s) THEN NativeWithdrawn
                    ELSE IF Open(native) THEN Conflict(NativeWithdrawn)
                    ELSE DiscardPrepared(NativeWithdrawn))
  BY DEF LegacyTakeover, WithdrawNativeTicket
<1>3. /\ NativeWithdrawn \in Account /\ NativeWithdrawn.status = native.status
      /\ DiscardPrepared(NativeWithdrawn) \in Account
      /\ Open(DiscardPrepared(NativeWithdrawn)) <=> Open(native)
      /\ DiscardPrepared(NativeWithdrawn).status # "prepared"
      /\ QueueWithdrawn \in Seq(QueueTracks)
  BY <1>1, TicketGone
<1>4. Conflict(NativeWithdrawn) \in Account /\ Conflict(NativeWithdrawn).status \in {native.status, "conflicted"}
  BY <1>3, StatusMethods
<1>5. /\ native' \in Account /\ (Open(native') => Open(native))
      /\ native'.status = "prepared" => native.status = "prepared"
  BY <1>2, <1>3, <1>4 DEF Open
<1>6. ~Schedules(s) => s' = s
  BY <1>2 DEF TakenOver
<1>7. ASSUME Schedules(s)
      PROVE  /\ Sound(s', lastEntry) /\ s'.owner = s.owner /\ s'.needed = FALSE
             /\ s'.phase \in {"legacy", "released"} /\ s.phase \in {"active", "stopped"}
             /\ s'.phase = "released" => ~Open(native')
  <2>1. CASE Open(native)
    <3> DEFINE v == Leave(s)
               u == [v EXCEPT !.phase = "legacy"]
    <3>1. Sound(v, lastEntry) /\ Over(v, s)
      BY <1>1, LeaveOver
    <3>2. s' = u
      BY <1>2, <1>7, <2>1 DEF TakenOver
    <3> HIDE DEF v
    <3>3. LeftParts(u, s, lastEntry, "legacy")
      BY <1>1, <3>1, LeftRecord
    <3> HIDE DEF u
    <3> QED BY <1>7, <3>2, <3>3 DEF LeftParts, Schedules
  <2>2. CASE ~Open(native)
    <3> DEFINE v == EndCurrent(ClearRequest(SupersedePending(s)))
               u == [v EXCEPT !.phase = "released"]
    <3>1. /\ Sound(v, lastEntry) /\ SameFlags(v, s) /\ v.pending = {} /\ v.current.status = "ended"
          /\ v.needed = FALSE
      BY <1>1, LeaveOver
    <3>2. s' = u
      BY <1>2, <1>7, <2>2 DEF TakenOver
    <3> HIDE DEF v
    <3>3. Sound(u, lastEntry)
      BY <3>1, PhaseSound DEF Phase
    <3>4. u.phase = "released" /\ u.owner = v.owner /\ SameRequest(u, v)
      <4>1. v \in Record /\ "released" \in Phase
        BY <3>1 DEF Sound, Phase
      <4> QED BY <4>1, PhaseFields
    <3> HIDE DEF u
    <3>5. ~Open(native')
      BY <1>5, <2>2
    <3> QED BY <1>7, <3>1, <3>2, <3>3, <3>4, <3>5 DEF SameFlags, SameRequest, Schedules
  <2> QED BY <2>1, <2>2
<1> QED BY <1>2, <1>3, <1>5, <1>6, <1>7

LEMMA LegacyPlayNowKeeps ==
  ASSUME IInv, LegacyPlayNow
  PROVE  IInv' /\ KeepsContract
<1>0. PICK k : k = lastEntry + 1
  OBVIOUS
<1>1. /\ UNCHANGED <<load, rows, item, phase, picked, list, upsets>> /\ LegacyTakeover
      /\ lastEntry < MaxEntry /\ lastEntry' = k /\ StartEntry(k)
  BY <1>0 DEF LegacyPlayNow, playerVars
<1>2. Slots /\ Threads /\ Playback /\ Queues /\ Planned
  BY DEF IInv
<1>3. lastEntry \in Nat /\ k \in 1..MaxEntry /\ lastEntry <= k /\ k \in Nat
  BY <1>0, <1>1, <1>2, SessionAssumption DEF Slots
<1>4. /\ native' \in Account /\ (Open(native') => Open(native))
      /\ native'.status = "prepared" => native.status = "prepared"
      /\ ticket' = NoTicket /\ queue' \in Seq(QueueTracks)
      /\ ~Schedules(s) => s' = s
      /\ Schedules(s) => /\ Sound(s', lastEntry) /\ s'.owner = s.owner /\ s'.needed = FALSE
                         /\ s'.phase \in {"legacy", "released"} /\ s.phase \in {"active", "stopped"}
                         /\ s'.phase = "released" => ~Open(native')
  BY <1>1, TakeoverParts
<1>5. /\ Threads' /\ StepsExact'
      /\ currentEntry' = k /\ nextEntry' = NoEntry /\ idle' = FALSE
  BY <1>0, <1>1, <1>2, StartedSteps
<1>6. Slots'
  <2>1. rows' \in Seq(0..lastEntry')
    BY <1>1, <1>2, <1>3, SeqWider DEF Slots
  <2>2. lastEntry' \in 0..MaxEntry /\ currentEntry' \in 0..lastEntry' /\ nextEntry' \in 0..lastEntry'
    BY <1>1, <1>3, <1>5, SessionAssumption DEF NoEntry
  <2>3. load' \in [Window -> 0..MaxReload] /\ idle' \in BOOLEAN
    BY <1>1, <1>2, <1>5 DEF Slots
  <2> QED BY <2>1, <2>2, <2>3 DEF Slots
<1>7. Playback' /\ Planned'
  BY <1>1, <1>2, <1>4 DEF Playback, Planned, Located
<1>8. Queues'
  BY <1>1, <1>2, <1>4, NoTicketType DEF Queues
<1>9. CASE Schedules(s)
  <2>1. Sound(s', lastEntry')
    BY <1>1, <1>3, <1>4, <1>9, SoundLater
  <2>2. Following'
    BY <1>4, <1>9 DEF Following, Schedules
  <2> QED BY <1>1, <1>4, <1>5, <1>6, <1>7, <1>8, <1>9, <2>1, <2>2, LeftKeeps
<1>10. CASE ~Schedules(s)
  BY <1>1, <1>3, <1>4, <1>5, <1>6, <1>7, <1>8, <1>10, UntouchedKeeps
<1> QED BY <1>9, <1>10

LEMMA LegacyClearKeeps ==
  ASSUME IInv, LegacyClear
  PROVE  IInv' /\ KeepsContract
<1>1. LegacyTakeover /\ ClearInternalKept /\ UNCHANGED <<load, lastEntry, list, upsets>>
  BY DEF LegacyClear
<1>2. Slots /\ Threads /\ Playback /\ Queues /\ Planned /\ lastEntry \in Nat
  BY SessionAssumption DEF IInv, Slots
<1>3. /\ native' \in Account /\ (Open(native') => Open(native))
      /\ native'.status = "prepared" => native.status = "prepared"
      /\ ticket' = NoTicket /\ queue' \in Seq(QueueTracks)
      /\ ~Schedules(s) => s' = s
      /\ Schedules(s) => /\ Sound(s', lastEntry) /\ s'.owner = s.owner /\ s'.needed = FALSE
                         /\ s'.phase \in {"legacy", "released"} /\ s.phase \in {"active", "stopped"}
                         /\ s'.phase = "released" => ~Open(native')
  BY <1>1, TakeoverParts
<1>4. EndSession /\ ClearInternal
  BY <1>1 DEF ClearInternalKept, ClearInternal
<1>5. Slots' /\ Threads' /\ StepsExact' /\ Playback' /\ Planned'
  BY <1>1, <1>2, <1>3, <1>4, EndedSteps, ClearedSlots, ClearedKept
<1>6. Queues'
  BY <1>1, <1>2, <1>3, NoTicketType DEF Queues
<1>7. lastEntry' = lastEntry /\ lastEntry <= lastEntry'
  BY <1>1, <1>2
<1>8. CASE Schedules(s)
  <2>1. Following' /\ Sound(s', lastEntry')
    BY <1>3, <1>7, <1>8 DEF Following, Schedules
  <2> QED BY <1>1, <1>3, <1>5, <1>6, <1>8, <2>1, LeftKeeps
<1>9. CASE ~Schedules(s)
  BY <1>1, <1>2, <1>3, <1>5, <1>6, <1>7, <1>9, UntouchedKeeps
<1> QED BY <1>8, <1>9

-----------------------------------------------------------------------------
(* Steps that leave the record as it is while nothing is pending.          *)
LEMMA StillKeeps ==
  ASSUME IInv, UNCHANGED <<load, s, lastEntry>>, s.pending = {},
         Slots', Threads', StepsExact', Playback', Queues', Planned', Following', Replaced',
         Open(native') => Open(native)
  PROVE  IInv' /\ KeepsContract
<1>1. Recorded /\ ReleasedIsGivenBack
  BY DEF IInv
<1>2. Recorded'
  BY <1>1, RecordedSame
<1>3. Carried' /\ ReleasedIsGivenBack'
  BY <1>1 DEF Carried, ReleasedIsGivenBack
<1>4. KeepsContract
  BY ContractStutter
<1> QED BY <1>2, <1>3, <1>4 DEF IInv

LEMMA AdoptNativeKeeps ==
  ASSUME IInv, AdoptNative
  PROVE  IInv' /\ KeepsContract
<1> DEFINE a == AdoptedRecord(s, native.current)
           u == RequestNext(a, Heard)
<1>1. /\ s.phase = "active" /\ ~HasCurrent(s) /\ ~HasNext(s) /\ native.status = "prepared"
      /\ item = SourceTrack(native.current) /\ native' = Adopt(native)
      /\ rows' = <<>> /\ queue' = <<>> /\ list' = "shadow"
      /\ currentEntry' = NoEntry /\ nextEntry' = NoEntry /\ idle' = FALSE /\ EndSession
      /\ UNCHANGED <<load, ticket, lastEntry, item, phase, picked, upsets>>
  BY DEF AdoptNative, Unplayed, Playing
<1>2. s' = u
  BY DEF AdoptNative, AdoptedRecord, AdoptedEntry
<1>3. /\ Slots /\ Threads /\ Playback /\ Queues /\ Planned /\ Recorded /\ StepsExact
      /\ Sound(s, lastEntry) /\ lastEntry \in Nat
  BY SessionAssumption DEF IInv, Recorded, Slots
<1>4. native.current \in Ref
  BY <1>3 DEF Queues, Account, Ref
<1>5. AdoptedParts(a, u, s, lastEntry)
  BY <1>1, <1>3, <1>4, HeardBoolean, AdoptRecord
<1> HIDE DEF a
<1>6. Answered(u, Heard)
  <2>1. Sound(a, lastEntry) /\ (a.needed /\ Heard => a.asked)
    BY <1>3, <1>5 DEF AdoptedParts, SameRequest, Recorded, Answered
  <2> QED BY <2>1, HeardBoolean, AnsweredRequest
<1> HIDE DEF u
<1>7. /\ Sound(s', lastEntry) /\ s'.phase = "active" /\ s'.owner = s.owner /\ s'.next = Nobody
      /\ s'.pending = {} /\ s'.current.status = "playing" /\ s.pending = {}
  BY <1>2, <1>5 DEF AdoptedParts
<1>8. ~HasNext(s')
  BY <1>7, NobodyType DEF HasNext
<1>9. Threads' /\ StepsExact'
  BY <1>1, <1>3, EndedSteps
<1>10. Slots'
  <2>1. rows' \in Seq(0..lastEntry')
    BY <1>1, EmptySeq
  <2>2. lastEntry' \in 0..MaxEntry /\ currentEntry' \in 0..lastEntry' /\ nextEntry' \in 0..lastEntry'
    BY <1>1, <1>3, SessionAssumption DEF Slots, NoEntry
  <2> QED BY <1>1, <1>3, <2>1, <2>2 DEF Slots
<1>11. Playback'
  <2>1. item.list = "source"
    BY <1>1 DEF SourceTrack, Track
  <2>2. picked.list = "shadow" => picked.row = 0
    BY <1>1, <1>3 DEF Planned, NoRow
  <2>3. Len(rows') = 0
    BY <1>1
  <2> QED BY <1>1, <1>3, <2>1, <2>2, <2>3 DEF Playback, Located
<1>12. native' \in Account /\ native'.status = "managed"
  BY <1>1, <1>3, StatusMethods DEF Queues
<1>13. Queues' /\ Planned'
  <2>1. queue' \in Seq(QueueTracks)
    BY <1>1, EmptySeq
  <2> QED BY <1>1, <1>3, <1>12, <2>1 DEF Queues, Planned
<1>14. Recorded'
  BY <1>1, <1>2, <1>3, <1>6, <1>7, RecordedBy
<1>15. Following' /\ Replaced'
  BY <1>7, <1>8 DEF Following, Replaced
<1>16. Carried' /\ ReleasedIsGivenBack'
  BY <1>7 DEF Carried, ReleasedIsGivenBack
<1>17. KeepsContract
  <2>1. lastEntry' = lastEntry
    BY <1>1
  <2> QED BY <1>1, <1>3, <1>7, <2>1, ContractProgress
<1> QED BY <1>9, <1>10, <1>11, <1>13, <1>14, <1>15, <1>16, <1>17 DEF IInv

LEMMA UserStopsKeeps ==
  ASSUME IInv, UserStops
  PROVE  IInv' /\ KeepsContract
<1>1. /\ Silence /\ Outdated /\ Upset("stop")
      /\ UNCHANGED <<load, ticket, currentEntry, nextEntry, lastEntry, rows, list, queue>>
  BY DEF UserStops
<1>2. /\ Slots /\ Threads /\ Playback /\ Queues /\ Planned /\ Recorded /\ StepsExact /\ Following /\ Replaced
      /\ Sound(s, lastEntry) /\ lastEntry \in Nat
  BY SessionAssumption DEF IInv, Recorded, Slots
<1>3. Playback' /\ Planned'
  BY <1>1, Silenced
<1>4. native' \in Account /\ (Open(native') => Open(native))
  BY <1>1, <1>2, OutdatedAccount DEF Queues
<1>5. Queues'
  <2>1. upsets' \in 0..MaxUpsets
    BY <1>1, <1>2, SessionAssumption DEF Queues, Upset
  <2> QED BY <1>1, <1>2, <1>4, <2>1 DEF Queues
<1>6. CASE Schedules(s) /\ HasCurrent(s) /\ s.started /\ s.phase = "active"
  <2>1. /\ s' = UserStopped(s) /\ idle' = TRUE
        /\ posted' = Append(Without(posted, SessionKinds), RestoringStep) /\ resolving' = {}
    BY <1>6 DEF UserStops
  <2>2. /\ Sound(s', lastEntry) /\ s'.owner = s.owner /\ s'.phase = "stopped" /\ s'.needed = FALSE
        /\ s'.next = s.next \/ s'.next = Nobody
    <3> DEFINE u == UserStopped(s)
    <3>1. /\ Sound(u, lastEntry) /\ u.owner = s.owner /\ u.phase = "stopped" /\ u.needed = FALSE
          /\ u.next = s.next \/ u.next = Nobody
      BY <1>2, <1>6, UserStoppedRecord
    <3> HIDE DEF u
    <3> QED BY <2>1, <3>1 DEF u
  <2>3. Threads' /\ StepsExact'
    <3> DEFINE w == Without(posted, SessionKinds)
    <3>1. w \in Seq(Waiting) /\ \A x \in Elements(w) : x.kind \notin SessionKinds
      BY <1>2, WithoutParts DEF Threads
    <3> HIDE DEF w
    <3>2. /\ Append(w, RestoringStep) \in Seq(Waiting)
          /\ Elements(Append(w, RestoringStep)) = Elements(w) \cup {RestoringStep}
      BY <3>1, AppendParts, WaitingSteps
    <3>3. posted' = Append(w, RestoringStep)
      BY <2>1 DEF w
    <3>4. \A x \in Elements(posted') : x.kind \notin AddKinds
      BY <3>1, <3>2, <3>3, WaitingSteps
    <3> QED BY <2>1, <3>2, <3>3, <3>4, StepsGone
  <2>4. Slots'
    BY <1>1, <1>2, <2>1 DEF Slots
  <2>5. Following'
    BY <1>1, <1>2, <1>6, <2>2, NobodyType DEF Following, HasNext
  <2>6. Sound(s', lastEntry')
    BY <1>1, <2>2
  <2> QED BY <1>1, <1>3, <1>5, <1>6, <2>2, <2>3, <2>4, <2>5, <2>6, LeftKeeps
<1>7. CASE ~(Schedules(s) /\ HasCurrent(s) /\ s.started /\ s.phase = "active")
  <2>1. UNCHANGED s /\ (UNCHANGED <<idle, threadVars>> \/ (idle' = TRUE /\ EndSession))
    BY <1>7 DEF UserStops
  <2>2. s.pending = {}
    <3>1. ~HasCurrent(s) \/ s.phase # "active"
      BY <1>2, <1>7 DEF Sound, Schedules
    <3> QED BY <1>2, <3>1, PendingOf
  <2>3. \A e : InRows(e)' <=> InRows(e)
    BY <1>1 DEF InRows
  <2>4. Following' /\ Replaced'
    BY <1>1, <1>2, <2>1, <2>3 DEF Following, Replaced
  <2>5. Threads' /\ StepsExact'
    <3>1. CASE UNCHANGED <<idle, threadVars>>
      <4>1. \A x \in Steps : x.kind = "next" => Schedules(s') /\ HasNext(s') /\ x.entry = s'.next.serial
        BY <1>2, <2>1 DEF StepsExact, AddKinds
      <4>2. UNCHANGED <<posted, resolving, lastEntry, nextEntry>>
        BY <1>1, <3>1 DEF threadVars
      <4> QED BY <1>2, <2>3, <4>1, <4>2, StepsSame
    <3>2. CASE EndSession
      BY <1>2, <3>2, EndedSteps
    <3> QED BY <2>1, <3>1, <3>2
  <2>6. Slots'
    BY <1>1, <1>2, <2>1 DEF Slots
  <2> QED BY <1>1, <1>3, <1>4, <1>5, <2>1, <2>2, <2>4, <2>5, <2>6, StillKeeps
<1> QED BY <1>6, <1>7

LEMMA PlaybackEndsKeeps ==
  ASSUME IInv, PlaybackEnds
  PROVE  IInv' /\ KeepsContract
<1>1. /\ Silence /\ s' = PlaybackEnded(s, Heard)
      /\ UNCHANGED <<load, native, ticket, idle, currentEntry, nextEntry, lastEntry, rows, posted, resolving,
                     list, queue, upsets>>
  BY DEF PlaybackEnds, managerVars, threadVars
<1>2. /\ Slots /\ Threads /\ Playback /\ Queues /\ Planned /\ Recorded /\ StepsExact /\ Following /\ Replaced
      /\ Carried /\ ReleasedIsGivenBack /\ Sound(s, lastEntry) /\ lastEntry \in Nat
  BY SessionAssumption DEF IInv, Recorded, Slots
<1> DEFINE ends == ~(s.phase # "active" \/ ~s.current.submitted \/ s.current.status = "ended")
<1>3. /\ Sound(s', lastEntry) /\ s'.phase = s.phase /\ s'.owner = s.owner /\ s'.next = s.next
      /\ s'.pending \subseteq s.pending
      /\ ~ends => s' = s
      /\ ends => /\ s'.current.status = "ended"
                 /\ \E v : Sound(v, lastEntry) /\ s' = RequestNext(v, Heard) /\ SameRequest(v, s)
  <2> DEFINE u == PlaybackEnded(s, Heard)
  <2>1. /\ Sound(u, lastEntry) /\ SameFlags(u, s) /\ u.next = s.next
        /\ u.pending \subseteq s.pending
        /\ ~ends => u = s
        /\ ends => /\ u.current.status = "ended"
                   /\ \E v : Sound(v, lastEntry) /\ u = RequestNext(v, Heard) /\ SameRequest(v, s)
    BY <1>2, HeardBoolean, PlaybackEndedRecord
  <2>2. s' = u
    BY <1>1
  <2> HIDE DEF u, ends
  <2> QED BY <2>1, <2>2 DEF SameFlags
<1>4. Playback' /\ Planned'
  BY <1>1, Silenced
<1>5. Slots' /\ Queues'
  BY <1>1, <1>2 DEF Slots, Queues
<1>6. \A e : InRows(e)' <=> InRows(e)
  BY <1>1 DEF InRows
<1>7. Threads' /\ StepsExact' /\ Steps' = Steps
  <2>1. \A x \in Steps : x.kind = "next" => Schedules(s') /\ HasNext(s') /\ x.entry = s'.next.serial
    BY <1>2, <1>3 DEF StepsExact, AddKinds, Schedules, HasNext
  <2> QED BY <1>1, <1>2, <1>6, <2>1, StepsSame
<1>8. Following'
  BY <1>1, <1>2, <1>3 DEF Following, Schedules, HasNext
<1>9. CASE ends
  <2>1. Recorded'
    <3>1. PICK v : Sound(v, lastEntry) /\ s' = RequestNext(v, Heard) /\ SameRequest(v, s)
      BY <1>3, <1>9
    <3>2. v.needed /\ Heard => v.asked
      BY <1>2, <3>1 DEF SameRequest, Recorded, Answered
    <3>3. Answered(s', Heard)
      BY <3>1, <3>2, HeardBoolean, AnsweredRequest
    <3> QED BY <1>1, <1>2, <1>3, <3>3, RecordedBy
  <2>2. Replaced'
    BY <1>3, <1>9 DEF Replaced
  <2>3. Carried'
    <3>1. OpOf(s'.current) \notin s'.pending
      BY <1>3, <1>9, PendingOf
    <3> QED BY <1>2, <1>3, <1>7, <3>1 DEF Carried
  <2>4. ReleasedIsGivenBack'
    BY <1>3, <1>9 DEF ReleasedIsGivenBack
  <2>5. KeepsContract
    BY <1>1, <1>2, <1>3, <1>9, ContractProgress
  <2> QED BY <1>4, <1>5, <1>7, <1>8, <2>1, <2>2, <2>3, <2>4, <2>5 DEF IInv
<1>10. CASE ~ends
  <2>1. UNCHANGED s
    BY <1>3, <1>10
  <2>2. Recorded'
    BY <1>1, <1>2, <2>1, RecordedSame
  <2>3. Replaced'
    BY <1>1, <1>2, <1>6, <2>1 DEF Replaced
  <2>4. Carried'
    <3>1. ASSUME OpOf(s.current) \in s.pending PROVE Step("current", s.current.serial) \in Steps
      <4>1. s.phase = "active" /\ s.current.status = "preparing"
        BY <1>2, <3>1, PendingOf
      <4>2. ~s.current.submitted
        BY <1>10, <4>1
      <4> QED BY <1>2, <3>1, <4>2 DEF Carried
    <3> QED BY <1>2, <1>7, <2>1, <3>1 DEF Carried
  <2>5. ReleasedIsGivenBack'
    BY <1>1, <1>2, <2>1 DEF ReleasedIsGivenBack
  <2>6. KeepsContract
    BY <2>1, ContractStutter
  <2> QED BY <1>4, <1>5, <1>7, <1>8, <2>2, <2>3, <2>4, <2>5, <2>6 DEF IInv
<1> QED BY <1>9, <1>10

(* SessionPlaybackExternal: the user's playback takes over, or the shadow   *)
(* playlist is gone.                                                       *)
ExternalAccount ==
  IF s.phase = "active" /\ HasCurrent(s) /\ native.status = "managed" THEN Conflict(native) ELSE native

LEMMA ExternalKeeps ==
  ASSUME IInv, s' = External(s), native' = ExternalAccount, UNCHANGED <<load, lastEntry, nextEntry, currentEntry>>,
         \A e : e # NoEntry /\ InRows(e)' => InRows(e),
         Slots', Threads', StepsExact', Playback', Planned',
         list' \in {"source", "shadow", "other", "own"}, queue' \in Seq(QueueTracks), UNCHANGED ticket,
         upsets' \in 0..MaxUpsets
  PROVE  IInv' /\ KeepsContract
<1>1. /\ Queues /\ Following /\ Replaced /\ Sound(s, lastEntry) /\ lastEntry \in Nat
  BY SessionAssumption DEF IInv, Recorded, Slots
<1>2. native' \in Account /\ (Open(native') => Open(native))
  <2>1. Conflict(native) \in Account
    BY <1>1, StatusMethods DEF Queues
  <2> QED BY <1>1, <2>1 DEF ExternalAccount, Queues, Open
<1>3. Queues'
  BY <1>1, <1>2 DEF Queues
<1>4. CASE s.phase = "active" /\ HasCurrent(s)
  <2> DEFINE u == External(s)
  <2>1. /\ Sound(u, lastEntry) /\ u.owner = s.owner /\ u.phase = "stopped" /\ u.needed = FALSE
        /\ u.next = Nobody
    BY <1>1, <1>4, ExternalRecord
  <2>2. s' = u
    OBVIOUS
  <2> HIDE DEF u
  <2>3. /\ Sound(s', lastEntry') /\ s'.owner = s.owner /\ s'.phase = "stopped" /\ s'.needed = FALSE
        /\ ~HasNext(s')
    BY <2>1, <2>2, NobodyType DEF HasNext
  <2>4. Following'
    BY <2>3 DEF Following
  <2> QED BY <1>3, <1>4, <2>3, <2>4, LeftKeeps
<1>5. CASE ~(s.phase = "active" /\ HasCurrent(s))
  <2>1. s' = s
    BY <1>5 DEF External
  <2>2. s.pending = {}
    BY <1>1, <1>5, PendingOf
  <2>3. Following' /\ Replaced'
    BY <1>1, <2>1 DEF Following, Replaced
  <2> QED BY <1>2, <1>3, <2>1, <2>2, <2>3, StillKeeps
<1> QED BY <1>4, <1>5

LEMMA OnShadowPlaylistRemovedKeeps ==
  ASSUME IInv, OnShadowPlaylistRemoved
  PROVE  IInv' /\ KeepsContract
<1>1. /\ s' = External(s) /\ native' = ExternalAccount /\ idle' = TRUE /\ rows' = <<>>
      /\ item' = Unlocated(item) /\ picked' = Unlocated(picked)
      /\ queue' = [i \in DOMAIN queue |-> IF queue[i].list = "shadow" THEN QueuedTrack(NoRef) ELSE queue[i]]
      /\ EndSession /\ Upset("remove")
      /\ UNCHANGED <<load, ticket, currentEntry, nextEntry, lastEntry, phase, list>>
  BY DEF OnShadowPlaylistRemoved, ExternalAccount
<1>2. /\ Slots /\ Threads /\ Playback /\ Queues /\ Planned /\ StepsExact
  BY DEF IInv
<1>3. Threads' /\ StepsExact'
  BY <1>1, <1>2, EndedSteps
<1>4. Slots'
  <2>1. rows' \in Seq(0..lastEntry')
    BY <1>1, EmptySeq
  <2> QED BY <1>1, <1>2, <2>1 DEF Slots
<1>5. native'.status = "prepared" => native.status = "prepared"
  BY <1>1, <1>2, StatusMethods DEF ExternalAccount, Queues
<1>6. Playback' /\ Planned'
  <2>1. /\ item' \in Tracks /\ (item'.list = "shadow" => item'.row <= 0)
        /\ (item' = NoTrack) <=> (item = NoTrack)
    BY <1>1, <1>2, UnlocatedTrack
  <2>2. /\ picked' \in Tracks /\ picked'.list = picked.list /\ (picked'.list = "shadow" => picked'.row <= 0)
        /\ Settled(picked') /\ (picked.row = NoRow => picked'.row = NoRow)
    BY <1>1, <1>2, UnlocatedTrack DEF Playback
  <2>3. Len(rows') = 0
    BY <1>1
  <2> QED BY <1>1, <1>2, <1>5, <2>1, <2>2, <2>3 DEF Playback, Planned, Located
<1>7. queue' \in Seq(QueueTracks)
  <2>1. Len(queue) \in Nat /\ DOMAIN queue = 1..Len(queue) /\ \A i \in 1..Len(queue) : queue[i] \in QueueTracks
    BY <1>2, LenProperties, ElementOfSeq DEF Queues
  <2>2. QueuedTrack(NoRef) \in QueueTracks
    BY DEF QueuedTrack, Track, QueueTracks, Tracks, NoRow
  <2>3. queue' \in [1..Len(queue) -> QueueTracks]
    BY <1>1, <2>1, <2>2
  <2> QED BY <2>1, <2>3, SeqOfFunction
<1>8. \A e : ~InRows(e)'
  BY <1>1 DEF InRows
<1>9. list' \in {"source", "shadow", "other", "own"} /\ upsets' \in 0..MaxUpsets
  BY <1>1, <1>2, SessionAssumption DEF Queues, Upset
<1> QED BY <1>1, <1>3, <1>4, <1>6, <1>7, <1>8, <1>9, ExternalKeeps

-----------------------------------------------------------------------------
(* The attribution of the track that plays.                                *)
LEMMA AttributeParts ==
  ASSUME NEW l \in Nat, NEW L \in Seq(0..l), NEW row \in Nat, NEW c, NEW n, NEW free \in BOOLEAN,
         Attribute(Table(L), row, c, n, free) # "Release"
  PROVE  LET a == Attribute(Table(L), row, c, n, free) IN
         /\ row \in 1..Len(L) /\ L[row] # NoEntry /\ a \in {"Advance", "SameEntry"}
         /\ a = "Advance" => L[row] = n
         /\ a = "SameEntry" => L[row] = c /\ L[row] # n
<1> DEFINE T == Table(L)
<1>1. Len(L) \in Nat /\ DOMAIN L = 1..Len(L)
  BY LenProperties
<1>2. T.rows = [i \in DOMAIN L |-> Row(L[i], "Single", "handle")] /\ T.stale = FALSE
  BY DEF Table, Reset
<1>3. T.rows \in [1..Len(L) -> {Row(L[i], "Single", "handle") : i \in 1..Len(L)}]
  BY <1>1, <1>2
<1>4. Len(T.rows) = Len(L)
  BY <1>1, <1>3, SeqOfFunction
<1>5. \A i \in 1..Len(L) : T.rows[i].entry = L[i] /\ T.rows[i].kind = "Single"
  BY <1>1, <1>2 DEF Row
<1> HIDE DEF T
<1>6. row \in 1..Len(L)
  BY <1>1, <1>2, <1>4 DEF Attribute, NoRow, T
<1>7. Attribute(T, row, c, n, free) =
        (IF L[row] = NoEntry THEN "Release"
         ELSE IF L[row] = n THEN "Advance"
         ELSE IF L[row] = c THEN "SameEntry"
         ELSE "Release")
  BY <1>1, <1>2, <1>4, <1>5, <1>6 DEF Attribute, NoRow
<1> QED BY <1>6, <1>7 DEF T

(* RemovePlayedRows leaves what is below the row that plays.                *)
LEMMA PlayedRowsGone ==
  ASSUME Slots, Playback, ItemInShadow, item.row \in 1..Len(rows), lastEntry' = lastEntry, UNCHANGED phase,
         rows' = SubSeq(rows, item.row, Len(rows)),
         item' = Shrunk(item, 1, item.row - 1), picked' = Shrunk(picked, 1, item.row - 1),
         Planned, native'.status = "prepared" => native.status = "prepared"
  PROVE  /\ rows' \in Seq(0..lastEntry) /\ (\A e : InRows(e)' => InRows(e))
         /\ Playback' /\ Planned'
<1> DEFINE n == Len(rows)
           r == item.row
<1>1. /\ n \in Nat /\ DOMAIN rows = 1..n /\ rows \in Seq(0..lastEntry) /\ r \in 1..n
  BY LenProperties DEF Slots
<1>2. /\ item \in Tracks /\ picked \in Tracks /\ Settled(picked)
      /\ item.list = "shadow" => item.row <= n
      /\ picked.list = "shadow" => picked.row <= n
  BY DEF Playback, Located
<1>3. /\ rows' \in Seq(0..lastEntry) /\ Len(rows') = n - r + 1
      /\ \A i \in 1..(n - r + 1) : rows'[i] = rows[r + i - 1]
  <2>1. r \in Nat \ {0} /\ n \in 0..Len(rows) /\ r <= n
    BY <1>1
  <2>2. rows' = SubSeq(rows, r, n)
    OBVIOUS
  <2> HIDE DEF r, n
  <2>3. /\ SubSeq(rows, r, n) \in Seq(0..lastEntry)
        /\ Len(SubSeq(rows, r, n)) = IF r <= n THEN n - r + 1 ELSE 0
        /\ \A i \in 1..(n - r + 1) : SubSeq(rows, r, n)[i] = rows[r + i - 1]
    BY <1>1, <2>1, SubSeqInside
  <2> QED BY <2>1, <2>2, <2>3
<1>4. DOMAIN rows' = 1..(n - r + 1)
  BY <1>3, LenProperties
<1>5. \A e : InRows(e)' => InRows(e)
  <2>1. ASSUME NEW i \in 1..(n - r + 1) PROVE r + i - 1 \in 1..n
    BY <1>1
  <2>2. \A i \in DOMAIN rows' : \E j \in DOMAIN rows : rows[j] = rows'[i]
    BY <1>1, <1>3, <1>4, <2>1
  <2> QED BY <2>2 DEF InRows
<1>6. 1 \in 1..(n + 1) /\ r - 1 \in (1 - 1)..n /\ n - ((r - 1) - 1 + 1) = n - r + 1
  BY <1>1
<1>7. item' = Shrunk(item, 1, r - 1) /\ picked' = Shrunk(picked, 1, r - 1)
  OBVIOUS
<1> HIDE DEF n, r
<1> DEFINE q == r - 1
<1>8. q \in (1 - 1)..n /\ n - (q - 1 + 1) = n - r + 1 /\ item' = Shrunk(item, 1, q) /\ picked' = Shrunk(picked, 1, q)
  BY <1>6, <1>7
<1> HIDE DEF q
<1>9. /\ item' \in Tracks /\ (item'.list = "shadow" => item'.row <= n - r + 1)
      /\ (item' = NoTrack) <=> (item = NoTrack)
      /\ picked' \in Tracks /\ picked'.list = picked.list /\ (picked'.list = "shadow" => picked'.row <= n - r + 1)
      /\ Settled(picked') /\ (picked.row = NoRow => picked'.row = NoRow)
  BY <1>1, <1>2, <1>6, <1>8, ShrunkTrack
<1>10. Playback' /\ Planned'
  BY <1>3, <1>9 DEF Playback, Planned, Located
<1> QED BY <1>3, <1>5, <1>10

(* What TrackStarted makes of the record.                                  *)
LEMMA StartedKept ==
  ASSUME IInv, NEW current \in Nat \ {0}, current <= lastEntry, NEW advanced \in BOOLEAN,
         UNCHANGED <<load, lastEntry>>, Follows(s, current), s.current.serial # current => advanced,
         s' = TrackStarted(s, current, advanced, Heard), native' = Started(native, s'.current.ref)
  PROVE  /\ Recorded' /\ KeepsContract /\ Sound(s', lastEntry) /\ s'.phase = "active" /\ s'.current.status = "playing"
         /\ s.current.serial # current => s'.next = Nobody /\ s'.pending = {}
         /\ s.current.serial = current => s'.next = s.next /\ s'.pending = s.pending \ {OpOf(s.current)}
         /\ SameAccount(native', native)
<1>1. Recorded /\ Queues /\ Sound(s, lastEntry) /\ lastEntry \in Nat
  BY SessionAssumption DEF IInv, Recorded, Slots
<1> DEFINE u == TrackStarted(s, current, advanced, Heard)
<1>2. /\ Sound(u, lastEntry) /\ u.phase = "active" /\ u.owner = s.owner /\ u.current.status = "playing"
      /\ s.current.serial # current => u.next = Nobody /\ u.pending = {}
      /\ s.current.serial = current => u.next = s.next /\ u.pending = s.pending \ {OpOf(s.current)}
      /\ \E v : Sound(v, lastEntry) /\ u = RequestNext(v, Heard) /\ ~v.needed
  <2>1. StartedParts(u, s, lastEntry, current, advanced, Heard)
    BY <1>1, HeardBoolean, TrackStartedRecord
  <2> QED BY <2>1 DEF StartedParts
<1>3. s' = u
  OBVIOUS
<1> HIDE DEF u
<1>4. /\ Sound(s', lastEntry) /\ s'.phase = "active" /\ s'.owner = s.owner /\ s'.current.status = "playing"
      /\ s.current.serial # current => s'.next = Nobody /\ s'.pending = {}
      /\ s.current.serial = current => s'.next = s.next /\ s'.pending = s.pending \ {OpOf(s.current)}
  BY <1>2, <1>3
<1>5. Recorded'
  <2>1. PICK v : Sound(v, lastEntry) /\ u = RequestNext(v, Heard) /\ ~v.needed
    BY <1>2
  <2>2. Answered(s', Heard)
    BY <1>3, <2>1, HeardBoolean, AnsweredRequest
  <2>3. UNCHANGED load /\ Sound(s', lastEntry')
    BY <1>4
  <2> QED BY <1>1, <1>4, <2>2, <2>3, RecordedBy
<1>6. KeepsContract
  <2>1. s'.pending \subseteq s.pending /\ Sound(s', lastEntry')
    BY <1>4
  <2>2. CASE s.phase = "active"
    BY <1>1, <1>4, <2>1, <2>2, ContractProgress
  <2>3. CASE s.phase = "stopped"
    BY <1>1, <1>4, <2>1, <2>3, ContractResume
  <2> QED BY <2>2, <2>3 DEF Follows, Schedules
<1>7. SameAccount(native', native)
  <2>1. s'.current.ref \in Ref
    BY <1>4 DEF Sound, Record, SessionEntry
  <2> QED BY <1>1, <2>1, StartedAccount DEF Queues
<1> QED BY <1>4, <1>5, <1>6, <1>7

(* A start that goes to another track than the session's leaves it.         *)
LEMMA ReleaseSessionKeeps ==
  ASSUME IInv, posted # <<>>, Head(posted).kind = "track", ReleaseSession,
         UNCHANGED <<load, lastEntry, ticket, currentEntry, nextEntry, item, picked, phase, list, queue, upsets>>
  PROVE  IInv' /\ KeepsContract
<1>1. Slots /\ Threads /\ Playback /\ Queues /\ Planned /\ StepsExact
  BY DEF IInv
<1>2. CASE idle
  <2>1. UNCHANGED <<s, native, idle, rows, resolving>> /\ posted' = Tail(posted)
    BY <1>2 DEF ReleaseSession
  <2>2. posted' \in Seq(Waiting) /\ OnceEach(posted') /\ SameAdds(posted')
    BY <1>1, <2>1, TailParts, WaitingSteps DEF Threads, StepsExact, SameAdds
  <2>3. Playback' /\ Queues' /\ Planned'
    BY <1>1, <2>1 DEF Playback, Queues, Planned, Located
  <2> QED BY <2>1, <2>2, <2>3, PlayerStep DEF managerVars
<1>3. CASE ~idle
  <2>1. /\ s' = External(s) /\ native' = ExternalAccount /\ idle' = TRUE /\ rows' = Ownerless(rows)
        /\ EndSession
    BY <1>3 DEF ReleaseSession, ExternalAccount
  <2>2. Threads' /\ StepsExact'
    BY <1>1, <2>1, EndedSteps
  <2>3. Len(rows) \in Nat /\ DOMAIN rows = 1..Len(rows)
    BY <1>1, LenProperties DEF Slots
  <2>4. rows' \in Seq(0..lastEntry) /\ Len(rows') = Len(rows) /\ \A i \in DOMAIN rows' : rows'[i] = NoEntry
    <3>1. rows' = [i \in 1..Len(rows) |-> NoEntry]
      BY <2>1, <2>3 DEF Ownerless
    <3>2. NoEntry \in 0..lastEntry
      BY <1>1, SessionAssumption DEF Slots, NoEntry
    <3>3. rows' \in [1..Len(rows) -> 0..lastEntry]
      BY <3>1, <3>2
    <3> QED BY <2>3, <3>1, <3>3, SeqOfFunction
  <2>5. Slots'
    BY <1>1, <2>1, <2>4 DEF Slots
  <2>6. \A e : e # NoEntry /\ InRows(e)' => InRows(e)
    BY <2>4 DEF InRows
  <2>7. native'.status = "prepared" => native.status = "prepared"
    BY <1>1, <2>1, StatusMethods DEF ExternalAccount, Queues
  <2>8. Playback' /\ Planned'
    BY <1>1, <2>4, <2>7 DEF Playback, Planned, Located
  <2> QED BY <1>1, <2>1, <2>2, <2>5, <2>6, <2>8, ExternalKeeps DEF Queues
<1> QED BY <1>2, <1>3

(* The row that plays is that of an entry.                                 *)
LEMMA TrackingParts ==
  ASSUME IInv, ItemInShadow, item.row \in 1..Len(rows), phase = "playing",
         NEW attribution \in {"Advance", "SameEntry"}, TracksRow(attribution),
         UNCHANGED <<load, lastEntry, phase, list, queue, upsets>>
  PROVE  /\ Slots' /\ Playback' /\ Planned' /\ Queues' /\ (\A e : InRows(e)' => InRows(e))
         /\ native' \in Account /\ native'.status = native.status
<1>1. Slots /\ Threads /\ Playback /\ Queues /\ Planned /\ StepsExact /\ Recorded
  BY DEF IInv
<1>2. /\ rows' = SubSeq(rows, item.row, Len(rows)) /\ idle' = FALSE /\ ticket' = NoTicket
      /\ item' = Shrunk(item, 1, item.row - 1) /\ picked' = Shrunk(picked, 1, item.row - 1)
      /\ currentEntry' \in {currentEntry, nextEntry} /\ nextEntry' \in {nextEntry, NoEntry}
  BY DEF TracksRow
<1>3. native' \in Account /\ native'.status = native.status
  <2>1. CASE native' = native
    BY <1>1, <2>1 DEF Queues
  <2>2. CASE native' # native
    <3> DEFINE c == IF attribution = "Advance" THEN nextEntry ELSE currentEntry
               t == TrackStarted(s, c, attribution = "Advance", Heard)
    <3>1. Follows(s, c) /\ native' = Started(native, t.current.ref)
      BY <2>2 DEF TracksRow
    <3>2. c \in 0..lastEntry /\ lastEntry \in Nat /\ Sound(s, lastEntry)
      BY <1>1, SessionAssumption DEF Slots, Recorded
    <3>3. Started(native, t.current.ref) \in Account /\ Started(native, t.current.ref).status = native.status
      <4>1. CASE t.current.ref \in Ref
        BY <1>1, <4>1, StartedAccount DEF Queues, SameAccount
      <4>2. CASE t.current.ref \notin Ref
        <5>1. Started(native, t.current.ref) = native
          BY <4>2 DEF Started, Ref
        <5> QED BY <1>1, <5>1 DEF Queues
      <4> QED BY <4>1, <4>2
    <3> QED BY <3>1, <3>3
  <2> QED BY <2>1, <2>2
<1>4. /\ rows' \in Seq(0..lastEntry) /\ (\A e : InRows(e)' => InRows(e))
      /\ Playback' /\ Planned'
  BY <1>1, <1>2, <1>3, PlayedRowsGone
<1>5. Slots'
  <2>1. NoEntry \in 0..lastEntry /\ lastEntry' = lastEntry
    BY <1>1, SessionAssumption DEF Slots, NoEntry
  <2> QED BY <1>1, <1>2, <1>4, <2>1 DEF Slots
<1>6. Queues'
  BY <1>1, <1>2, <1>3, NoTicketType DEF Queues
<1> QED BY <1>3, <1>4, <1>5, <1>6

LEMMA AdvanceKeeps ==
  ASSUME IInv, ItemInShadow, item.row \in 1..Len(rows), phase = "playing",
         rows[item.row] = nextEntry, nextEntry # NoEntry, TracksRow("Advance"),
         UNCHANGED <<load, lastEntry, phase, list, queue, upsets>>
  PROVE  IInv' /\ KeepsContract
<1>1. /\ Slots /\ Threads /\ StepsExact /\ Recorded /\ Following /\ Replaced /\ Sound(s, lastEntry)
      /\ lastEntry \in Nat /\ ReleasedIsGivenBack
  BY SessionAssumption DEF IInv, Recorded, Slots
<1>2. /\ Slots' /\ Playback' /\ Planned' /\ Queues' /\ (\A e : InRows(e)' => InRows(e))
      /\ native'.status = native.status
  BY TrackingParts
<1>3. currentEntry' = nextEntry /\ nextEntry' = NoEntry /\ EndSession
  BY DEF TracksRow
<1>4. Threads' /\ StepsExact'
  BY <1>1, <1>3, EndedSteps
<1>5. InRows(nextEntry) /\ nextEntry \in Nat \ {0} /\ nextEntry <= lastEntry
  <2>1. item.row \in DOMAIN rows
    BY <1>1, LenProperties DEF Slots
  <2> QED BY <1>1, <2>1 DEF InRows, Slots, NoEntry
<1>6. CASE Follows(s, nextEntry)
  <2>1. PICK c \in Nat \ {0} : c = nextEntry
    BY <1>5
  <2>2. s' = TrackStarted(s, c, TRUE, Heard) /\ native' = Started(native, s'.current.ref)
    BY <1>6, <2>1 DEF TracksRow
  <2>3. c <= lastEntry /\ Follows(s, c) /\ TRUE \in BOOLEAN /\ UNCHANGED <<load, lastEntry>>
    BY <1>5, <1>6, <2>1
  <2>4. /\ Recorded' /\ KeepsContract /\ Sound(s', lastEntry) /\ s'.phase = "active" /\ s'.current.status = "playing"
        /\ s.current.serial # c => s'.next = Nobody /\ s'.pending = {}
        /\ s.current.serial = c => s'.next = s.next /\ s'.pending = s.pending \ {OpOf(s.current)}
    BY <2>2, <2>3, StartedKept
  <2>5. ~HasNext(s') /\ s'.pending = {}
    <3>1. CASE s.current.serial # c
      BY <2>4, <3>1, NobodyType DEF HasNext
    <3>2. CASE s.current.serial = c
      <4>1. ~HasNext(s)
        <5>1. ASSUME HasNext(s) PROVE FALSE
          <6>1. nextEntry = s.next.serial
            BY <1>1, <1>6, <5>1 DEF Following, Follows
          <6>2. s.current.serial < s.next.serial
            BY <1>1, <5>1 DEF Sound
          <6> QED BY <1>5, <2>1, <3>2, <6>1, <6>2
        <5> QED BY <5>1
      <4>2. \A o \in s.pending : o = OpOf(s.current)
        BY <1>1, <4>1, PendingOf
      <4> QED BY <2>4, <3>2, <4>1, <4>2 DEF HasNext
    <3> QED BY <3>1, <3>2
  <2>6. Following' /\ Replaced' /\ Carried' /\ ReleasedIsGivenBack'
    BY <2>4, <2>5 DEF Following, Replaced, Carried, ReleasedIsGivenBack
  <2> QED BY <1>2, <1>4, <2>4, <2>6 DEF IInv
<1>7. CASE ~Follows(s, nextEntry)
  <2>1. UNCHANGED <<s, native>>
    BY <1>7 DEF TracksRow
  <2>2. ~HasNext(s) \/ ~Schedules(s)
    <3>1. HasNext(s) => HasCurrent(s)
      BY <1>1 DEF Sound
    <3> QED BY <1>1, <1>7, <3>1 DEF Following, Follows
  <2>3. s.pending = {}
    <3>1. ASSUME s.pending # {} PROVE FALSE
      <4>1. s.phase = "active" /\ HasCurrent(s)
        BY <1>1, <3>1, PendingOf
      <4>2. ~HasNext(s)
        BY <2>2, <4>1 DEF Schedules
      <4>3. s.current.status = "preparing"
        BY <1>1, <3>1, <4>2, PendingOf
      <4>4. nextEntry = s.current.serial
        BY <1>1, <1>5, <4>1, <4>2, <4>3 DEF Replaced, NoEntry
      <4> QED BY <1>7, <4>1, <4>4 DEF Follows, Schedules
    <3> QED BY <3>1
  <2>4. Following' /\ Replaced'
    BY <1>3, <2>1, <2>2 DEF Following, Replaced
  <2>5. Open(native') => Open(native)
    BY <2>1
  <2> QED BY <1>2, <1>4, <2>1, <2>3, <2>4, <2>5, StillKeeps
<1> QED BY <1>6, <1>7

LEMMA SameEntryKeeps ==
  ASSUME IInv, posted # <<>>, Head(posted).kind = "track",
         ItemInShadow, item.row \in 1..Len(rows), phase = "playing",
         rows[item.row] = currentEntry, currentEntry # NoEntry, TracksRow("SameEntry"),
         UNCHANGED <<load, lastEntry, phase, list, queue, upsets>>
  PROVE  IInv' /\ KeepsContract
<1>1. /\ Slots /\ Threads /\ StepsExact /\ Recorded /\ Following /\ Replaced /\ Carried /\ Sound(s, lastEntry)
      /\ lastEntry \in Nat /\ ReleasedIsGivenBack
  BY SessionAssumption DEF IInv, Recorded, Slots
<1>2. /\ Slots' /\ Playback' /\ Planned' /\ Queues' /\ (\A e : InRows(e)' => InRows(e))
      /\ native'.status = native.status
  BY TrackingParts
<1>3. UNCHANGED <<currentEntry, nextEntry, resolving>> /\ posted' = Tail(posted)
  BY DEF TracksRow
<1>4. currentEntry \in Nat \ {0} /\ currentEntry <= lastEntry
  BY <1>1 DEF Slots, NoEntry
<1>5. ASSUME Schedules(s') = Schedules(s), s'.next = s.next
      PROVE  Threads' /\ StepsExact' /\ \A x \in Steps : x.kind \in AddKinds => x \in Steps'
  <2>1. \A x \in Steps : x.kind = "next" => Schedules(s') /\ HasNext(s') /\ x.entry = s'.next.serial
    BY <1>1, <1>5 DEF StepsExact, AddKinds, HasNext
  <2>2. /\ Threads' /\ StepsExact'
        /\ \A x \in Steps : x # Head(posted) => x \in Steps'
    BY <1>1, <1>2, <1>3, <2>1, HeadTaken
  <2> QED BY <2>2, WaitingSteps
<1>6. CASE Follows(s, currentEntry)
  <2>1. PICK c \in Nat \ {0} : c = currentEntry
    BY <1>4
  <2>2. s' = TrackStarted(s, c, FALSE, Heard) /\ native' = Started(native, s'.current.ref)
    BY <1>6, <2>1 DEF TracksRow
  <2>3. s.current.serial = c
    <3>1. ASSUME s.current.serial # c PROVE FALSE
      <4>1. s.next.serial = c /\ Schedules(s)
        BY <1>6, <2>1, <3>1 DEF Follows
      <4>2. HasNext(s)
        BY <4>1 DEF HasNext, NoSerial
      <4> QED BY <1>1, <2>1, <4>1, <4>2 DEF Following
    <3> QED BY <3>1
  <2>4. c <= lastEntry /\ Follows(s, c) /\ FALSE \in BOOLEAN /\ UNCHANGED <<load, lastEntry>>
    BY <1>4, <1>6, <2>1
  <2>5. /\ Recorded' /\ KeepsContract /\ Sound(s', lastEntry) /\ s'.phase = "active" /\ s'.current.status = "playing"
        /\ s'.next = s.next /\ s'.pending = s.pending \ {OpOf(s.current)}
    BY <2>2, <2>3, <2>4, StartedKept
  <2>6. Schedules(s) = TRUE /\ Schedules(s') = TRUE
    BY <1>6, <2>5 DEF Follows, Schedules
  <2>7. Threads' /\ StepsExact' /\ \A x \in Steps : x.kind \in AddKinds => x \in Steps'
    BY <1>5, <2>5, <2>6
  <2>8. Following' /\ Replaced' /\ ReleasedIsGivenBack'
    BY <1>1, <1>3, <2>5, <2>6 DEF Following, Replaced, ReleasedIsGivenBack, HasNext
  <2>9. Carried'
    <3>1. OpOf(s'.current) \notin s'.pending
      BY <2>5 DEF Sound
    <3>2. Step("next", s.next.serial).kind \in AddKinds
      BY DEF Step, AddKinds
    <3> QED BY <1>1, <2>5, <2>7, <3>1, <3>2 DEF Carried
  <2> QED BY <1>2, <2>5, <2>7, <2>8, <2>9 DEF IInv
<1>7. CASE ~Follows(s, currentEntry)
  <2>1. UNCHANGED <<s, native>>
    BY <1>7 DEF TracksRow
  <2>2. Threads' /\ StepsExact' /\ \A x \in Steps : x.kind \in AddKinds => x \in Steps'
    BY <1>5, <2>1
  <2>3. Following' /\ Replaced' /\ ReleasedIsGivenBack'
    BY <1>1, <1>2, <1>3, <2>1 DEF Following, Replaced, ReleasedIsGivenBack
  <2>4. Carried'
    <3>1. /\ Step("next", s.next.serial).kind \in AddKinds
          /\ Step("current", s.current.serial).kind \in AddKinds
      BY DEF Step, AddKinds
    <3> QED BY <1>1, <2>1, <2>2, <3>1 DEF Carried
  <2>5. Recorded' /\ KeepsContract
    BY <1>1, <2>1, RecordedSame, ContractStutter
  <2> QED BY <1>2, <2>2, <2>3, <2>4, <2>5 DEF IInv
<1> QED BY <1>6, <1>7

LEMMA AttributeNewTrackKeeps ==
  ASSUME IInv, AttributeNewTrack
  PROVE  IInv' /\ KeepsContract
<1>1. /\ Slots /\ Threads /\ Playback /\ Queues /\ Planned /\ StepsExact
      /\ posted # <<>> /\ Head(posted).kind = "track"
      /\ UNCHANGED <<load, lastEntry, phase, list, queue, upsets>>
  BY DEF IInv, AttributeNewTrack
<1> DEFINE row == IF ItemInShadow THEN item.row ELSE NoRow
           a == Attribute(Table(rows), row, currentEntry, nextEntry, idle)
<1>2. CASE phase # "playing"
  <2>1. posted' = Tail(posted) /\ UNCHANGED <<s, native, ticket, idle, currentEntry, nextEntry, rows, resolving, item, picked>>
    BY <1>2 DEF AttributeNewTrack, managerVars
  <2>2. posted' \in Seq(Waiting) /\ OnceEach(posted') /\ SameAdds(posted')
    BY <1>1, <2>1, TailParts, WaitingSteps DEF Threads, StepsExact, SameAdds
  <2>3. Playback' /\ Queues' /\ Planned'
    BY <1>1, <2>1 DEF Playback, Queues, Planned, Located
  <2> QED BY <1>1, <2>1, <2>2, <2>3, PlayerStep DEF managerVars
<1>3. CASE phase = "playing" /\ a = "Release"
  <2>1. ReleaseSession /\ UNCHANGED <<ticket, currentEntry, nextEntry, item, picked>>
    BY <1>3 DEF AttributeNewTrack
  <2> QED BY <1>1, <2>1, ReleaseSessionKeeps
<1>4. CASE phase = "playing" /\ a # "Release"
  <2>1. TracksRow(a)
    BY <1>4 DEF AttributeNewTrack
  <2>2. /\ row \in 1..Len(rows) /\ rows[row] # NoEntry /\ a \in {"Advance", "SameEntry"}
        /\ a = "Advance" => rows[row] = nextEntry
        /\ a = "SameEntry" => rows[row] = currentEntry
    <3>1. lastEntry \in Nat /\ rows \in Seq(0..lastEntry) /\ idle \in BOOLEAN /\ row \in Nat
      BY <1>1, SessionAssumption DEF Slots, Playback, Tracks, NoRow
    <3> HIDE DEF row
    <3> QED BY <1>4, <3>1, AttributeParts
  <2>3. ItemInShadow /\ row = item.row
    <3>1. row # NoRow
      BY <1>1, <2>2, LenProperties DEF Slots, NoRow
    <3> QED BY <3>1
  <2> HIDE DEF row, a
  <2>4. CASE a = "Advance"
    BY <1>1, <1>4, <2>1, <2>2, <2>3, <2>4, AdvanceKeeps
  <2>5. CASE a = "SameEntry"
    BY <1>1, <1>4, <2>1, <2>2, <2>3, <2>5, SameEntryKeeps
  <2> QED BY <2>2, <2>4, <2>5
<1> QED BY <1>2, <1>3, <1>4

-----------------------------------------------------------------------------
(* A waiting add is taken: L, it and pk are the rows and the player's       *)
(* tracks as its step finds them.                                          *)
RowsFound(L, it, pk) ==
  /\ L \in Seq(0..lastEntry) /\ (\A i \in 1..Len(L) : InRows(L[i]))
  /\ it \in Tracks /\ pk \in Tracks /\ Settled(pk)
  /\ it.list = "shadow" => it.row <= Len(L)
  /\ pk.list = "shadow" => pk.row <= Len(L)
  /\ (it = NoTrack) <=> (item = NoTrack)
  /\ pk.list = picked.list /\ (picked.row = NoRow => pk.row = NoRow)
Taking(step) ==
  /\ step \in Steps /\ step.kind \in AddKinds
  /\ posted' \in Seq(Waiting) /\ OnceEach(posted') /\ resolving' \in SUBSET Waiting
  /\ \A x \in resolving' : x.kind \in AddKinds /\ x \notin Elements(posted')
  /\ \A x \in Elements(posted') \cup resolving' : x.kind \in AddKinds => x \in Steps /\ x # step
  /\ \A x \in Steps : x # step => x \in Elements(posted') \cup resolving'
  /\ UNCHANGED <<load, idle, currentEntry, nextEntry, lastEntry, upsets>>

LEMMA TakenSteps ==
  ASSUME IInv, NEW step, Taking(step),
         \A e : InRows(e)' => InRows(e) \/ e = step.entry,
         \A x \in Steps : x.kind = "next" /\ x # step => Schedules(s') /\ HasNext(s') /\ x.entry = s'.next.serial
  PROVE  /\ Threads' /\ StepsExact'
         /\ \A x \in Steps : x # step => x \in Steps'
<1>1. Slots /\ Threads /\ StepsExact
  BY DEF IInv
<1>2. Steps' = Elements(posted') \cup resolving'
  BY DEF Steps, Elements
<1>3. /\ step \in Steps /\ step.kind \in AddKinds
      /\ posted' \in Seq(Waiting) /\ OnceEach(posted') /\ resolving' \in SUBSET Waiting
      /\ \A x \in resolving' : x.kind \in AddKinds /\ x \notin Elements(posted')
      /\ \A x \in Steps' : x.kind \in AddKinds => x \in Steps /\ x # step
      /\ \A x \in Steps : x # step => x \in Steps'
      /\ nextEntry' = nextEntry /\ lastEntry' = lastEntry
  BY <1>2 DEF Taking
<1>4. \A x \in Steps' : x.kind \in AddKinds => x.entry \in 1..lastEntry
  BY <1>1, <1>3 DEF Threads
<1>5. Threads'
  BY <1>3, <1>4 DEF Threads
<1>6. ASSUME NEW x \in Steps', x.kind \in AddKinds
      PROVE  /\ ~InRows(x.entry)'
             /\ \A y \in Steps' : y.kind \in AddKinds /\ y.entry = x.entry => y = x
             /\ x.kind = "next" => Schedules(s') /\ HasNext(s') /\ x.entry = s'.next.serial
             /\ x.kind = "current" => x.entry # nextEntry'
  <2>1. x \in Steps /\ x # step
    BY <1>3, <1>6
  <2>2. x.entry # step.entry
    BY <1>1, <1>3, <1>6, <2>1 DEF StepsExact
  <2>3. ~InRows(x.entry)'
    BY <1>1, <1>6, <2>1, <2>2 DEF StepsExact
  <2>4. \A y \in Steps' : y.kind \in AddKinds /\ y.entry = x.entry => y = x
    BY <1>1, <1>3, <1>6, <2>1 DEF StepsExact
  <2>5. x.kind = "current" => x.entry # nextEntry'
    BY <1>1, <1>3, <1>6, <2>1 DEF StepsExact
  <2> QED BY <2>1, <2>3, <2>4, <2>5
<1>7. OnceEach(posted)' /\ \A x \in resolving' : x \notin Elements(posted)'
  BY <1>3 DEF OnceEach, Elements
<1>8. StepsExact'
  BY <1>6, <1>7 DEF StepsExact
<1> QED BY <1>3, <1>5, <1>8

(* The location of the add gave nothing.                                   *)
LEMMA FoundKept ==
  ASSUME IInv, NEW step, Taking(step), NEW L, NEW it, NEW pk, RowsFound(L, it, pk),
         rows' = L, item' = it, picked' = pk, UNCHANGED phase,
         native'.status = native.status
  PROVE  Slots' /\ Playback' /\ Planned' /\ \A e : InRows(e)' => InRows(e)
<1>1. Slots /\ Playback /\ Planned /\ UNCHANGED <<load, idle, currentEntry, nextEntry, lastEntry>>
  BY DEF IInv, Taking
<1>2. Slots'
  BY <1>1 DEF Slots, RowsFound
<1>3. Playback' /\ Planned'
  BY <1>1 DEF RowsFound, Playback, Planned, Located
<1>4. DOMAIN L = 1..Len(L)
  BY LenProperties DEF RowsFound
<1>5. \A e : InRows(e)' => InRows(e)
  BY <1>4 DEF RowsFound, InRows
<1> QED BY <1>2, <1>3, <1>5

FailedAccount(e) ==
  LET failed == {entry \in {s.current, s.next} : OpOf(entry) \in s.pending /\ entry.serial = e}
      refs == {entry.ref : entry \in failed} \cap Occurrence
  IN IF native.status = "none" \/ refs = {} THEN native
     ELSE Indeterminate(native, CHOOSE o \in refs : TRUE)

LEMMA FailedAccountType ==
  ASSUME native \in Account, NEW e
  PROVE  FailedAccount(e) \in Account /\ FailedAccount(e).status = native.status
<1> DEFINE refs == {entry.ref : entry \in {x \in {s.current, s.next} : OpOf(x) \in s.pending /\ x.serial = e}}
                     \cap Occurrence
<1>1. CASE native.status = "none" \/ refs = {}
  BY <1>1 DEF FailedAccount
<1>2. CASE ~(native.status = "none" \/ refs = {})
  <2>1. PICK o \in Occurrence : FailedAccount(e) = Indeterminate(native, o)
    BY <1>2 DEF FailedAccount
  <2>2. SameAccount(Indeterminate(native, o), native)
    BY MovedAccount
  <2> QED BY <2>1, <2>2 DEF SameAccount
<1> QED BY <1>1, <1>2

LEMMA FailAddKeeps ==
  ASSUME IInv, NEW step, Taking(step), NEW L, NEW it, NEW pk, RowsFound(L, it, pk),
         FailAdd(step.entry, L, it, pk)
  PROVE  IInv' /\ KeepsContract
<1> DEFINE e == step.entry
           failed == {o \in s.pending : o.entry = e}
<1>1. /\ s' = FailOperation(s, e, Heard) /\ native' = FailedAccount(e)
      /\ rows' = L /\ item' = it /\ picked' = pk
      /\ UNCHANGED <<ticket, queue, phase, list>>
  BY DEF FailAdd, FailedAccount
<1>2. /\ Slots /\ Threads /\ Playback /\ Queues /\ Planned /\ Recorded /\ Following /\ Replaced /\ StepsExact
      /\ Carried /\ ReleasedIsGivenBack /\ Sound(s, lastEntry) /\ lastEntry \in Nat
      /\ step \in Steps /\ step.kind \in AddKinds
      /\ UNCHANGED <<load, idle, currentEntry, nextEntry, lastEntry, upsets>>
  BY SessionAssumption DEF IInv, Recorded, Slots, Taking
<1>3. e \in 1..lastEntry /\ ~InRows(e)
  BY <1>2 DEF Threads, StepsExact
<1>4. native' \in Account /\ native'.status = native.status
  BY <1>1, <1>2, FailedAccountType DEF Queues
<1>5. Slots' /\ Playback' /\ Planned' /\ \A x : InRows(x)' => InRows(x)
  BY <1>1, <1>4, FoundKept
<1>6. Queues'
  BY <1>1, <1>2, <1>4 DEF Queues
<1> HIDE DEF e
<1>7. /\ Sound(s', lastEntry) /\ SameFlags(s', s) /\ s'.pending = s.pending \ failed
      /\ s'.current.serial = s.current.serial /\ s'.current.submitted = s.current.submitted
      /\ s'.current = s.current \/ (s'.current.status = "ended" /\ OpOf(s.current) \in failed)
      /\ OpOf(s.current) \in failed => s'.current.status = "ended"
      /\ s'.current.op = s.current.op
      /\ \/ s'.next = s.next /\ s'.ready = s.ready /\ OpOf(s.next) \notin failed
         \/ s'.next = Nobody /\ s'.ready = FALSE /\ OpOf(s.next) \in failed
      /\ failed = {} => s' = s
      /\ failed # {} => \E v : Sound(v, lastEntry) /\ s' = RequestNext(v, Heard)
                               /\ (SameRequest(v, s) \/ ~v.needed)
  <2> DEFINE u == FailOperation(s, e, Heard)
  <2>1. e \in Nat
    BY <1>2, <1>3
  <2>2. /\ Sound(u, lastEntry) /\ SameFlags(u, s) /\ u.pending = s.pending \ failed
        /\ u.current.serial = s.current.serial /\ u.current.submitted = s.current.submitted
        /\ u.current = s.current \/ (u.current.status = "ended" /\ OpOf(s.current) \in failed)
        /\ OpOf(s.current) \in failed => u.current.status = "ended"
        /\ u.current.op = s.current.op
        /\ \/ u.next = s.next /\ u.ready = s.ready /\ OpOf(s.next) \notin failed
           \/ u.next = Nobody /\ u.ready = FALSE /\ OpOf(s.next) \in failed
        /\ failed = {} => u = s
        /\ failed # {} => \E v : Sound(v, lastEntry) /\ u = RequestNext(v, Heard)
                                 /\ (SameRequest(v, s) \/ ~v.needed)
    <3>1. FailedParts(u, s, lastEntry, failed, Heard)
      BY <1>2, <2>1, HeardBoolean, FailRecord
    <3> QED BY <3>1 DEF FailedParts
  <2>3. s' = u
    BY <1>1
  <2> HIDE DEF u, failed
  <2> QED BY <2>2, <2>3
<1>8. s'.phase = s.phase /\ s'.owner = s.owner /\ Schedules(s') = Schedules(s)
  BY <1>7 DEF SameFlags, Schedules
<1>9. OpOf(s.next).entry = s.next.serial /\ OpOf(s.current).entry = s.current.serial
  BY DEF OpOf
<1>10. OpOf(s.next) \in failed => e = s.next.serial /\ HasNext(s) /\ s.phase = "active"
  BY <1>2, <1>9, PendingOf
<1>11. ASSUME NEW x \in Steps, x.kind = "next", x # step
       PROVE  Schedules(s') /\ HasNext(s') /\ x.entry = s'.next.serial
  <2>1. Schedules(s) /\ HasNext(s) /\ x.entry = s.next.serial /\ x.kind \in AddKinds
    BY <1>2, <1>11 DEF StepsExact, AddKinds
  <2>2. OpOf(s.next) \notin failed
    <3>1. ASSUME OpOf(s.next) \in failed PROVE FALSE
      <4>1. step.entry = x.entry
        BY <1>10, <2>1, <3>1 DEF e
      <4> QED BY <1>2, <1>11, <2>1, <4>1 DEF StepsExact
    <3> QED BY <3>1
  <2> QED BY <1>7, <1>8, <2>1, <2>2 DEF HasNext
<1>12. Threads' /\ StepsExact' /\ \A x \in Steps : x # step => x \in Steps'
  BY <1>5, <1>11, TakenSteps
<1>13. Recorded'
  <2>1. CASE failed = {}
    <3>1. Answered(s', Heard)
      BY <1>2, <1>7, <2>1 DEF Recorded
    <3> QED BY <1>2, <1>7, <1>8, <3>1, RecordedBy
  <2>2. CASE failed # {}
    <3>1. PICK v : Sound(v, lastEntry) /\ s' = RequestNext(v, Heard) /\ (SameRequest(v, s) \/ ~v.needed)
      BY <1>7, <2>2
    <3>2. v.needed /\ Heard => v.asked
      BY <1>2, <3>1 DEF Recorded, Answered, SameRequest
    <3>3. Answered(s', Heard)
      BY <3>1, <3>2, HeardBoolean, AnsweredRequest
    <3> QED BY <1>2, <1>7, <1>8, <3>3, RecordedBy
  <2> QED BY <2>1, <2>2
<1>14. Following'
  <2>1. HasNext(s') => s'.next = s.next
    BY <1>7, NobodyType DEF HasNext
  <2> QED BY <1>2, <1>8, <2>1 DEF Following, HasNext
<1>15. Replaced'
  <2>1. ASSUME s'.phase = "active", s'.current.status = "preparing", ~HasNext(s'), nextEntry # NoEntry, InRows(nextEntry)'
        PROVE  nextEntry = s'.current.serial
    <3>1. s'.current = s.current /\ s.phase = "active" /\ InRows(nextEntry)
      BY <1>2, <1>5, <1>7, <1>8, <2>1
    <3>2. ~HasNext(s)
      <4>1. ASSUME HasNext(s) PROVE FALSE
        <5>1. OpOf(s.next) \in failed
          BY <1>7, <2>1, <4>1 DEF HasNext
        <5>2. e = nextEntry
          BY <1>2, <1>10, <3>1, <4>1, <5>1 DEF Following, Schedules
        <5> QED BY <1>3, <3>1, <5>2
      <4> QED BY <4>1
    <3> QED BY <1>2, <2>1, <3>1, <3>2 DEF Replaced
  <2>2. nextEntry' = nextEntry
    BY <1>2
  <2> QED BY <2>1, <2>2 DEF Replaced
<1>16. Carried'
  <2>1. ASSUME OpOf(s'.next) \in s'.pending PROVE Step("next", s'.next.serial) \in Steps'
    <3>1. HasNext(s')
      BY <1>7, <2>1, PendingOf
    <3>2. s'.next = s.next /\ OpOf(s.next) \in s.pending /\ OpOf(s.next) \notin failed
      BY <1>7, <2>1, <3>1, NobodyType DEF HasNext
    <3>3. s.next.serial # e
      BY <1>9, <3>2
    <3>4. Step("next", s.next.serial) \in Steps /\ Step("next", s.next.serial) # step
      BY <1>2, <3>2, <3>3 DEF Carried, Step, e
    <3> QED BY <1>12, <3>2, <3>4
  <2>2. ASSUME OpOf(s'.current) \in s'.pending
        PROVE  Step("current", s'.current.serial) \in Steps' \/ (s'.current.submitted /\ phase' # "stopped")
    <3>1. OpOf(s'.current) = OpOf(s.current)
      BY <1>7 DEF OpOf
    <3>2. OpOf(s.current) \in s.pending /\ OpOf(s.current) \notin failed
      BY <1>7, <2>2, <3>1
    <3>3. s.current.serial # e
      BY <1>9, <3>2
    <3>4. CASE Step("current", s.current.serial) \in Steps
      <4>1. Step("current", s.current.serial) # step
        BY <3>3 DEF Step, e
      <4> QED BY <1>7, <1>12, <3>4, <4>1
    <3>5. CASE s.current.submitted /\ phase # "stopped"
      BY <1>1, <1>7, <3>5
    <3> QED BY <1>2, <3>2, <3>4, <3>5 DEF Carried
  <2> QED BY <2>1, <2>2 DEF Carried
<1>17. ReleasedIsGivenBack'
  BY <1>2, <1>4, <1>8 DEF ReleasedIsGivenBack, Open
<1>18. KeepsContract
  <2>1. CASE failed = {}
    BY <1>7, <2>1, ContractStutter
  <2>2. CASE failed # {}
    <3>1. s.phase = "active"
      BY <1>2, <2>2, PendingOf
    <3>2. Sound(s', lastEntry') /\ s'.pending \subseteq s.pending
          /\ s'.current.status \in {s.current.status, "playing", "ended"}
      BY <1>2, <1>7
    <3> QED BY <1>2, <1>8, <3>1, <3>2, ContractProgress
  <2> QED BY <2>1, <2>2
<1> QED BY <1>5, <1>6, <1>12, <1>13, <1>14, <1>15, <1>16, <1>17, <1>18 DEF IInv

(* The location of the current slot is found.                              *)
LEMMA LandCurrentKeeps ==
  ASSUME IInv, NEW step, Taking(step), NEW L, NEW it, NEW pk, RowsFound(L, it, pk),
         step.kind = "current", LandCurrent(step.entry, L)
  PROVE  IInv' /\ KeepsContract
<1> DEFINE e == step.entry
           at == CurrentInsertPosition(Table(L), nextEntry, Len(L))
<1>1. /\ rows' = Splice(L, at, <<e>>) /\ Activate(at + 1) /\ s' = Submitted(s, e)
      /\ native' = MarkSubmitted(native, e) /\ queue' = Requeued(queue, rows') /\ UNCHANGED ticket
  BY DEF LandCurrent
<1>2. /\ Slots /\ Threads /\ Playback /\ Queues /\ Planned /\ Recorded /\ Following /\ Replaced /\ StepsExact
      /\ Carried /\ ReleasedIsGivenBack /\ Sound(s, lastEntry) /\ lastEntry \in Nat
      /\ step \in Steps /\ step.kind \in AddKinds
      /\ UNCHANGED <<load, idle, currentEntry, nextEntry, lastEntry, upsets>>
      /\ L \in Seq(0..lastEntry) /\ (\A i \in 1..Len(L) : InRows(L[i]))
  BY SessionAssumption DEF IInv, Recorded, Slots, Taking, RowsFound
<1>3. e \in 1..lastEntry /\ ~InRows(e) /\ e # nextEntry /\ e \in Nat
  BY <1>2 DEF Threads, StepsExact
<1>4. Len(L) \in Nat /\ DOMAIN L = 1..Len(L) /\ at \in 0..Len(L)
  BY <1>2, RowOfParts
<1> HIDE DEF at, e
<1>5. /\ rows' \in Seq(0..lastEntry) /\ Len(rows') = Len(L) + 1
      /\ \A i \in 1..(Len(L) + 1) : \/ rows'[i] = e
                                    \/ \E j \in 1..Len(L) : rows'[i] = L[j]
  <2>0. <<e>> \in Seq(0..lastEntry) /\ Len(<<e>>) = 1 /\ <<e>>[1] = e
    BY <1>2, <1>3
  <2>1. PICK t \in Seq(0..lastEntry) : t = <<e>> /\ Len(t) = 1 /\ t[1] = e
    BY <2>0
  <2>2. /\ Splice(L, at, t) \in Seq(0..lastEntry)
        /\ Len(Splice(L, at, t)) = Len(L) + 1
        /\ \A i \in 1..(Len(L) + 1) :
             Splice(L, at, t)[i] = IF i <= at THEN L[i] ELSE IF i <= at + 1 THEN t[i - at] ELSE L[i - 1]
    <3>1. /\ Splice(L, at, t) \in Seq(0..lastEntry)
          /\ Len(Splice(L, at, t)) = Len(L) + Len(t)
          /\ \A i \in 1..(Len(L) + Len(t)) :
               Splice(L, at, t)[i] = IF i <= at THEN L[i] ELSE IF i <= at + Len(t) THEN t[i - at] ELSE L[i - Len(t)]
      BY <1>2, <1>4, SpliceParts
    <3> QED BY <2>1, <3>1
  <2>4. rows' = Splice(L, at, t)
    BY <1>1, <2>1
  <2>3. ASSUME NEW i \in 1..(Len(L) + 1) PROVE rows'[i] = e \/ \E j \in 1..Len(L) : rows'[i] = L[j]
    <3>1. CASE i <= at
      BY <1>4, <2>2, <2>4, <3>1
    <3>2. CASE i = at + 1
      <4>1. ~(i <= at) /\ i <= at + 1 /\ i - at = 1
        BY <1>4, <3>2
      <4>2. rows'[i] = t[i - at]
        BY <2>2, <2>4, <4>1
      <4> QED BY <2>1, <4>1, <4>2
    <3>3. CASE i > at + 1
      <4>1. i - 1 \in 1..Len(L) /\ rows'[i] = L[i - 1]
        BY <1>4, <2>2, <2>4, <3>3
      <4> QED BY <4>1
    <3> QED BY <1>4, <3>1, <3>2, <3>3
  <2> QED BY <2>2, <2>3, <2>4
<1>6. \A x : InRows(x)' => InRows(x) \/ x = e
  <2>1. DOMAIN rows' = 1..(Len(L) + 1)
    BY <1>5, LenProperties
  <2> QED BY <1>2, <1>5, <2>1 DEF InRows
<1>7. Slots'
  BY <1>2, <1>5 DEF Slots
<1>8. Playback' /\ Planned' /\ phase' = "opening" /\ list' \in {"source", "shadow", "other", "own"}
  <2>1. at + 1 \in Nat \ {0} /\ at + 1 <= Len(rows')
    BY <1>4, <1>5
  <2> QED BY <1>1, <2>1, Activated
<1>9. native' \in Account /\ native'.status = native.status
  BY <1>1, <1>2, MarkSubmittedAccount DEF SameAccount, Queues
<1>10. Queues'
  <2>1. queue' \in Seq(QueueTracks)
    <3>1. lastEntry \in 0..MaxEntry /\ queue \in Seq(QueueTracks)
      BY <1>2 DEF Slots, Queues
    <3>2. PICK M \in Seq(0..lastEntry) : M = rows'
      BY <1>5
    <3>3. Requeued(queue, M) \in Seq(QueueTracks)
      BY <3>1, RequeuedType
    <3> QED BY <1>1, <3>2, <3>3
  <2> QED BY <1>1, <1>2, <1>8, <1>9, <2>1 DEF Queues
<1>11. /\ Sound(s', lastEntry) /\ SameFlags(s', s) /\ SameRequest(s', s) /\ s'.pending = s.pending
       /\ s'.next = s.next /\ s'.current.serial = s.current.serial /\ s'.current.op = s.current.op
       /\ s'.current.status = s.current.status
       /\ s.phase = "active" /\ s.current.serial = e => s'.current.submitted = TRUE
       /\ ~(s.phase = "active" /\ s.current.serial = e) => s' = s
  <2>1. s \in Record
    BY <1>2 DEF Sound
  <2> QED BY <1>1, <1>2, <1>3, <2>1, SubmittedFields, SubmittedSound
<1>12. /\ s'.phase = s.phase /\ s'.owner = s.owner /\ s'.eoq = s.eoq /\ Schedules(s') = Schedules(s)
       /\ (HasNext(s') <=> HasNext(s)) /\ (HasCurrent(s') <=> HasCurrent(s))
       /\ s'.needed = s.needed /\ s'.asked = s.asked
  BY <1>11 DEF SameFlags, SameRequest, Schedules, HasNext, HasCurrent
<1>13. Threads' /\ StepsExact' /\ \A x \in Steps : x # step => x \in Steps'
  <2>1. \A x \in Steps : x.kind = "next" => Schedules(s') /\ HasNext(s') /\ x.entry = s'.next.serial
    BY <1>2, <1>11, <1>12 DEF StepsExact, AddKinds
  <2>2. \A x : InRows(x)' => InRows(x) \/ x = step.entry
    BY <1>6 DEF e
  <2> QED BY <2>1, <2>2, TakenSteps
<1>14. Recorded'
  <2>1. Answered(s', Heard)
    BY <1>2, <1>11, <1>12 DEF Recorded, Answered
  <2> QED BY <1>2, <1>11, <1>12, <2>1, RecordedBy
<1>15. Following'
  BY <1>2, <1>11, <1>12 DEF Following
<1>16. Replaced'
  <2>1. nextEntry' = nextEntry /\ (InRows(nextEntry)' => InRows(nextEntry))
    <3>1. nextEntry' = nextEntry /\ nextEntry' # e
      BY <1>2, <1>3
    <3> QED BY <1>6, <3>1
  <2> QED BY <1>2, <1>11, <1>12, <2>1 DEF Replaced
<1>17. Carried'
  <2>1. Step("next", s.next.serial) # step
    BY DEF Step
  <2>2. OpOf(s'.current) = OpOf(s.current) /\ OpOf(s'.next) = OpOf(s.next)
    BY <1>11 DEF OpOf
  <2>3. ASSUME OpOf(s'.current) \in s'.pending
        PROVE  Step("current", s'.current.serial) \in Steps' \/ (s'.current.submitted /\ phase' # "stopped")
    <3>1. OpOf(s.current) \in s.pending /\ s.phase = "active"
      BY <1>2, <1>11, <2>2, <2>3, PendingOf
    <3>2. CASE s.current.serial = e
      BY <1>8, <1>11, <3>1, <3>2
    <3>3. CASE s.current.serial # e
      <4>1. s' = s /\ Step("current", s.current.serial) # step
        BY <1>11, <3>3 DEF Step, e
      <4> QED BY <1>2, <1>8, <1>13, <3>1, <4>1 DEF Carried
    <3> QED BY <3>2, <3>3
  <2>4. OpOf(s'.next) \in s'.pending => Step("next", s'.next.serial) \in Steps'
    BY <1>2, <1>11, <1>13, <2>1, <2>2 DEF Carried
  <2> QED BY <2>3, <2>4 DEF Carried
<1>18. ReleasedIsGivenBack'
  BY <1>2, <1>9, <1>12 DEF ReleasedIsGivenBack, Open
<1>19. KeepsContract
  BY <1>2, <1>11, <1>12, ContractSame
<1> QED BY <1>7, <1>8, <1>10, <1>13, <1>14, <1>15, <1>16, <1>17, <1>18, <1>19 DEF IInv

(* The location of the next slot is found.                                 *)
Reported(e) == [entry |-> e, op |-> "add"] \in s.pending /\ s.phase = "active" /\ s.next.serial = e

LEMMA NextRows ==
  ASSUME NEW l \in Nat, NEW L \in Seq(0..l), NEW e \in 0..l
  PROVE  LET keep == KeptRows(L)
             M == Append(SubSeq(L, 1, keep), e)
         IN
         /\ keep \in 0..Len(L) /\ M \in Seq(0..l) /\ Len(M) = keep + 1
         /\ \A i \in 1..Len(M) : M[i] = e \/ \E j \in 1..Len(L) : M[i] = L[j]
<1> DEFINE keep == KeptRows(L)
           K == SubSeq(L, 1, keep)
           M == Append(K, e)
<1>1. Len(L) \in Nat /\ keep \in 0..Len(L)
  <2>1. /\ Len(L) \in Nat
        /\ LastRowOf(Table(L), currentEntry) # NoRow => LastRowOf(Table(L), currentEntry) \in 1..Len(L)
    BY RowOfParts
  <2> QED BY <2>1 DEF KeptRows
<1> HIDE DEF keep
<1>2. K \in Seq(0..l) /\ Len(K) = keep /\ \A i \in 1..keep : K[i] = L[i]
  <2>1. /\ K \in Seq(0..l) /\ Len(K) = IF 1 <= keep THEN keep - 1 + 1 ELSE 0
        /\ \A i \in 1..(keep - 1 + 1) : K[i] = L[1 + i - 1]
    BY <1>1, SubSeqInside
  <2> HIDE DEF K
  <2>2. Len(K) = keep
    BY <1>1, <2>1
  <2>3. ASSUME NEW i \in 1..keep PROVE K[i] = L[i]
    <3>1. 1 + i - 1 = i /\ i \in 1..(keep - 1 + 1)
      BY <1>1
    <3> QED BY <2>1, <3>1
  <2> QED BY <2>1, <2>2, <2>3
<1> HIDE DEF K
<1>3. M \in Seq(0..l) /\ Len(M) = keep + 1 /\ (\A i \in 1..keep : M[i] = K[i]) /\ M[keep + 1] = e
  BY <1>2, AppendProperties
<1> HIDE DEF M
<1>4. ASSUME NEW i \in 1..Len(M) PROVE M[i] = e \/ \E j \in 1..Len(L) : M[i] = L[j]
  <2>1. CASE i = keep + 1
    BY <1>3, <2>1
  <2>2. CASE i # keep + 1
    <3>1. i \in 1..keep /\ i \in 1..Len(L)
      BY <1>1, <1>3, <2>2
    <3> QED BY <1>2, <1>3, <3>1
  <2> QED BY <2>1, <2>2
<1> QED BY <1>1, <1>3, <1>4 DEF M, K, keep

LEMMA LandNextKeeps ==
  ASSUME IInv, NEW step, Taking(step), NEW L, NEW it, NEW pk, RowsFound(L, it, pk),
         step.kind = "next", LandNext(step.entry, L, it, pk)
  PROVE  IInv' /\ KeepsContract
<1> DEFINE e == step.entry
           keep == KeptRows(L)
           row == keep + 1
           reported == Reported(e)
           starts == reported /\ s.current.status = "ended"
<1>1. /\ rows' = Append(SubSeq(L, 1, keep), e)
      /\ s' = IF reported THEN FinishOperation([s EXCEPT !.ready = TRUE], s.next) ELSE s
      /\ starts => /\ Activate(row) /\ native' = MarkSubmitted(native, e)
                   /\ queue' = Requeued(queue, rows') /\ UNCHANGED ticket
      /\ ~starts => /\ item' = Shrunk(it, row, Len(L)) /\ picked' = Shrunk(pk, row, Len(L))
                    /\ IF reported /\ QueuesTicket THEN QueueTicket(row) ELSE UNCHANGED <<ticket, queue, native>>
                    /\ UNCHANGED <<phase, list>>
  BY DEF LandNext, Reported
<1>2. /\ Slots /\ Threads /\ Playback /\ Queues /\ Planned /\ Recorded /\ Following /\ Replaced /\ StepsExact
      /\ Carried /\ ReleasedIsGivenBack /\ Sound(s, lastEntry) /\ lastEntry \in Nat
      /\ step \in Steps /\ step.kind \in AddKinds
      /\ UNCHANGED <<load, idle, currentEntry, nextEntry, lastEntry, upsets>>
      /\ L \in Seq(0..lastEntry) /\ (\A i \in 1..Len(L) : InRows(L[i]))
  BY SessionAssumption DEF IInv, Recorded, Slots, Taking, RowsFound
<1>3. e \in 1..lastEntry /\ e \in 0..lastEntry /\ e \in 0..MaxEntry /\ e \in 1..MaxEntry
  BY <1>2, SessionAssumption DEF Threads, Slots
<1>4. Schedules(s) /\ HasNext(s) /\ e = s.next.serial
  BY <1>2 DEF StepsExact
<1> HIDE DEF e, keep
<1>5. /\ Len(L) \in Nat /\ DOMAIN L = 1..Len(L) /\ keep \in 0..Len(L)
      /\ rows' \in Seq(0..lastEntry) /\ Len(rows') = keep + 1
      /\ \A i \in 1..(keep + 1) : rows'[i] = e \/ \E j \in 1..Len(L) : rows'[i] = L[j]
  <2> DEFINE M == Append(SubSeq(L, 1, keep), e)
  <2>1. /\ keep \in 0..Len(L) /\ M \in Seq(0..lastEntry) /\ Len(M) = keep + 1
        /\ \A i \in 1..Len(M) : M[i] = e \/ \E j \in 1..Len(L) : M[i] = L[j]
    BY <1>2, <1>3, NextRows DEF keep
  <2>2. rows' = M
    BY <1>1
  <2> HIDE DEF M
  <2> QED BY <1>2, <2>1, <2>2, LenProperties
<1>6. \A x : InRows(x)' => InRows(x) \/ x = e
  <2>1. DOMAIN rows' = 1..(keep + 1)
    BY <1>5, LenProperties
  <2> QED BY <1>2, <1>5, <2>1 DEF InRows
<1>7. Slots'
  BY <1>2, <1>5 DEF Slots
<1>8. OpOf(s.next) = [entry |-> e, op |-> "add"]
  BY <1>2, <1>4 DEF Sound, OpOf
<1>9. /\ Sound(s', lastEntry) /\ SameFlags(s', s) /\ SameRequest(s', s)
      /\ s'.current = s.current /\ s'.next = s.next /\ s'.pending \subseteq s.pending
      /\ OpOf(s.next) \notin s'.pending
  <2>1. CASE reported
    <3> DEFINE u == FinishOperation([s EXCEPT !.ready = TRUE], s.next)
    <3>1. /\ Sound(u, lastEntry) /\ SameFlags(u, s) /\ SameRequest(u, s)
          /\ u.current = s.current /\ u.next = s.next /\ u.pending = s.pending \ {OpOf(s.next)}
      BY <1>2, <1>4, LandedRecord
    <3>2. s' = u
      BY <1>1, <2>1
    <3> HIDE DEF u
    <3> QED BY <3>1, <3>2
  <2>2. CASE ~reported
    <3>1. s' = s
      BY <1>1, <2>2
    <3>2. SameFlags(s, s) /\ SameRequest(s, s)
      BY <1>2 DEF SameFlags, SameRequest, Sound
    <3>3. OpOf(s.next) \notin s.pending
      <4>1. ASSUME OpOf(s.next) \in s.pending PROVE FALSE
        <5>1. s.phase = "active"
          BY <1>2, <4>1, PendingOf
        <5> QED BY <1>4, <1>8, <2>2, <4>1, <5>1 DEF Reported
      <4> QED BY <4>1
    <3> QED BY <1>2, <3>1, <3>2, <3>3
  <2> QED BY <2>1, <2>2
<1>10. /\ s'.phase = s.phase /\ s'.owner = s.owner /\ Schedules(s') /\ HasNext(s')
       /\ s'.needed = s.needed /\ s'.asked = s.asked
  BY <1>4, <1>9 DEF SameFlags, SameRequest, Schedules, HasNext
<1>11. /\ native' \in Account /\ native'.status = native.status
       /\ ticket' \in [row : Nat, entry : 0..MaxEntry, of : {NoRef} \cup Occurrence]
       /\ queue' \in Seq(QueueTracks)
  <2>1. CASE starts
    <3>1. native' = MarkSubmitted(native, e) /\ queue' = Requeued(queue, rows') /\ UNCHANGED ticket
      BY <1>1, <2>1
    <3>2. lastEntry \in 0..MaxEntry /\ queue \in Seq(QueueTracks) /\ native \in Account
      BY <1>2 DEF Slots, Queues
    <3>3. PICK M \in Seq(0..lastEntry) : M = rows'
      BY <1>5
    <3>4. Requeued(queue, M) \in Seq(QueueTracks)
      BY <3>2, RequeuedType
    <3>5. SameAccount(MarkSubmitted(native, e), native)
      BY <3>2, MarkSubmittedAccount
    <3> QED BY <1>2, <3>1, <3>3, <3>4, <3>5 DEF SameAccount, Queues
  <2>2. CASE ~starts /\ reported /\ QueuesTicket
    <3>1. QueueTicket(row)
      BY <1>1, <2>2
    <3>2. /\ NativeWithdrawn \in Account /\ NativeWithdrawn.status = native.status
          /\ QueueWithdrawn \in Seq(QueueTracks)
      BY <1>2, NativeWithdrawnAccount, QueueWithdrawnType DEF Queues, SameAccount
    <3>3. row \in Nat
      BY <1>5
    <3> HIDE DEF row
    <3>4. ticket' \in [row : Nat, entry : 0..MaxEntry, of : {NoRef} \cup Occurrence]
      BY <1>3, <1>4, <3>1, <3>3 DEF QueueTicket
    <3>5. queue' \in Seq(QueueTracks)
      <4>1. QueuedRow(row, e) \in QueueTracks
        BY <1>3, <3>3 DEF QueuedRow, Track, QueueTracks, Tracks
      <4>2. queue' = Append(QueueWithdrawn, QueuedRow(row, e))
        BY <1>4, <3>1 DEF QueueTicket
      <4> QED BY <3>2, <4>1, <4>2, AppendProperties
    <3>6. native' \in Account /\ native'.status = native.status
      <4>1. CASE s.next.ref \in Occurrence
        <5>1. SameAccount(Queue(NativeWithdrawn, s.next.ref), NativeWithdrawn)
          BY <3>2, <4>1, MovedAccount
        <5> QED BY <3>1, <3>2, <4>1, <5>1 DEF QueueTicket, SameAccount
      <4>2. CASE s.next.ref \notin Occurrence
        BY <3>1, <3>2, <4>2 DEF QueueTicket
      <4> QED BY <4>1, <4>2
    <3> QED BY <3>4, <3>5, <3>6
  <2>3. CASE ~starts /\ ~(reported /\ QueuesTicket)
    BY <1>1, <1>2, <2>3 DEF Queues
  <2> QED BY <2>1, <2>2, <2>3
<1>12. /\ Playback' /\ Planned' /\ list' \in {"source", "shadow", "other", "own"}
       /\ phase # "stopped" => phase' # "stopped"
  <2>1. CASE starts
    <3>1. row \in Nat \ {0} /\ row <= Len(rows') /\ Activate(row)
      BY <1>1, <1>5, <2>1
    <3> QED BY <3>1, Activated
  <2>2. CASE ~starts
    <3>1. /\ item' = Shrunk(it, row, Len(L)) /\ picked' = Shrunk(pk, row, Len(L)) /\ UNCHANGED <<phase, list>>
      BY <1>1, <2>2
    <3>2. PICK n \in Nat : n = Len(L)
      BY <1>5
    <3>3. row \in 1..(n + 1) /\ n \in (row - 1)..n /\ n - (n - row + 1) = keep
      BY <1>5, <3>2
    <3>4. /\ it \in Tracks /\ pk \in Tracks /\ Settled(pk)
          /\ it.list = "shadow" => it.row <= n
          /\ pk.list = "shadow" => pk.row <= n
          /\ (it = NoTrack) <=> (item = NoTrack)
          /\ pk.list = picked.list /\ (picked.row = NoRow => pk.row = NoRow)
      BY <3>2 DEF RowsFound
    <3> HIDE DEF row
    <3>5. /\ Shrunk(it, row, n) \in Tracks
          /\ Shrunk(it, row, n).list = "shadow" => Shrunk(it, row, n).row <= keep
          /\ (Shrunk(it, row, n) = NoTrack) <=> (it = NoTrack)
      BY <3>3, <3>4, ShrunkTrack
    <3>6. /\ Shrunk(pk, row, n) \in Tracks /\ Shrunk(pk, row, n).list = pk.list
          /\ Shrunk(pk, row, n).list = "shadow" => Shrunk(pk, row, n).row <= keep
          /\ Settled(Shrunk(pk, row, n)) /\ (pk.row = NoRow => Shrunk(pk, row, n).row = NoRow)
      BY <3>3, <3>4, ShrunkTrack
    <3>7. /\ item' \in Tracks /\ (item'.list = "shadow" => item'.row <= keep)
          /\ (item' = NoTrack) <=> (item = NoTrack)
          /\ picked' \in Tracks /\ picked'.list = picked.list
          /\ (picked'.list = "shadow" => picked'.row <= keep)
          /\ Settled(picked') /\ (picked.row = NoRow => picked'.row = NoRow)
      BY <3>1, <3>2, <3>4, <3>5, <3>6
    <3>8. Located(item)' /\ Located(picked)'
      BY <1>5, <3>7 DEF Located, Tracks
    <3>9. Playback'
      BY <1>2, <3>1, <3>7, <3>8 DEF Playback
    <3>10. Planned'
      BY <1>2, <1>11, <3>7 DEF Planned
    <3> QED BY <1>2, <3>1, <3>9, <3>10 DEF Queues
  <2> QED BY <2>1, <2>2
<1>13. Queues'
  BY <1>2, <1>11, <1>12 DEF Queues
<1>14. Threads' /\ StepsExact' /\ \A x \in Steps : x # step => x \in Steps'
  <2>1. \A x \in Steps : x.kind = "next" => Schedules(s') /\ HasNext(s') /\ x.entry = s'.next.serial
    BY <1>2, <1>9, <1>10 DEF StepsExact, AddKinds
  <2>2. \A x : InRows(x)' => InRows(x) \/ x = step.entry
    BY <1>6 DEF e
  <2> QED BY <2>1, <2>2, TakenSteps
<1>15. Recorded'
  <2>1. Answered(s', Heard)
    BY <1>2, <1>9, <1>10 DEF Recorded, Answered
  <2> QED BY <1>2, <1>9, <1>10, <2>1, RecordedBy
<1>16. Following' /\ Replaced'
  BY <1>2, <1>4, <1>9, <1>10 DEF Following, Replaced
<1>17. Carried'
  <2>1. OpOf(s'.next) \notin s'.pending
    BY <1>9
  <2>2. Step("current", s.current.serial) # step
    BY DEF Step
  <2> QED BY <1>2, <1>9, <1>12, <1>14, <2>1, <2>2 DEF Carried
<1>18. ReleasedIsGivenBack'
  BY <1>2, <1>10, <1>11 DEF ReleasedIsGivenBack, Open
<1>19. KeepsContract
  <2>1. CASE s.phase = "active"
    <3>1. Sound(s', lastEntry') /\ s'.current.status \in {s.current.status, "playing", "ended"}
      BY <1>2, <1>9
    <3> QED BY <1>2, <1>9, <1>10, <2>1, <3>1, ContractProgress
  <2>2. CASE s.phase # "active"
    <3>1. ~reported
      BY <2>2 DEF Reported
    <3> QED BY <1>1, <3>1, ContractStutter
  <2> QED BY <2>1, <2>2
<1> QED BY <1>7, <1>12, <1>13, <1>14, <1>15, <1>16, <1>17, <1>18, <1>19 DEF IInv

LEMMA LandKeeps ==
  ASSUME IInv, NEW step, Taking(step), NEW L, NEW it, NEW pk, RowsFound(L, it, pk), Land(step, L, it, pk)
  PROVE  IInv' /\ KeepsContract
<1>1. CASE FailAdd(step.entry, L, it, pk)
  BY <1>1, FailAddKeeps
<1>2. CASE step.kind = "current" /\ LandCurrent(step.entry, L)
  BY <1>2, LandCurrentKeeps
<1>3. CASE step.kind = "next" /\ LandNext(step.entry, L, it, pk)
  BY <1>3, LandNextKeeps
<1> QED BY <1>1, <1>2, <1>3 DEF Land

LEMMA ResolvedKeeps ==
  ASSUME IInv, Resolved
  PROVE  IInv' /\ KeepsContract
<1>1. /\ Slots /\ Threads /\ Playback /\ StepsExact
      /\ UNCHANGED <<load, idle, currentEntry, nextEntry, lastEntry, posted, upsets>>
  BY DEF IInv, Resolved, managerVars
<1>2. PICK step \in resolving : resolving' = resolving \ {step} /\ Land(step, rows, item, picked)
  BY DEF Resolved
<1>3. Taking(step)
  <2>1. step \in Steps /\ step.kind \in AddKinds /\ step \notin Elements(posted)
    BY <1>1 DEF Steps, Threads, StepsExact
  <2>2. /\ posted' \in Seq(Waiting) /\ OnceEach(posted') /\ resolving' \in SUBSET Waiting
        /\ \A x \in resolving' : x.kind \in AddKinds /\ x \notin Elements(posted')
    BY <1>1, <1>2 DEF Threads, StepsExact
  <2>3. /\ \A x \in Elements(posted') \cup resolving' : x.kind \in AddKinds => x \in Steps /\ x # step
        /\ \A x \in Steps : x # step => x \in Elements(posted') \cup resolving'
    BY <1>1, <1>2, <2>1 DEF Steps
  <2> QED BY <1>1, <2>1, <2>2, <2>3 DEF Taking
<1>4. PICK L, it, pk : L = rows /\ it = item /\ pk = picked
  OBVIOUS
<1>5. RowsFound(L, it, pk)
  <2>1. DOMAIN rows = 1..Len(rows)
    BY <1>1, LenProperties DEF Slots
  <2>2. \A i \in 1..Len(rows) : InRows(rows[i])
    BY <2>1 DEF InRows
  <2> QED BY <1>1, <1>4, <2>2 DEF RowsFound, Slots, Playback, Located
<1>6. Land(step, L, it, pk)
  BY <1>2, <1>4
<1> QED BY <1>3, <1>5, <1>6, LandKeeps

(* The location takes a while to be expanded.                              *)
LEMMA ExpandKeeps ==
  ASSUME IInv, posted # <<>>, Head(posted).kind \in AddKinds, posted' = Tail(posted),
         resolving' = resolving \cup {Head(posted)},
         NEW L, NEW it, NEW pk, RowsFound(L, it, pk), rows' = L, item' = it, picked' = pk,
         UNCHANGED <<load, s, native, ticket, queue, phase, list, idle, currentEntry, nextEntry, lastEntry, upsets>>
  PROVE  IInv' /\ KeepsContract
<1>1. /\ Slots /\ Threads /\ Playback /\ Queues /\ Planned /\ Recorded /\ Following /\ Replaced /\ StepsExact
      /\ Carried /\ ReleasedIsGivenBack
  BY DEF IInv
<1>2. /\ posted' \in Seq(Waiting) /\ OnceEach(posted') /\ Head(posted) \in Waiting
      /\ Elements(posted) = Elements(posted') \cup {Head(posted)}
      /\ Head(posted) \notin Elements(posted') /\ Head(posted) \in Elements(posted)
  BY <1>1, TailParts DEF Threads, StepsExact
<1>3. Steps' = Steps
  <2>1. Steps' = Elements(posted') \cup resolving'
    BY DEF Steps, Elements
  <2> QED BY <1>2, <2>1 DEF Steps
<1>4. /\ \A x \in Elements(posted') : x \in Elements(posted)
      /\ \A x \in resolving' : x.kind \in AddKinds /\ x \notin Elements(posted') /\ x \in Waiting
  BY <1>1, <1>2 DEF Threads, StepsExact
<1>5. \A e : InRows(e)' => InRows(e)
  <2>1. DOMAIN L = 1..Len(L)
    BY LenProperties DEF RowsFound
  <2> QED BY <2>1 DEF RowsFound, InRows
<1>6. Slots'
  BY <1>1 DEF Slots, RowsFound
<1>7. Playback' /\ Planned'
  BY <1>1 DEF RowsFound, Playback, Planned, Located
<1>8. Queues'
  BY <1>1 DEF Queues
<1>9. Threads'
  BY <1>1, <1>2, <1>3, <1>4 DEF Threads
<1>10. StepsExact'
  <2>1. OnceEach(posted)' /\ \A x \in resolving' : x \notin Elements(posted)'
    BY <1>2, <1>4 DEF OnceEach, Elements
  <2>2. \A x \in Steps' : x.kind \in AddKinds =>
          /\ ~InRows(x.entry)'
          /\ \A y \in Steps' : y.kind \in AddKinds /\ y.entry = x.entry => y = x
          /\ x.kind = "next" => Schedules(s') /\ HasNext(s') /\ x.entry = s'.next.serial
          /\ x.kind = "current" => x.entry # nextEntry'
    BY <1>1, <1>3, <1>5 DEF StepsExact
  <2> QED BY <2>1, <2>2 DEF StepsExact
<1>11. Following' /\ Replaced'
  <2>1. nextEntry' = nextEntry /\ (InRows(nextEntry)' => InRows(nextEntry))
    BY <1>5
  <2> QED BY <1>1, <2>1 DEF Following, Replaced
<1>12. Carried' /\ ReleasedIsGivenBack'
  BY <1>1, <1>3 DEF Carried, ReleasedIsGivenBack
<1>13. Recorded' /\ KeepsContract
  BY <1>1, RecordedSame, ContractStutter
<1> QED BY <1>6, <1>7, <1>8, <1>9, <1>10, <1>11, <1>12, <1>13 DEF IInv

LEMMA AddToPlaylistKeeps ==
  ASSUME IInv, AddToPlaylist
  PROVE  IInv' /\ KeepsContract
<1> DEFINE clears == Head(posted).kind = "current"
<1>1. PICK step, L, it, pk :
        /\ step = Head(posted)
        /\ L = IF clears THEN <<>> ELSE rows
        /\ it = IF clears THEN Unlocated(item) ELSE item
        /\ pk = IF clears THEN Unlocated(picked) ELSE picked
  OBVIOUS
<1>2. /\ posted # <<>> /\ step.kind \in AddKinds /\ posted' = Tail(posted)
      /\ \/ Land(step, L, it, pk) /\ UNCHANGED resolving
         \/ /\ resolving' = resolving \cup {step}
            /\ rows' = L /\ item' = it /\ picked' = pk
            /\ UNCHANGED <<s, native, ticket, queue, phase, list>>
      /\ UNCHANGED <<load, idle, currentEntry, nextEntry, lastEntry, upsets>>
  BY <1>1 DEF AddToPlaylist, managerVars
<1>3. Slots /\ Threads /\ Playback /\ StepsExact
  BY DEF IInv
<1>4. RowsFound(L, it, pk)
  <2>1. CASE clears
    <3>1. L = <<>> /\ it = Unlocated(item) /\ pk = Unlocated(picked)
      BY <1>1, <2>1
    <3>2. /\ it \in Tracks /\ (it.list = "shadow" => it.row <= 0)
          /\ (it = NoTrack) <=> (item = NoTrack)
      BY <1>3, <3>1, UnlocatedTrack
    <3>3. /\ pk \in Tracks /\ pk.list = picked.list /\ (pk.list = "shadow" => pk.row <= 0)
          /\ Settled(pk) /\ (picked.row = NoRow => pk.row = NoRow)
      BY <1>3, <3>1, UnlocatedTrack DEF Playback
    <3>4. L \in Seq(0..lastEntry) /\ Len(L) = 0
      BY <3>1, EmptySeq
    <3> QED BY <3>2, <3>3, <3>4 DEF RowsFound
  <2>2. CASE ~clears
    <3>1. L = rows /\ it = item /\ pk = picked
      BY <1>1, <2>2
    <3>2. DOMAIN rows = 1..Len(rows)
      BY <1>3, LenProperties DEF Slots
    <3>3. \A i \in 1..Len(rows) : InRows(rows[i])
      BY <3>2 DEF InRows
    <3> QED BY <1>3, <3>1, <3>3 DEF RowsFound, Slots, Playback, Located
  <2> QED BY <2>1, <2>2
<1>5. CASE Land(step, L, it, pk) /\ UNCHANGED resolving
  <2>1. Taking(step)
    <3>1. /\ posted' \in Seq(Waiting) /\ OnceEach(posted')
          /\ Elements(posted) = Elements(posted') \cup {step} /\ step \notin Elements(posted')
      BY <1>1, <1>2, <1>3, TailParts DEF Threads, StepsExact
    <3>2. step \in Steps /\ step \notin resolving
      BY <1>3, <3>1 DEF Steps, StepsExact
    <3>3. /\ resolving' \in SUBSET Waiting
          /\ \A x \in resolving' : x.kind \in AddKinds /\ x \notin Elements(posted')
      BY <1>3, <1>5, <3>1 DEF Threads, StepsExact
    <3>4. /\ \A x \in Elements(posted') \cup resolving' : x.kind \in AddKinds => x \in Steps /\ x # step
          /\ \A x \in Steps : x # step => x \in Elements(posted') \cup resolving'
      BY <1>5, <3>1, <3>2 DEF Steps
    <3> QED BY <1>2, <3>1, <3>2, <3>3, <3>4 DEF Taking
  <2> QED BY <1>4, <1>5, <2>1, LandKeeps
<1>6. CASE /\ resolving' = resolving \cup {step}
           /\ rows' = L /\ item' = it /\ picked' = pk
           /\ UNCHANGED <<s, native, ticket, queue, phase, list>>
  BY <1>1, <1>2, <1>4, <1>6, ExpandKeeps
<1> QED BY <1>2, <1>5, <1>6

-----------------------------------------------------------------------------
(* The whole specification.                                                *)
LEMMA InitEstablishes == ASSUME Init PROVE IInv /\ Contract!Init
<1>1. /\ load = [w \in Window |-> 0]
      /\ s = Unopened /\ native = NoContext /\ ticket = NoTicket
      /\ idle = TRUE /\ currentEntry = NoEntry /\ nextEntry = NoEntry /\ lastEntry = 0
      /\ rows = <<>> /\ posted = <<>> /\ resolving = {}
      /\ item = (IF UserTrack = NoRow THEN NoTrack ELSE SourceTrack(UserTrack))
      /\ phase = (IF UserTrack = NoRow THEN "stopped" ELSE "playing")
      /\ picked = NoTrack /\ list = "source"
      /\ queue = [i \in DOMAIN UserQueue |-> QueuedTrack(UserQueue[i])]
      /\ upsets = 0
  BY DEF Init
<1>2. MaxEntry \in Nat \ {0} /\ MaxReload \in Nat /\ MaxUpsets \in Nat
  BY SessionAssumption
<1>3. Slots
  <2>1. rows \in Seq(0..lastEntry)
    BY <1>1, EmptySeq
  <2>2. load \in [Window -> 0..MaxReload] /\ idle \in BOOLEAN
    BY <1>1, <1>2
  <2>3. lastEntry \in 0..MaxEntry /\ currentEntry \in 0..lastEntry /\ nextEntry \in 0..lastEntry
    BY <1>1, <1>2 DEF NoEntry
  <2> QED BY <2>1, <2>2, <2>3 DEF Slots
<1>4. posted \in Seq(Waiting) /\ Elements(posted) = {} /\ Steps = {} /\ OnceEach(posted)
  BY <1>1, EmptySeq DEF Elements, Steps, OnceEach
<1>5. Threads /\ StepsExact
  BY <1>1, <1>4 DEF Threads, StepsExact
<1>6. Playback /\ Planned
  <2>1. CASE UserTrack = NoRow
    BY <1>1, <2>1, NoTrackType DEF Playback, Planned, Settled, Located
  <2>2. CASE UserTrack # NoRow
    <3>1. UserTrack \in SourceRow /\ UserTrack \in Nat
      BY <2>2, SessionAssumption, LedgerAssumption DEF SourceRow
    <3>2. SourceTrack(UserTrack) \in Tracks /\ SourceTrack(UserTrack).list = "source"
      BY <3>1 DEF SourceTrack, Track, Tracks
    <3> QED BY <1>1, <2>2, <3>2, NoTrackType DEF Playback, Planned, Settled, Located
  <2> QED BY <2>1, <2>2
<1>7. Queues
  <2>1. Len(UserQueue) \in Nat /\ DOMAIN UserQueue = 1..Len(UserQueue)
        /\ \A i \in 1..Len(UserQueue) : UserQueue[i] \in Occurrence
    BY SessionAssumption, LenProperties, ElementOfSeq
  <2>2. \A o \in Occurrence : QueuedTrack(o) \in QueueTracks
    BY DEF QueuedTrack, Track, QueueTracks, Tracks, NoRow
  <2>3. [i \in DOMAIN UserQueue |-> QueuedTrack(UserQueue[i])] \in [1..Len(UserQueue) -> QueueTracks]
    BY <2>1, <2>2
  <2>4. queue \in Seq(QueueTracks)
    BY <1>1, <2>1, <2>3, SeqOfFunction
  <2> QED BY <1>1, <1>2, <2>4, NoTicketType, ContextAccount DEF Queues
<1>8. /\ s.phase = "none" /\ s.owner = NoDocument /\ s.current = Nobody /\ s.next = Nobody
      /\ s.needed = FALSE /\ s.asked = FALSE /\ s.open = 0 /\ s.pending = {} /\ s.ready = FALSE
      /\ s.eoq = FALSE /\ s.started = FALSE
  BY <1>1 DEF Unopened
<1>9. ~HasCurrent(s) /\ ~HasNext(s)
  BY <1>8, NobodyType DEF HasCurrent, HasNext
<1>10. Sound(s, lastEntry)
  <2>1. s \in Record
    <3>1. NoDocument \in [window : Window \cup {"none"}, load : 0..MaxReload]
      BY <1>2 DEF NoDocument
    <3> QED BY <1>1, <3>1, NobodyType DEF Unopened, Record, Phase
  <2>2. Nobody.serial <= lastEntry
    BY <1>1, NobodyType DEF NoSerial
  <2> QED BY <1>8, <1>9, <2>1, <2>2, NobodyType DEF Sound
<1>11. Recorded
  <2>1. Owned
    BY <1>1, <1>8 DEF Owned, NoDocument
  <2>2. Answered(s, Heard)
    BY <1>8 DEF Answered
  <2> QED BY <1>10, <2>1, <2>2 DEF Recorded
<1>12. Following /\ Replaced /\ Carried /\ ReleasedIsGivenBack
  BY <1>8, <1>9 DEF Following, Replaced, Carried, ReleasedIsGivenBack
<1>13. Contract!Init
  <2>1. OpenAttempt = "closed"
    BY <1>10, <1>8, NobodyType, SeenAttempt DEF OpenAttempt, AttemptOf
  <2> QED BY <1>8, <2>1 DEF Contract!Init
<1> QED BY <1>3, <1>5, <1>6, <1>7, <1>11, <1>12, <1>13 DEF IInv

LEMMA StutterKeeps == ASSUME IInv, UNCHANGED vars PROVE IInv' /\ KeepsContract
<1>1. UNCHANGED <<load, s, native, ticket, idle, currentEntry, nextEntry, lastEntry, rows, posted, resolving,
                  item, phase, picked, list, queue, upsets>>
  BY DEF vars, managerVars, threadVars, playerVars
<1>2. Playback /\ Queues /\ Planned
  BY DEF IInv
<1>3. Playback' /\ Queues' /\ Planned'
  BY <1>1, <1>2 DEF Playback, Queues, Planned, Located
<1> QED BY <1>1, <1>3, SamePosted, PlayerStep DEF managerVars

LEMMA RetainedType == Retained \subseteq Seq(Occurrence)
<1> SUFFICES ASSUME NEW r \in Retained PROVE r \in Seq(Occurrence)
  OBVIOUS
<1>1. PICK n \in 0..Cardinality(Occurrence) : r \in [1..n -> Occurrence]
  BY DEF Retained
<1>2. n \in Nat
  BY <1>1
<1> QED BY <1>1, <1>2, SeqOfFunction

LEMMA PageKeeps == ASSUME IInv, Page PROVE IInv' /\ KeepsContract
<1>1. NoRef \in Ref /\ Occurrence \cup SourceRow \subseteq Ref
  BY DEF Ref
<1>2. ASSUME NEW w \in Window, Create(w) \/ Reload(w) \/ \E mode \in {"resume", "handover"} : ClaimControl(w, mode)
      PROVE  IInv' /\ KeepsContract
  BY <1>2, CreateKeeps, ReloadKeeps, ClaimControlKeeps
<1>3. CASE Play
  BY <1>1, <1>3, PlayKeeps DEF Play
<1>4. CASE SetNext
  BY <1>1, <1>4, NextKeeps DEF SetNext
<1>5. CASE Skip \/ Stop
  BY <1>5, SkipKeeps, StopKeeps
<1>6. ASSUME NEW endOfQueue \in BOOLEAN, WithdrawNext(endOfQueue) PROVE IInv' /\ KeepsContract
  BY <1>6, WithdrawNextKeeps
<1>7. ASSUME NEW disposition \in {"restore", "detach"}, Release(disposition) PROVE IInv' /\ KeepsContract
  BY <1>7, ReleaseKeeps
<1>8. CASE LegacyPlayNow \/ LegacyClear
  BY <1>8, LegacyPlayNowKeeps, LegacyClearKeeps
<1>9. CASE PrepareAdoption \/ AdoptNative
  BY <1>9, PrepareAdoptionKeeps, AdoptNativeKeeps
<1>10. ASSUME NEW ref \in Occurrence \cup SourceRow, PlayNative(ref) \/ SetNativeNext(ref)
       PROVE  IInv' /\ KeepsContract
  BY <1>1, <1>10, PlayKeeps, NextKeeps DEF PlayNative, SetNativeNext
<1>11. ASSUME NEW retained \in Retained, SetNativeQueue(retained) PROVE IInv' /\ KeepsContract
  <2>1. retained \in Seq(Occurrence)
    BY RetainedType
  <2> QED BY <1>11, <2>1, SetNativeQueueKeeps
<1> QED BY <1>2, <1>3, <1>4, <1>5, <1>6, <1>7, <1>8, <1>9, <1>10, <1>11 DEF Page

LEMMA StepKeeps == ASSUME IInv, [Next]_vars PROVE IInv' /\ KeepsContract
<1>1. CASE UNCHANGED vars
  BY <1>1, StutterKeeps
<1>2. CASE MainThread \/ Resolved
  BY <1>2, AddToPlaylistKeeps, AttributeNewTrackKeeps, RestoreStepKeeps, ResolvedKeeps DEF MainThread
<1>3. CASE Page
  BY <1>3, PageKeeps
<1>4. CASE Player
  BY <1>4, OpensKeeps, SettlesKeeps, NextTrackKeeps, PlaybackEndsKeeps DEF Player
<1>5. CASE User
  BY <1>5, UserStopsKeeps, UserPlaysKeeps, UserQueuesKeeps, OnShadowPlaylistRemovedKeeps, UserChangesKeeps DEF User
<1> QED BY <1>1, <1>2, <1>3, <1>4, <1>5 DEF Next

LEMMA InvAlways == Spec => []IInv
<1>1. Init => IInv
  BY InitEstablishes
<1>2. IInv /\ [Next]_vars => IInv'
  BY StepKeeps
<1> QED BY <1>1, <1>2, PTL DEF Spec

-----------------------------------------------------------------------------
(* The ticket.  While it is there the session has started, so no context   *)
(* is prepared under it; in an active session that took native playback    *)
(* over it is the next entry's, whose row is in the shadow playlist, and   *)
(* no add of a current entry is posted that would clear that playlist.     *)
Ticketed ==
  /\ ticket # NoTicket => s.started
  /\ ticket # NoTicket /\ native.status = "managed" /\ s.phase = "active" =>
       /\ ticket.entry = s.next.serial /\ s.ready /\ InRows(ticket.entry)
       /\ \A x \in Elements(posted) : x.kind # "current"

(* The add of a current entry outdates those before it: none is posted      *)
(* ahead of it, and none is being resolved.                                 *)
AheadOfAdds(q) ==
  \A i, j \in DOMAIN q : q[i].kind = "current" /\ j < i => q[j].kind \notin AddKinds
CurrentFirst ==
  /\ AheadOfAdds(posted)
  /\ resolving = {} \/ \A x \in Elements(posted) : x.kind # "current"

LEMMA WithoutAhead ==
  ASSUME NEW q \in Seq(Waiting), NEW kinds, AheadOfAdds(q)
  PROVE  AheadOfAdds(Without(q, kinds))
<1> DEFINE places == {i \in DOMAIN q : q[i].kind \notin kinds}
           w == Without(q, kinds)
           c == Cardinality(places)
<1>1. DOMAIN q = 1..Len(q) /\ Len(q) \in Nat
  BY LenProperties
<1>2. places \in SUBSET (1..Len(q))
  BY <1>1
<1>3. w = Selected(q, places)
  BY DEF Without
<1>4. /\ w \in Seq(Waiting) /\ Len(w) = c /\ c \in Nat
      /\ \A n \in 1..c : \E i \in places : Rank(places, i) = n /\ w[n] = q[i]
  <2> HIDE DEF places
  <2> QED BY <1>2, <1>3, SelectedParts
<1>5. DOMAIN w = 1..c
  BY <1>4, LenProperties
<1>6. \A i, k \in places : i < k => Rank(places, i) < Rank(places, k)
  BY <1>1, <1>2, RankOf
<1>7. \A i \in places : i \in 1..Len(q)
  BY <1>2
<1> HIDE DEF places, w, c
<1>8. ASSUME NEW i \in DOMAIN w, NEW j \in DOMAIN w, w[i].kind = "current", j < i
      PROVE  w[j].kind \notin AddKinds
  <2>1. PICK a \in places : Rank(places, a) = i /\ w[i] = q[a]
    BY <1>4, <1>5
  <2>2. PICK b \in places : Rank(places, b) = j /\ w[j] = q[b]
    BY <1>4, <1>5
  <2>3. b < a
    <3>1. a \in Nat /\ b \in Nat /\ i \in Nat /\ j \in Nat
      BY <1>1, <1>4, <1>5, <1>7
    <3>2. a # b
      BY <1>8, <2>1, <2>2, <3>1
    <3>3. ~(a < b)
      <4>1. a < b => i < j
        BY <1>6, <2>1, <2>2
      <4> QED BY <1>8, <3>1, <4>1
    <3> QED BY <3>1, <3>2, <3>3
  <2>4. a \in DOMAIN q /\ b \in DOMAIN q
    BY <1>1, <1>7
  <2>5. q[a].kind = "current"
    BY <1>8, <2>1
  <2>6. q[b].kind \notin AddKinds
    BY <2>3, <2>4, <2>5 DEF AheadOfAdds
  <2> QED BY <2>2, <2>6
<1> QED BY <1>8 DEF AheadOfAdds, w

LEMMA AppendAhead ==
  ASSUME NEW q \in Seq(Waiting), NEW x \in Waiting, AheadOfAdds(q),
         x.kind = "current" => \A y \in Elements(q) : y.kind \notin AddKinds
  PROVE  AheadOfAdds(Append(q, x))
<1> DEFINE w == Append(q, x)
           n == Len(q)
<1>1. n \in Nat /\ DOMAIN q = 1..n
  BY LenProperties
<1>2. /\ w \in Seq(Waiting) /\ Len(w) = n + 1
      /\ \A i \in 1..n : w[i] = q[i]
      /\ w[n + 1] = x
  BY AppendProperties
<1>3. DOMAIN w = 1..(n + 1)
  BY <1>2, LenProperties
<1> HIDE DEF w, n
<1>4. ASSUME NEW i \in DOMAIN w, NEW j \in DOMAIN w, w[i].kind = "current", j < i
      PROVE  w[j].kind \notin AddKinds
  <2>1. j \in 1..n /\ w[j] = q[j] /\ q[j] \in Elements(q)
    BY <1>1, <1>2, <1>3, <1>4 DEF Elements
  <2>2. CASE i = n + 1
    BY <1>2, <1>4, <2>1, <2>2
  <2>3. CASE i # n + 1
    <3>1. i \in 1..n /\ w[i] = q[i]
      BY <1>1, <1>2, <1>3, <2>3
    <3> QED BY <1>1, <1>4, <2>1, <3>1 DEF AheadOfAdds
  <2> QED BY <2>2, <2>3
<1> QED BY <1>4 DEF AheadOfAdds, w

LEMMA TailAhead ==
  ASSUME NEW q \in Seq(Waiting), q # <<>>, AheadOfAdds(q)
  PROVE  /\ AheadOfAdds(Tail(q))
         /\ Head(q).kind \in AddKinds => \A x \in Elements(Tail(q)) : x.kind # "current"
<1> DEFINE w == Tail(q)
           n == Len(q)
<1>1. n \in Nat /\ n # 0 /\ DOMAIN q = 1..n
  BY LenProperties, EmptySeq
<1>2. w \in Seq(Waiting) /\ Len(w) = n - 1 /\ \A i \in 1..(n - 1) : w[i] = q[i + 1]
  <2>1. w \in Seq(Waiting) /\ Len(w) = n - 1 /\ \A i \in 1..Len(w) : w[i] = q[i + 1]
    BY HeadTailProperties, Zenon
  <2> QED BY <2>1
<1>3. DOMAIN w = 1..(n - 1)
  BY <1>2, LenProperties
<1>4. Head(q) = q[1]
  OBVIOUS
<1> HIDE DEF w, n
<1>5. ASSUME NEW i \in DOMAIN w, NEW j \in DOMAIN w, w[i].kind = "current", j < i
      PROVE  w[j].kind \notin AddKinds
  <2>1. /\ w[i] = q[i + 1] /\ w[j] = q[j + 1] /\ j + 1 < i + 1
        /\ i + 1 \in DOMAIN q /\ j + 1 \in DOMAIN q
    BY <1>1, <1>2, <1>3, <1>5
  <2> QED BY <1>5, <2>1 DEF AheadOfAdds
<1>6. ASSUME Head(q).kind \in AddKinds, NEW x \in Elements(w) PROVE x.kind # "current"
  <2>1. PICK i \in DOMAIN w : x = w[i]
    BY <1>6 DEF Elements
  <2>2. x = q[i + 1] /\ i + 1 \in DOMAIN q /\ 1 \in DOMAIN q /\ 1 < i + 1
    BY <1>1, <1>2, <1>3, <2>1
  <2> QED BY <1>4, <1>6, <2>2 DEF AheadOfAdds
<1> QED BY <1>5, <1>6 DEF AheadOfAdds, w

(* What the steps do to the waiting adds.                                   *)
LEMMA FirstUnchanged == ASSUME CurrentFirst, UNCHANGED threadVars PROVE CurrentFirst'
BY DEF CurrentFirst, threadVars, AheadOfAdds

LEMMA FirstEnded ==
  ASSUME Threads, CurrentFirst
  PROVE  /\ EndSession => CurrentFirst'
         /\ \A e \in 0..MaxEntry :
              posted' = Append(Without(posted, SessionKinds), Step("current", e)) /\ resolving' = {}
                => CurrentFirst'
         /\ posted' = Append(Without(posted, SessionKinds), RestoringStep) /\ resolving' = {} => CurrentFirst'
<1> DEFINE w == Without(posted, SessionKinds)
<1>1. AheadOfAdds(posted) /\ posted \in Seq(Waiting)
  BY DEF CurrentFirst, Threads
<1>2. w \in Seq(Waiting) /\ Elements(w) = {x \in Elements(posted) : x.kind \notin SessionKinds}
  BY <1>1, WithoutParts
<1>3. AheadOfAdds(w) /\ \A x \in Elements(w) : x.kind \notin AddKinds
  BY <1>1, <1>2, WithoutAhead, WaitingSteps
<1> HIDE DEF w
<1>4. EndSession => CurrentFirst'
  <2>1. EndSession => posted' = w /\ resolving' = {}
    BY DEF EndSession, w
  <2> QED BY <1>3, <2>1 DEF CurrentFirst, AheadOfAdds
<1>5. ASSUME NEW x \in Waiting, posted' = Append(w, x), resolving' = {} PROVE CurrentFirst'
  <2>1. AheadOfAdds(Append(w, x))
    BY <1>2, <1>3, AppendAhead
  <2> QED BY <1>5, <2>1 DEF CurrentFirst, AheadOfAdds
<1> QED BY <1>4, <1>5, WaitingSteps DEF w, AddKinds

LEMMA FirstWithout ==
  ASSUME Threads, CurrentFirst, NEW kinds, resolving' \subseteq resolving
  PROVE  /\ posted' = Without(posted, kinds) => CurrentFirst'
         /\ \A x \in Waiting : x.kind # "current" /\ posted' = Append(Without(posted, kinds), x) => CurrentFirst'
         /\ posted' = posted => CurrentFirst'
         /\ posted # <<>> /\ posted' = Tail(posted) => CurrentFirst'
<1> DEFINE w == Without(posted, kinds)
<1>1. AheadOfAdds(posted) /\ posted \in Seq(Waiting) /\ (resolving = {} \/ \A x \in Elements(posted) : x.kind # "current")
  BY DEF CurrentFirst, Threads
<1>2. w \in Seq(Waiting) /\ Elements(w) \subseteq Elements(posted)
  BY <1>1, WithoutParts
<1>3. AheadOfAdds(w)
  BY <1>1, WithoutAhead
<1> HIDE DEF w
<1>4. ASSUME NEW q \in Seq(Waiting), posted' = q, AheadOfAdds(q),
             \A x \in Elements(q) : x.kind = "current" => x \in Elements(posted)
      PROVE  CurrentFirst'
  BY <1>1, <1>4 DEF CurrentFirst, AheadOfAdds, Elements
<1>5. ASSUME NEW x \in Waiting, x.kind # "current", posted' = Append(w, x) PROVE CurrentFirst'
  <2>1. AheadOfAdds(Append(w, x))
    BY <1>2, <1>3, <1>5, AppendAhead
  <2>2. Append(w, x) \in Seq(Waiting) /\ Elements(Append(w, x)) = Elements(w) \cup {x}
    BY <1>2, AppendParts
  <2> QED BY <1>2, <1>4, <1>5, <2>1, <2>2
<1>6. ASSUME posted # <<>>, posted' = Tail(posted) PROVE CurrentFirst'
  <2>1. Tail(posted) \in Seq(Waiting) /\ Elements(Tail(posted)) \subseteq Elements(posted)
    BY <1>1, <1>6, TailParts
  <2>2. AheadOfAdds(Tail(posted))
    BY <1>1, <1>6, TailAhead
  <2> QED BY <1>4, <1>6, <2>1, <2>2
<1> QED BY <1>1, <1>2, <1>3, <1>4, <1>5, <1>6 DEF w

LEMMA FirstTaken ==
  ASSUME Threads, CurrentFirst, posted # <<>>, Head(posted).kind \in AddKinds, posted' = Tail(posted)
  PROVE  CurrentFirst' /\ \A x \in Elements(posted') : x.kind # "current"
<1>1. AheadOfAdds(posted) /\ posted \in Seq(Waiting)
  BY DEF CurrentFirst, Threads
<1>2. AheadOfAdds(Tail(posted)) /\ \A x \in Elements(Tail(posted)) : x.kind # "current"
  BY <1>1, TailAhead
<1> QED BY <1>2 DEF CurrentFirst, AheadOfAdds, Elements

LEMMA NextStepFirst ==
  ASSUME Threads, CurrentFirst, NEW e \in 0..MaxEntry, ReplaceNext(e)
  PROVE  CurrentFirst'
<1>1. resolving' \subseteq resolving
  BY DEF ReplaceNext, TakeNext
<1>2. CASE e = NoEntry
  BY <1>1, <1>2, FirstWithout DEF ReplaceNext
<1>3. CASE e # NoEntry
  <2>1. posted' = Append(Without(posted, {"next"}), Step("next", e))
    BY <1>3 DEF ReplaceNext, TakeNext
  <2>2. Step("next", e) \in Waiting /\ Step("next", e).kind # "current"
    BY WaitingSteps DEF SessionKinds, AddKinds, Step
  <2> QED BY <1>1, <2>1, <2>2, FirstWithout
<1> QED BY <1>2, <1>3

LEMMA PageFirst == ASSUME IInv, CurrentFirst, Page PROVE CurrentFirst'
<1>1. Threads /\ Slots /\ MaxEntry \in Nat /\ NoEntry \in 0..MaxEntry
  BY SessionAssumption DEF IInv, NoEntry
<1>2. ASSUME NEW e, StartEntry(e), lastEntry < MaxEntry, e = lastEntry + 1 PROVE CurrentFirst'
  <2>1. e \in 0..MaxEntry
    BY <1>1, <1>2 DEF Slots
  <2> QED BY <1>1, <1>2, <2>1, FirstEnded DEF StartEntry
<1>3. ASSUME NEW ref, PlayEntry(ref) PROVE CurrentFirst'
  <2>1. StartEntry(lastEntry') /\ lastEntry < MaxEntry /\ lastEntry' = lastEntry + 1
    BY <1>3 DEF PlayEntry
  <2>2. PICK e : e = lastEntry'
    OBVIOUS
  <2> QED BY <1>2, <2>1, <2>2
<1>4. ASSUME NEW ref, NextEntry(ref) PROVE CurrentFirst'
  <2>1. ReplaceNext(lastEntry') /\ lastEntry < MaxEntry /\ lastEntry' = lastEntry + 1
    BY <1>4 DEF NextEntry
  <2>2. PICK e : e = lastEntry'
    OBVIOUS
  <2>3. e \in 0..MaxEntry /\ ReplaceNext(e)
    BY <1>1, <2>1, <2>2 DEF Slots
  <2> QED BY <1>1, <2>3, NextStepFirst
<1>5. ASSUME NEW w \in Window, Create(w) \/ Reload(w) \/ \E mode \in {"resume", "handover"} : ClaimControl(w, mode)
      PROVE  CurrentFirst'
  BY <1>5, FirstUnchanged DEF Create, Reload, ClaimControl
<1>6. CASE Skip
  BY <1>6, FirstUnchanged DEF Skip
<1>7. CASE Stop
  <2>1. EndSession \/ UNCHANGED threadVars
    BY <1>7 DEF Stop, ClearInternal, ClearInternalKept
  <2> QED BY <1>1, <2>1, FirstUnchanged, FirstEnded
<1>8. ASSUME NEW endOfQueue \in BOOLEAN, WithdrawNext(endOfQueue) PROVE CurrentFirst'
  BY <1>1, <1>8, NextStepFirst DEF WithdrawNext
<1>9. ASSUME NEW disposition \in {"restore", "detach"}, Release(disposition) PROVE CurrentFirst'
  <2>1. EndSession \/ UNCHANGED threadVars
    BY <1>9 DEF Release, ClearInternal, ClearInternalKept
  <2> QED BY <1>1, <2>1, FirstUnchanged, FirstEnded
<1>10. CASE LegacyPlayNow
  <2>1. StartEntry(lastEntry') /\ lastEntry < MaxEntry /\ lastEntry' = lastEntry + 1
    BY <1>10 DEF LegacyPlayNow
  <2>2. PICK e : e = lastEntry'
    OBVIOUS
  <2> QED BY <1>2, <2>1, <2>2
<1>11. CASE LegacyClear
  BY <1>1, <1>11, FirstEnded DEF LegacyClear, ClearInternalKept, ClearInternal
<1>12. CASE PrepareAdoption
  BY <1>12, FirstUnchanged DEF PrepareAdoption
<1>13. CASE AdoptNative
  BY <1>1, <1>13, FirstEnded DEF AdoptNative
<1>14. ASSUME NEW retained \in Retained, SetNativeQueue(retained) PROVE CurrentFirst'
  <2>1. ReplaceNext(NoEntry) \/ UNCHANGED threadVars
    BY <1>14 DEF SetNativeQueue
  <2> QED BY <1>1, <2>1, FirstUnchanged, NextStepFirst
<1>15. CASE Play \/ SetNext \/ \E ref \in Occurrence \cup SourceRow : PlayNative(ref) \/ SetNativeNext(ref)
  BY <1>3, <1>4, <1>15 DEF Play, SetNext, PlayNative, SetNativeNext
<1> QED BY <1>5, <1>6, <1>7, <1>8, <1>9, <1>10, <1>11, <1>12, <1>13, <1>14, <1>15 DEF Page

LEMMA PlayerFirst ==
  ASSUME IInv, CurrentFirst, MainThread \/ Resolved \/ Player \/ User
  PROVE  CurrentFirst'
<1>1. Threads
  BY DEF IInv
<1>2. CASE AddToPlaylist
  BY <1>1, <1>2, FirstTaken DEF AddToPlaylist
<1>3. CASE AttributeNewTrack
  <2>1. /\ posted # <<>>
        /\ EndSession \/ (posted' = Tail(posted) /\ resolving' = resolving)
    <3>1. /\ posted # <<>>
          /\ (posted' = Tail(posted) /\ resolving' = resolving) \/ ReleaseSession \/ \E a : TracksRow(a)
      BY <1>3 DEF AttributeNewTrack
    <3>2. ReleaseSession => EndSession \/ (posted' = Tail(posted) /\ resolving' = resolving)
      BY DEF ReleaseSession
    <3>3. ASSUME NEW a, TracksRow(a) PROVE EndSession \/ (posted' = Tail(posted) /\ resolving' = resolving)
      BY <3>3 DEF TracksRow
    <3> QED BY <3>1, <3>2, <3>3
  <2> QED BY <1>1, <2>1, FirstEnded, FirstWithout
<1>4. CASE RestoreStep
  BY <1>1, <1>4, FirstWithout DEF RestoreStep
<1>5. CASE Resolved
  BY <1>1, <1>5, FirstWithout DEF Resolved
<1>6. ASSUME OnPlaybackNewTrack PROVE CurrentFirst'
  <2>1. posted' = Append(Without(posted, {"track"}), AttributionStep) /\ resolving' \subseteq resolving
    BY <1>6 DEF OnPlaybackNewTrack
  <2> QED BY <1>1, <2>1, FirstWithout, WaitingSteps
<1>7. CASE Player
  <2>1. CASE Opens \/ NextTrack
    BY <1>6, <2>1 DEF Opens, NextTrack
  <2>2. CASE Settles
    BY <2>2, FirstUnchanged DEF Settles
  <2>3. CASE PlaybackEnds
    BY <2>3, FirstUnchanged DEF PlaybackEnds
  <2> QED BY <1>7, <2>1, <2>2, <2>3 DEF Player
<1>8. CASE UserStops
  <2>1. \/ UNCHANGED threadVars \/ EndSession
        \/ posted' = Append(Without(posted, SessionKinds), RestoringStep) /\ resolving' = {}
    BY <1>8 DEF UserStops
  <2> QED BY <1>1, <2>1, FirstUnchanged, FirstEnded
<1>9. CASE UserPlays
  BY <1>9, FirstUnchanged DEF UserPlays
<1>10. CASE UserQueues
  BY <1>10, FirstUnchanged DEF UserQueues
<1>11. CASE OnShadowPlaylistRemoved
  BY <1>1, <1>11, FirstEnded DEF OnShadowPlaylistRemoved
<1>12. ASSUME NEW change \in Change, UserChanges(change) PROVE CurrentFirst'
  BY <1>12, FirstUnchanged DEF UserChanges
<1> QED BY <1>2, <1>3, <1>4, <1>5, <1>7, <1>8, <1>9, <1>10, <1>11, <1>12 DEF MainThread, User

(* A step that leaves the ticket and what it leads to.                      *)
Leads ==
  /\ ticket # NoTicket /\ native.status = "managed" /\ s.phase = "active"
  /\ ticket.entry = s.next.serial /\ s.ready /\ InRows(ticket.entry)
  /\ \A x \in Elements(posted) : x.kind # "current"

LEMMA TicketedGone == ASSUME ticket' = NoTicket PROVE Ticketed'
BY DEF Ticketed

LEMMA TicketedKept ==
  ASSUME Ticketed, ticket' = ticket, s.started => s'.started,
         native'.status = "managed" => native.status = "managed", s'.phase = "active" => s.phase = "active",
         Leads /\ s'.phase = "active" => s'.next = s.next /\ s'.ready /\ InRows(ticket.entry)',
         \A x \in Elements(posted') : x.kind = "current" => x \in Elements(posted)
  PROVE  Ticketed'
<1>1. s'.started \/ ticket' = NoTicket
  BY DEF Ticketed
<1>2. ASSUME ticket' # NoTicket, native'.status = "managed", s'.phase = "active"
      PROVE  /\ ticket'.entry = s'.next.serial /\ s'.ready /\ InRows(ticket.entry)'
             /\ \A x \in Elements(posted') : x.kind # "current"
  BY <1>2 DEF Ticketed, Leads
<1> QED BY <1>1, <1>2 DEF Ticketed, Elements

(* The record stays, and no add of a current entry is posted.               *)
LEMMA TicketedSame ==
  ASSUME Ticketed, UNCHANGED <<ticket, s, rows>>, native'.status = "managed" => native.status = "managed",
         \A x \in Elements(posted') : x.kind = "current" => x \in Elements(posted)
  PROVE  Ticketed'
<1>1. s'.next = s.next /\ s'.ready = s.ready /\ s'.phase = s.phase /\ s'.started = s.started
  OBVIOUS
<1>2. InRows(ticket.entry) => InRows(ticket.entry)'
  BY DEF InRows
<1> QED BY <1>1, <1>2, TicketedKept DEF Leads

LEMMA PostedSame ==
  /\ UNCHANGED posted => \A x \in Elements(posted') : x.kind = "current" => x \in Elements(posted)
  /\ Threads /\ EndSession => \A x \in Elements(posted') : x.kind = "current" => x \in Elements(posted)
  /\ Threads /\ posted # <<>> /\ posted' = Tail(posted) =>
       \A x \in Elements(posted') : x.kind = "current" => x \in Elements(posted)
  /\ Threads /\ OnPlaybackNewTrack => \A x \in Elements(posted') : x.kind = "current" => x \in Elements(posted)
  /\ Threads /\ posted' = Append(Without(posted, SessionKinds), RestoringStep) =>
       \A x \in Elements(posted') : x.kind = "current" => x \in Elements(posted)
<1>1. UNCHANGED posted => Elements(posted') = Elements(posted)
  BY DEF Elements
<1>2. Threads => posted \in Seq(Waiting)
  BY DEF Threads
<1>3. Threads /\ EndSession => Elements(posted') \subseteq Elements(posted)
  <2>1. Threads => Elements(Without(posted, SessionKinds)) \subseteq Elements(posted)
    BY <1>2, WithoutParts
  <2>2. EndSession => Elements(posted') = Elements(Without(posted, SessionKinds))
    BY DEF EndSession, Elements
  <2> QED BY <2>1, <2>2
<1>4. Threads /\ posted # <<>> /\ posted' = Tail(posted) => Elements(posted') \subseteq Elements(posted)
  <2>1. Threads /\ posted # <<>> => Elements(Tail(posted)) \subseteq Elements(posted)
    BY <1>2, TailParts
  <2>2. posted' = Tail(posted) => Elements(posted') = Elements(Tail(posted))
    BY DEF Elements
  <2> QED BY <2>1, <2>2
<1>5. ASSUME Threads, NEW kinds, NEW x \in Waiting, posted' = Append(Without(posted, kinds), x)
      PROVE  Elements(posted') \subseteq Elements(posted) \cup {x}
  <2>1. Without(posted, kinds) \in Seq(Waiting) /\ Elements(Without(posted, kinds)) \subseteq Elements(posted)
    BY <1>2, <1>5, WithoutParts
  <2>2. Elements(Append(Without(posted, kinds), x)) = Elements(Without(posted, kinds)) \cup {x}
    BY <2>1, AppendParts
  <2>3. Elements(posted') = Elements(Append(Without(posted, kinds), x))
    BY <1>5 DEF Elements
  <2> QED BY <2>1, <2>2, <2>3
<1>6. ASSUME Threads, OnPlaybackNewTrack PROVE Elements(posted') \subseteq Elements(posted) \cup {AttributionStep}
  BY <1>5, <1>6, WaitingSteps DEF OnPlaybackNewTrack
<1>7. Threads /\ posted' = Append(Without(posted, SessionKinds), RestoringStep)
        => Elements(posted') \subseteq Elements(posted) \cup {RestoringStep}
  BY <1>5, WaitingSteps
<1> QED BY <1>1, <1>3, <1>4, <1>6, <1>7, WaitingSteps

(* A step whose record is another, with the same next entry, or not active. *)
LEMMA TicketedLater ==
  ASSUME Ticketed, UNCHANGED <<ticket, rows>>, native'.status = "managed" => native.status = "managed",
         s'.started = s.started, s'.phase = "active" => s.phase = "active" /\ s'.next = s.next /\ s'.ready = s.ready,
         \A x \in Elements(posted') : x.kind = "current" => x \in Elements(posted)
  PROVE  Ticketed'
<1>1. InRows(ticket.entry) => InRows(ticket.entry)'
  BY DEF InRows
<1> QED BY <1>1, TicketedKept DEF Leads

(* SessionPlaybackExternal: an active session with a ticket has a current   *)
(* entry, and is left.                                                     *)
LEMMA LeftTicketed ==
  ASSUME Sound(s, lastEntry), Ticketed, ticket' = ticket, s' = External(s),
         native'.status = "managed" => native.status = "managed",
         \A x \in Elements(posted') : x.kind = "current" => x \in Elements(posted)
  PROVE  Ticketed'
<1>1. s \in Record
  BY DEF Sound
<1>2. s'.started = s.started /\ (s'.phase = "active" => s' = s /\ ~HasCurrent(s))
  BY <1>1 DEF External, Leave, SupersedePending, EndCurrent, NoNext, ClearRequest, Record
<1>3. ~HasCurrent(s) => ~Leads
  BY DEF Sound, Leads
<1> QED BY <1>2, <1>3, TicketedKept

LEMMA PageTicketed == ASSUME IInv, Ticketed, Page PROVE Ticketed'
<1>1. Threads /\ Queues /\ Sound(s, lastEntry) /\ s \in Record
  BY DEF IInv, Recorded, Sound
<1>2. DiscardPrepared(native).status = "managed" => native.status = "managed"
  BY DEF DiscardPrepared, NoContext
<1>3. ASSUME NEW ref, PlayEntry(ref) \/ NextEntry(ref) PROVE Ticketed'
  BY <1>3, TicketedGone DEF PlayEntry, NextEntry, ReplaceNext, WithdrawNativeTicket
<1>4. ASSUME NEW w \in Window, Create(w) PROVE Ticketed'
  BY <1>4, TicketedGone DEF Create
<1>5. ASSUME NEW w \in Window, Reload(w) PROVE Ticketed'
  BY <1>5, TicketedSame, PostedSame DEF Reload, threadVars
<1>6. ASSUME NEW w \in Window, NEW mode, ClaimControl(w, mode) PROVE Ticketed'
  <2>1. /\ s' = Told([s EXCEPT !.owner = Document(w)]) /\ native' = DiscardPrepared(native)
        /\ UNCHANGED <<ticket, rows, threadVars>>
    BY <1>6 DEF ClaimControl
  <2>2. s'.started = s.started /\ s'.phase = s.phase /\ s'.next = s.next /\ s'.ready = s.ready
    BY <1>1, <2>1 DEF Told, Record
  <2> QED BY <1>2, <2>1, <2>2, TicketedLater, PostedSame DEF threadVars
<1>7. CASE Skip \/ Stop \/ LegacyPlayNow \/ LegacyClear
  BY <1>7, TicketedGone DEF Skip, Stop, LegacyPlayNow, LegacyClear, LegacyTakeover, WithdrawNativeTicket
<1>8. ASSUME NEW endOfQueue \in BOOLEAN, WithdrawNext(endOfQueue) PROVE Ticketed'
  BY <1>8, TicketedGone DEF WithdrawNext, ReplaceNext, WithdrawNativeTicket
<1>9. ASSUME NEW disposition \in {"restore", "detach"}, Release(disposition) PROVE Ticketed'
  <2>1. CASE Open(native)
    BY <1>9, <2>1, TicketedGone DEF Release
  <2>2. CASE ~Open(native)
    <3>1. native' = DiscardPrepared(native) /\ UNCHANGED ticket
      BY <1>9, <2>2 DEF Release
    <3>2. native'.status # "managed"
      BY <1>2, <2>2, <3>1 DEF Open
    <3>3. s'.started = s.started
      <4>1. s' = [Leave(SupersedePending(s)) EXCEPT !.phase = "released"]
        BY <1>9, <2>2 DEF Release
      <4> QED BY <1>1, <4>1 DEF Leave, SupersedePending, EndCurrent, NoNext, ClearRequest, Record
    <3> QED BY <3>1, <3>2, <3>3 DEF Ticketed
  <2> QED BY <2>1, <2>2
<1>10. CASE PrepareAdoption
  <2>1. native'.status = "prepared" /\ UNCHANGED <<s, ticket>>
    BY <1>10 DEF PrepareAdoption, Prepared
  <2> QED BY <2>1 DEF Ticketed
<1>11. CASE AdoptNative
  <2>1. ticket = NoTicket /\ UNCHANGED ticket
    BY <1>11 DEF AdoptNative, Unplayed, Ticketed
  <2> QED BY <2>1, TicketedGone
<1>12. ASSUME NEW retained \in Retained, SetNativeQueue(retained) PROVE Ticketed'
  <2>1. CASE NextDropped(retained)
    BY <1>12, <2>1, TicketedGone DEF SetNativeQueue, ReplaceNext, WithdrawNativeTicket
  <2>2. CASE ~NextDropped(retained)
    <3>1. /\ native.status = "managed" /\ s' = RequestNext(s, Heard)
          /\ UNCHANGED <<ticket, rows, threadVars>>
      BY <1>12, <2>2 DEF SetNativeQueue, CanEdit
    <3>2. s'.started = s.started /\ s'.phase = s.phase /\ s'.next = s.next /\ s'.ready = s.ready
      BY <1>1, <3>1, RequestNextFields, HeardBoolean DEF SameFlags, SameEntries
    <3> QED BY <3>1, <3>2, TicketedLater, PostedSame DEF threadVars
  <2> QED BY <2>1, <2>2
<1>13. CASE Play \/ SetNext \/ \E ref \in Occurrence \cup SourceRow : PlayNative(ref) \/ SetNativeNext(ref)
  BY <1>3, <1>13 DEF Play, SetNext, PlayNative, SetNativeNext
<1> QED BY <1>4, <1>5, <1>6, <1>7, <1>8, <1>9, <1>10, <1>11, <1>12, <1>13 DEF Page

(* Rows stay when one is spliced in.                                        *)
LEMMA SpliceKeeps ==
  ASSUME NEW S, NEW L \in Seq(S), NEW e \in S, NEW at \in 0..Len(L), NEW i \in 1..Len(L)
  PROVE  /\ Splice(L, at, <<e>>) \in Seq(S)
         /\ \E k \in DOMAIN Splice(L, at, <<e>>) : Splice(L, at, <<e>>)[k] = L[i]
<1>0. <<e>> \in Seq(S) /\ Len(<<e>>) = 1
  OBVIOUS
<1>1. PICK t \in Seq(S) : t = <<e>> /\ Len(t) = 1
  BY <1>0
<1> DEFINE M == Splice(L, at, t)
<1>2. /\ M \in Seq(S) /\ Len(M) = Len(L) + Len(t)
      /\ \A k \in 1..(Len(L) + Len(t)) :
           M[k] = IF k <= at THEN L[k] ELSE IF k <= at + Len(t) THEN t[k - at] ELSE L[k - Len(t)]
  BY SpliceParts
<1>3. Len(L) \in Nat
  BY LenProperties
<1>4. DOMAIN M = 1..(Len(L) + 1)
  BY <1>1, <1>2, LenProperties
<1> HIDE DEF M
<1>5. CASE i <= at
  <2>1. i \in 1..(Len(L) + Len(t)) /\ i \in DOMAIN M
    BY <1>1, <1>3, <1>4
  <2>2. M[i] = L[i]
    BY <1>2, <1>5, <2>1
  <2> QED BY <1>1, <1>2, <2>1, <2>2 DEF M
<1>6. CASE ~(i <= at)
  <2>1. i + 1 \in 1..(Len(L) + Len(t)) /\ i + 1 \in DOMAIN M /\ ~(i + 1 <= at) /\ ~(i + 1 <= at + Len(t))
        /\ i + 1 - Len(t) = i
    BY <1>1, <1>3, <1>4, <1>6
  <2>2. M[i + 1] = L[i]
    BY <1>2, <2>1
  <2> QED BY <1>1, <1>2, <2>1, <2>2 DEF M
<1> QED BY <1>5, <1>6

LEMMA SpliceKeepsRow ==
  \A n : \A L \in Seq(0..n) : \A x \in 0..n : \A at \in 0..Len(L) : \A i \in 1..Len(L) :
    \E k \in DOMAIN Splice(L, at, <<x>>) : Splice(L, at, <<x>>)[k] = L[i]
<1> SUFFICES ASSUME NEW n, NEW L \in Seq(0..n), NEW x \in 0..n, NEW at \in 0..Len(L), NEW i \in 1..Len(L)
             PROVE  \E k \in DOMAIN Splice(L, at, <<x>>) : Splice(L, at, <<x>>)[k] = L[i]
  OBVIOUS
<1>1. PICK S : S = 0..n
  OBVIOUS
<1>2. L \in Seq(S) /\ x \in S
  BY <1>1
<1> QED BY <1>2, SpliceKeeps

LEMMA LandTicketed ==
  ASSUME IInv, Ticketed, NEW step \in Steps, step.kind \in AddKinds, NEW L, NEW it, NEW pk,
         L \in Seq(0..lastEntry), Leads => L = rows, Land(step, L, it, pk),
         \A x \in Elements(posted') : x.kind = "current" => x \in Elements(posted),
         step.kind = "next" => \A x \in Elements(posted') : x.kind # "current"
  PROVE  Ticketed'
<1> DEFINE e == step.entry
<1>1. /\ Slots /\ Threads /\ Queues /\ StepsExact /\ Sound(s, lastEntry) /\ s \in Record
      /\ lastEntry \in Nat /\ native \in Account
  BY SessionAssumption DEF IInv, Recorded, Sound, Slots, Queues
<1>2. e \in 1..lastEntry /\ e \in Nat /\ ~InRows(e)
  BY <1>1 DEF Threads, StepsExact
<1>3. CASE FailAdd(e, L, it, pk)
  <2>1. /\ s' = FailOperation(s, e, Heard) /\ native' = FailedAccount(e) /\ rows' = L /\ ticket' = ticket
    BY <1>3 DEF FailAdd, FailedAccount
  <2>2. FailedParts(s', s, lastEntry, {o \in s.pending : o.entry = e}, Heard)
    BY <1>1, <1>2, <2>1, FailRecord, HeardBoolean
  <2>3. s'.started = s.started /\ s'.phase = s.phase
    BY <2>2 DEF FailedParts, SameFlags
  <2>4. native'.status = native.status
    BY <1>1, <2>1, FailedAccountType
  <2>5. Leads => s'.next = s.next /\ s'.ready
    BY <1>1, <2>2 DEF FailedParts, Leads, Sound
  <2>6. Leads => InRows(ticket.entry)'
    BY <2>1 DEF Leads, InRows
  <2> QED BY <2>1, <2>3, <2>4, <2>5, <2>6, TicketedKept
<1>4. CASE LandCurrent(e, L)
  <2> DEFINE at == CurrentInsertPosition(Table(L), nextEntry, Len(L))
  <2>1. rows' = Splice(L, at, <<e>>) /\ s' = Submitted(s, e) /\ native' = MarkSubmitted(native, e) /\ ticket' = ticket
    BY <1>4 DEF LandCurrent
  <2>2. s'.started = s.started /\ s'.phase = s.phase /\ s'.next = s.next /\ s'.ready = s.ready
    BY <1>1, <2>1, SubmittedFields DEF SameFlags
  <2>3. native'.status = native.status
    BY <1>1, <2>1, MarkSubmittedAccount DEF SameAccount
  <2>4. at \in 0..Len(L) /\ DOMAIN L = 1..Len(L) /\ e \in 0..lastEntry
    BY <1>1, <1>2, RowOfParts
  <2> HIDE DEF at, e
  <2>5. ASSUME Leads PROVE InRows(ticket.entry)'
    <3>1. PICK i \in 1..Len(L) : L[i] = ticket.entry
      BY <2>4, <2>5 DEF Leads, InRows
    <3>2. PICK x : x = e
      OBVIOUS
    <3>3. L \in Seq(0..lastEntry) /\ x \in 0..lastEntry
      BY <2>4, <3>2
    <3>4. \E k \in DOMAIN Splice(L, at, <<x>>) : Splice(L, at, <<x>>)[k] = L[i]
      BY <2>4, <3>1, <3>3, SpliceKeepsRow, Zenon
    <3>5. \E k \in DOMAIN rows' : rows'[k] = ticket.entry
      BY <2>1, <3>1, <3>2, <3>4
    <3> QED BY <2>1, <3>5 DEF InRows
  <2> QED BY <2>1, <2>2, <2>3, <2>5, TicketedKept DEF Leads
<1>5. CASE step.kind = "next" /\ LandNext(e, L, it, pk)
  <2>1. HasNext(s) /\ e = s.next.serial /\ s.started
    BY <1>1, <1>5 DEF StepsExact, Sound
  <2>2. ~Leads
    BY <1>2, <2>1 DEF Leads
  <2>3. s' = IF Reported(e) THEN FinishOperation([s EXCEPT !.ready = TRUE], s.next) ELSE s
    BY <1>5 DEF LandNext, Reported
  <2>4. /\ s'.started = s.started /\ s'.phase = s.phase /\ s'.next = s.next
        /\ Reported(e) => s'.ready = TRUE
    <3> DEFINE u == FinishOperation([s EXCEPT !.ready = TRUE], s.next)
    <3>1. SameFlags(u, s) /\ u.ready = TRUE /\ u.next = s.next
      BY <1>1, <2>1, LandedRecord
    <3> HIDE DEF u
    <3>2. CASE Reported(e)
      BY <2>3, <3>1, <3>2 DEF SameFlags, u
    <3>3. CASE ~Reported(e)
      BY <2>3, <3>3
    <3> QED BY <3>2, <3>3
  <2>5. CASE ticket' = ticket
    <3>1. native'.status = native.status
      <4>1. native' = native \/ native' = MarkSubmitted(native, e) \/ QueueTicket(KeptRows(L) + 1)
        BY <1>5 DEF LandNext
      <4>2. native' = MarkSubmitted(native, e) => native'.status = native.status
        BY <1>1, MarkSubmittedAccount DEF SameAccount
      <4>3. QueueTicket(KeptRows(L) + 1) => native'.status = native.status
        <5>1. NativeWithdrawn \in Account /\ NativeWithdrawn.status = native.status
          BY <1>1, NativeWithdrawnAccount DEF Queues, SameAccount
        <5>2. s.next.ref \in Occurrence =>
                Queue(NativeWithdrawn, s.next.ref).status = NativeWithdrawn.status
          BY <5>1, MovedAccount DEF SameAccount
        <5> QED BY <5>1, <5>2 DEF QueueTicket
      <4> QED BY <4>1, <4>2, <4>3
    <3> QED BY <2>2, <2>4, <2>5, <3>1, TicketedKept
  <2>6. CASE ticket' # ticket
    <3>1. Reported(e) /\ QueueTicket(KeptRows(L) + 1)
      BY <1>5, <2>6 DEF LandNext, Reported
    <3>2. ticket'.entry = e
      BY <2>1, <3>1 DEF QueueTicket
    <3>3. InRows(ticket.entry)'
      <4> DEFINE K == SubSeq(L, 1, KeptRows(L))
                 M == Append(K, e)
      <4>1. rows' = M
        BY <1>5 DEF LandNext
      <4>2. KeptRows(L) \in 0..Len(L) /\ M \in Seq(0..lastEntry)
        BY <1>1, <1>2, NextRows
      <4>3. K \in Seq(0..lastEntry)
        BY <4>2, SubSeqInside
      <4>4. M[Len(K) + 1] = e /\ Len(M) = Len(K) + 1 /\ Len(K) \in Nat
        <5>1. e \in 0..lastEntry
          BY <1>1, <1>2
        <5> HIDE DEF K, e
        <5> QED BY <4>3, <5>1, AppendProperties, LenProperties
      <4> HIDE DEF M, K
      <4>5. Len(K) + 1 \in DOMAIN M
        BY <4>2, <4>4, LenProperties
      <4> QED BY <3>2, <4>1, <4>4, <4>5 DEF InRows
    <3> QED BY <1>5, <2>1, <2>4, <3>1, <3>2, <3>3 DEF Ticketed, Elements
  <2> QED BY <2>5, <2>6
<1> QED BY <1>3, <1>4, <1>5 DEF Land

LEMMA MainThreadTicketed == ASSUME IInv, CurrentFirst, Ticketed, MainThread \/ Resolved PROVE Ticketed'
<1>1. Threads /\ Slots /\ Queues /\ Sound(s, lastEntry) /\ s \in Record
  BY DEF IInv, Recorded, Sound
<1>2. rows \in Seq(0..lastEntry) /\ <<>> \in Seq(0..lastEntry)
  BY <1>1 DEF Slots
<1>3. CASE AddToPlaylist
  <2> DEFINE step == Head(posted)
             clears == step.kind = "current"
             L == IF clears THEN <<>> ELSE rows
             it == IF clears THEN Unlocated(item) ELSE item
             pk == IF clears THEN Unlocated(picked) ELSE picked
  <2>1. posted # <<>> /\ step.kind \in AddKinds /\ posted' = Tail(posted)
    BY <1>3 DEF AddToPlaylist
  <2>2. Land(step, L, it, pk) \/ (rows' = L /\ UNCHANGED <<s, native, ticket>>)
    BY <1>3 DEF AddToPlaylist
  <2>3. posted \in Seq(Waiting)
    BY <1>1 DEF Threads
  <2>4. step \in Elements(posted) /\ step \in Steps
    BY <2>1, <2>3, TailParts DEF Steps
  <2>5. \A x \in Elements(posted') : x.kind = "current" => x \in Elements(posted)
    BY <1>1, <2>1, PostedSame
  <2>6. \A x \in Elements(posted') : x.kind # "current"
    BY <1>1, <2>1, FirstTaken
  <2>7. L \in Seq(0..lastEntry) /\ (Leads => L = rows)
    BY <1>2, <2>4 DEF Leads
  <2> HIDE DEF L, step, it, pk
  <2>8. CASE Land(step, L, it, pk)
    BY <2>1, <2>4, <2>5, <2>6, <2>7, <2>8, LandTicketed
  <2>9. CASE rows' = L /\ UNCHANGED <<s, native, ticket>>
    <3>1. Leads => InRows(ticket.entry)'
      BY <2>7, <2>9 DEF Leads, InRows
    <3> QED BY <2>5, <2>9, <3>1, TicketedKept DEF Leads
  <2> QED BY <2>2, <2>8, <2>9
<1>4. CASE Resolved
  <2>1. PICK step \in resolving : Land(step, rows, item, picked)
    BY <1>4 DEF Resolved
  <2>2. UNCHANGED posted
    BY <1>4 DEF Resolved
  <2>3. step \in Steps /\ step.kind \in AddKinds
    BY <1>1, <2>1 DEF Threads, Steps
  <2>4. \A x \in Elements(posted') : x \in Elements(posted) /\ x.kind # "current"
    BY <2>1, <2>2 DEF CurrentFirst, Elements
  <2> QED BY <1>2, <2>1, <2>3, <2>4, LandTicketed
<1>5. CASE AttributeNewTrack
  <2>1. CASE ticket' = NoTicket
    BY <2>1, TicketedGone
  <2>2. CASE ticket' # NoTicket
    <3>1. ticket' = ticket /\ posted # <<>>
      BY <1>5, <2>2 DEF AttributeNewTrack, TracksRow
    <3>2. \/ posted' = Tail(posted) /\ UNCHANGED <<s, native, rows>>
          \/ ReleaseSession /\ ~idle
      BY <1>5, <2>2 DEF AttributeNewTrack, TracksRow, ReleaseSession
    <3>3. CASE posted' = Tail(posted) /\ UNCHANGED <<s, native, rows>>
      BY <1>1, <3>1, <3>3, TicketedSame, PostedSame
    <3>4. CASE ReleaseSession /\ ~idle
      <4>1. /\ s' = External(s) /\ EndSession
            /\ native'.status = "managed" => native.status = "managed"
        BY <3>4 DEF ReleaseSession, Conflict
      <4> QED BY <1>1, <3>1, <4>1, LeftTicketed, PostedSame
    <3> QED BY <3>2, <3>3, <3>4
  <2> QED BY <2>1, <2>2
<1>6. CASE RestoreStep
  <2>1. CASE ticket' = NoTicket
    BY <2>1, TicketedGone
  <2>2. CASE ticket' # NoTicket
    <3>1. posted # <<>> /\ posted' = Tail(posted) /\ UNCHANGED <<ticket, s, native, rows>>
      BY <1>6, <2>2 DEF RestoreStep
    <3> QED BY <1>1, <3>1, TicketedSame, PostedSame
  <2> QED BY <2>1, <2>2
<1> QED BY <1>3, <1>4, <1>5, <1>6 DEF MainThread

LEMMA OthersTicketed == ASSUME IInv, Ticketed, Player \/ User PROVE Ticketed'
<1>1. Threads /\ Slots /\ Queues /\ Sound(s, lastEntry) /\ s \in Record /\ lastEntry \in Nat
  BY SessionAssumption DEF IInv, Recorded, Sound, Slots
<1>2. Outdated => (native'.status = "managed" => native.status = "managed")
  BY DEF Outdated, DiscardPrepared, NoContext
<1>3. CASE Player
  <2>1. OnPlaybackNewTrack => UNCHANGED <<ticket, s, rows>> /\ Outdated
    BY DEF OnPlaybackNewTrack
  <2>2. CASE Opens \/ NextTrack
    <3>1. OnPlaybackNewTrack
      BY <2>2 DEF Opens, NextTrack
    <3> QED BY <1>1, <1>2, <2>1, <3>1, TicketedSame, PostedSame
  <2>3. CASE Settles
    <3>1. UNCHANGED <<ticket, s, rows>> /\ Outdated /\ UNCHANGED posted
      BY <2>3 DEF Settles, threadVars
    <3> QED BY <1>2, <3>1, TicketedSame, PostedSame
  <2>4. CASE PlaybackEnds
    <3>1. s' = PlaybackEnded(s, Heard) /\ UNCHANGED <<ticket, native, rows, posted>>
      BY <2>4 DEF PlaybackEnds, threadVars
    <3>2. s'.started = s.started /\ s'.phase = s.phase /\ s'.next = s.next /\ s'.ready = s.ready
      BY <1>1, <3>1, PlaybackEndedRecord, HeardBoolean DEF SameFlags
    <3> QED BY <3>1, <3>2, TicketedLater, PostedSame
  <2> QED BY <1>3, <2>2, <2>3, <2>4 DEF Player
<1>4. CASE UserStops
  <2>1. /\ UNCHANGED <<ticket, rows>> /\ Outdated
        /\ s' = UserStopped(s) \/ s' = s
        /\ \/ UNCHANGED posted \/ EndSession
           \/ posted' = Append(Without(posted, SessionKinds), RestoringStep)
    BY <1>4 DEF UserStops, threadVars
  <2>2. \A x \in Elements(posted') : x.kind = "current" => x \in Elements(posted)
    BY <1>1, <2>1, PostedSame
  <2>3. s' = UserStopped(s) => s'.started = s.started /\ s'.phase = "stopped"
    BY <1>1 DEF UserStopped, SupersedePending, EndCurrent, NoNext, ClearRequest, Record
  <2> QED BY <1>2, <2>1, <2>2, <2>3, TicketedLater
<1>5. CASE UserPlays \/ UserQueues
  <2>1. UNCHANGED <<ticket, s, rows>> /\ Outdated /\ UNCHANGED posted
    BY <1>5 DEF UserPlays, UserQueues, threadVars
  <2> QED BY <1>2, <2>1, TicketedSame, PostedSame
<1>6. ASSUME NEW change \in Change, UserChanges(change) PROVE Ticketed'
  <2>1. UNCHANGED <<ticket, s, rows>> /\ UNCHANGED posted
    BY <1>6 DEF UserChanges, threadVars
  <2>2. native'.status = "managed" => native.status = "managed"
    <3>1. native \in Account
      BY <1>1 DEF Queues
    <3> QED BY <1>6, <3>1, ChangedAccount DEF UserChanges, NoContext
  <2> QED BY <2>1, <2>2, TicketedSame, PostedSame
<1>7. CASE OnShadowPlaylistRemoved
  <2>1. /\ s' = External(s) /\ EndSession /\ ticket' = ticket
        /\ native'.status = "managed" => native.status = "managed"
    BY <1>7 DEF OnShadowPlaylistRemoved, Conflict
  <2> QED BY <1>1, <2>1, LeftTicketed, PostedSame
<1> QED BY <1>3, <1>4, <1>5, <1>6, <1>7 DEF User

-----------------------------------------------------------------------------
(* The record, the account, the rows, the waiting steps and the player's    *)
(* tracks keep their types: no row is located behind the end of the shadow  *)
(* playlist, and the player is stopped exactly when it has no track.        *)
THEOREM TypeCorrect == Spec => []TypeOK
<1>1. ASSUME IInv PROVE TypeOK
  <2>1. Slots /\ Threads /\ Playback /\ Queues /\ Sound(s, lastEntry)
    BY <1>1 DEF IInv, Recorded
  <2>2. s \in SessionRecord
    BY <2>1, SoundType
  <2>3. queue \in Seq(Tracks)
    <3>1. Len(queue) \in Nat /\ queue \in [1..Len(queue) -> QueueTracks]
      BY <2>1, LenProperties DEF Queues
    <3>2. queue \in [1..Len(queue) -> Tracks]
      BY <3>1 DEF QueueTracks
    <3> QED BY <3>1, <3>2, SeqOfFunction
  <2> QED BY <2>1, <2>2, <2>3 DEF TypeOK, Slots, Threads, Playback, Queues
<1> QED BY <1>1, InvAlways, PTL

(* An operation without an outcome is on its way to one: its entry is still *)
(* being added, or was handed to a player that is not stopped              *)
(* (FailSessionOperation, ReportSessionAdd, SessionPlaybackStopped).        *)
THEOREM OperationsAreCarried == Spec => []OperationsCarried
<1>1. ASSUME IInv PROVE OperationsCarried
  <2>1. Sound(s, lastEntry) /\ Carried
    BY <1>1 DEF IInv, Recorded
  <2>2. {posted[i] : i \in DOMAIN posted} \cup resolving = Steps
    BY DEF Steps, Elements
  <2> SUFFICES ASSUME NEW o \in s.pending
               PROVE  \/ o = OpOf(s.next) /\ ~s.ready /\ BeingAdded("next", o.entry)
                      \/ /\ o = OpOf(s.current) /\ s.current.status = "preparing"
                         /\ BeingAdded("current", o.entry) \/ (s.current.submitted /\ phase # "stopped")
    BY DEF OperationsCarried
  <2>3. o = OpOf(s.current) \/ o = OpOf(s.next)
    BY <2>1, PendingOf
  <2>4. CASE o = OpOf(s.next)
    <3>1. o.entry = s.next.serial /\ ~s.ready
      BY <2>1, <2>4 DEF Sound, OpOf
    <3> QED BY <2>1, <2>2, <2>4, <3>1 DEF Carried, BeingAdded
  <2>5. CASE o = OpOf(s.current)
    <3>1. o.entry = s.current.serial
      BY <2>5 DEF OpOf
    <3>2. s.current.status = "preparing"
      BY <2>1, <2>5, PendingOf
    <3> QED BY <2>1, <2>2, <2>5, <3>1, <3>2 DEF Carried, BeingAdded
  <2> QED BY <2>3, <2>4, <2>5
<1> QED BY <1>1, InvAlways, PTL

(* A session with nothing to follow its attempt waits for an answer to      *)
(* needNext, and the document in control was sent the request, whichever    *)
(* document that is by now (RequestNext, SessionClaim).                     *)
THEOREM SupplyIsAsked == Spec => []SupplyAsked
<1>1. ASSUME IInv PROVE SupplyAsked
  BY <1>1 DEF IInv, Recorded, Answered, SupplyAsked
<1> QED BY <1>1, InvAlways, PTL

(* A session is released only with the playback that was taken over given   *)
(* back or given up (LegacyTakeover, SessionRelease).                       *)
THEOREM ReleasedGaveBack == Spec => []ReleasedIsGivenBack
<1>1. IInv => ReleasedIsGivenBack
  BY DEF IInv
<1> QED BY <1>1, InvAlways, PTL

(* The session implements what it promises the page: every step is one of   *)
(* SessionContract, or changes nothing the page sees.                       *)
THEOREM SessionKeepsContract == Spec => ContractSpec
<1>1. Init => Contract!Init
  BY InitEstablishes
<1>2. IInv /\ [Next]_vars => [Contract!Next]_(Contract!vars)
  BY StepKeeps DEF KeepsContract
<1> QED BY <1>1, <1>2, InvAlways, PTL DEF Spec, ContractSpec, Contract!Spec

(* The native queue's row is that of the session's next entry, which is     *)
(* buffered and ready: whoever withdraws, replaces or follows the entry     *)
(* takes care of the ticket (WithdrawNativeTicket, SessionTrackStarted).    *)
THEOREM TicketLeads == Spec => []TicketLeadsToNext
<1>1. Init => CurrentFirst /\ Ticketed
  <2>1. ASSUME Init PROVE CurrentFirst /\ Ticketed
    <3>1. posted = <<>> /\ ticket = NoTicket
      BY <2>1 DEF Init
    <3> QED BY <3>1 DEF CurrentFirst, AheadOfAdds, Ticketed, Elements
  <2> QED BY <2>1
<1>2. IInv /\ CurrentFirst /\ Ticketed /\ [Next]_vars => CurrentFirst' /\ Ticketed'
  <2>1. ASSUME IInv, CurrentFirst, Ticketed, Next PROVE CurrentFirst' /\ Ticketed'
    BY <2>1, PageFirst, PlayerFirst, PageTicketed, MainThreadTicketed, OthersTicketed DEF Next
  <2>2. ASSUME CurrentFirst, Ticketed, UNCHANGED vars PROVE CurrentFirst' /\ Ticketed'
    <3>1. UNCHANGED <<s, native, ticket, rows, posted, resolving>>
      BY <2>2 DEF vars, threadVars
    <3> QED BY <2>2, <3>1, FirstUnchanged, TicketedSame, PostedSame DEF threadVars
  <2> QED BY <2>1, <2>2
<1>3. IInv /\ Ticketed => TicketLeadsToNext
  <2> SUFFICES ASSUME IInv, Ticketed, ticket # NoTicket, native.status = "managed", s.phase = "active"
               PROVE  ticket.entry = s.next.serial /\ s.ready /\ RowOf(rows, ticket.entry) # NoRow
    BY DEF TicketLeadsToNext
  <2>1. ticket.entry = s.next.serial /\ s.ready /\ InRows(ticket.entry)
    BY DEF Ticketed
  <2>2. rows \in Seq(0..lastEntry)
    BY DEF IInv, Slots
  <2>3. ticket.entry # NoEntry
    <3>1. Sound(s, lastEntry) /\ s \in Record
      BY DEF IInv, Recorded, Sound
    <3>2. HasNext(s) /\ s.started
      BY <2>1, <3>1 DEF Sound
    <3>3. HasCurrent(s) /\ s.current.serial < s.next.serial
      BY <2>1, <3>1, <3>2 DEF Sound
    <3>4. s.current.serial \in NoSerial..MaxEntry /\ s.next.serial \in NoSerial..MaxEntry
      BY <3>1 DEF Record, SessionEntry
    <3>5. s.current.serial # NoSerial
      BY <3>3 DEF HasCurrent
    <3> QED BY <2>1, <3>3, <3>4, <3>5, SessionAssumption DEF NoSerial, NoEntry
  <2> QED BY <2>1, <2>2, <2>3, RowOfParts DEF InRows
<1> QED BY <1>1, <1>2, <1>3, InvAlways, PTL DEF Spec
=============================================================================
