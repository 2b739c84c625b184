-------------------------- MODULE JitNativeLedger ---------------------------
(***************************************************************************)
(* jit_native::NativeContext: the account a session keeps of the native    *)
(* playback it took over - what became of each occurrence of the user's    *)
(* playback queue, and from which row of the source playlist to go on.     *)
(* One operator per method, on a record; a method that refuses leaves the  *)
(* record as it is.                                                        *)
(*                                                                         *)
(* A reference is an occurrence, or a row of the source (rows from 1; rows *)
(* may be registered at any time while the context is prepared or managed).*)
(* The entry ids bound to references and the context's own revision are    *)
(* left out.  "changed" is what the observer saw change since the snapshot:*)
(* the settings, or the source and the lists the queue refers to.          *)
(***************************************************************************)
EXTENDS Integers, Sequences, FiniteSets

CONSTANTS
  Occurrence,   \* items of the user's native playback queue
  SourceCount   \* rows of the source playlist

ASSUME LedgerAssumption == SourceCount \in Nat \ {0} /\ \A r \in 0..SourceCount : r \notin Occurrence

SourceRow == 1..SourceCount
Disposition == {"pending", "queued", "submitted", "consumed", "discarded",
                "indeterminate", "restored"}
Status == {"none", "prepared", "managed", "restoring", "restored", "conflicted", "detached"}
Change == {"settings", "lists"}

Editables == {"pending", "queued"}
Editable(n, o) == o \in Occurrence /\ n.disposition[o] \in Editables
(* The elements of a sequence at some of its positions, in their order.     *)
Selected(q, places) ==
  [n \in 1..Cardinality(places) |->
     q[CHOOSE i \in places : Cardinality({j \in places : j <= i}) = n]]
Remaining(n) == Selected(n.order, {i \in DOMAIN n.order : Editable(n, n.order[i])})
Move(n, o, d) == [n EXCEPT !.disposition[o] = d]

NoContext ==
  [status |-> "none", current |-> 1, next |-> 1, order |-> <<>>, changed |-> {},
   disposition |-> [o \in Occurrence |-> "discarded"]]

(* items: the queue at the snapshot, in order; the rest of Occurrence is    *)
(* not part of this context.                                               *)
Prepared(currentRow, items) ==
  [status |-> "prepared", current |-> currentRow, next |-> currentRow + 1, order |-> items,
   changed |-> {},
   disposition |-> [o \in Occurrence |->
     IF \E i \in DOMAIN items : items[i] = o THEN "pending" ELSE "discarded"]]

Adopt(n) == IF n.status = "prepared" THEN [n EXCEPT !.status = "managed"] ELSE n

Queue(n, o) ==
  IF /\ n.status = "managed" /\ n.disposition[o] = "pending"
     /\ \A p \in Occurrence : n.disposition[p] # "queued"
  THEN Move(n, o, "queued") ELSE n

Unqueue(n, o) == IF n.disposition[o] = "queued" THEN Move(n, o, "pending") ELSE n
WithdrawQueued(n, o) == IF n.status = "managed" THEN Unqueue(n, o) ELSE n

Submit(n, o) == IF n.status = "managed" /\ Editable(n, o) THEN Move(n, o, "submitted") ELSE n

\* Mutant of Started: only what was handed to the player counts as played
StartedSubmitted(n, ref) ==
  IF n.status \in {"none", "prepared", "restored", "detached"} THEN n
  ELSE IF ref \in Occurrence
       THEN IF n.disposition[ref] \in {"submitted", "indeterminate"} THEN Move(n, ref, "consumed") ELSE n
       ELSE IF ref \in SourceRow /\ n.status # "conflicted" THEN [n EXCEPT !.next = ref + 1] ELSE n
Started(n, ref) ==
  IF n.status \in {"none", "prepared", "restored", "detached"} THEN n
  ELSE IF ref \in Occurrence
       THEN IF Editable(n, ref) \/ n.disposition[ref] \in {"submitted", "indeterminate"}
            THEN Move(n, ref, "consumed") ELSE n
       ELSE IF ref \in SourceRow /\ n.status # "conflicted" THEN [n EXCEPT !.next = ref + 1] ELSE n

Indeterminate(n, o) ==
  IF n.disposition[o] = "submitted" THEN Move(n, o, "indeterminate") ELSE n

-----------------------------------------------------------------------------
(* retained names occurrences once each.                                   *)
CanEdit(n, retained) ==
  /\ n.status = "managed"
  /\ \A i, j \in DOMAIN retained : retained[i] = retained[j] => i = j
  /\ \A i \in DOMAIN retained : Editable(n, retained[i])
Kept(retained) == {retained[i] : i \in DOMAIN retained}
Withdrawals(n, retained) == {o \in Occurrence \ Kept(retained) : n.disposition[o] = "queued"}

CommitEdit(n, retained) ==
  IF ~CanEdit(n, retained) \/ Withdrawals(n, retained) # {} THEN n
  ELSE [n EXCEPT !.order = retained,
                 !.disposition = [o \in Occurrence |->
                   IF @[o] = "pending" /\ o \notin Kept(retained) THEN "discarded" ELSE @[o]]]

-----------------------------------------------------------------------------
(* Giving back.  A plan is Remaining(n) of the context being restored, then *)
(* the row the source goes on with; with no row left, the last occurrence  *)
(* is given back in a list of its own.                                     *)
Unresolved(n) == \E o \in Occurrence : n.disposition[o] \in {"submitted", "indeterminate"}
CanRestore(n) == n.status \in {"managed", "restoring"} /\ ~Unresolved(n)
PlanRestore(n) == IF CanRestore(n) THEN [n EXCEPT !.status = "restoring"] ELSE n
SourceLeft(n) == n.next <= SourceCount

(* One occurrence after the other, to the first that is not pending.        *)
Givable(n) ==
  LET kept == {i \in DOMAIN Remaining(n) : n.disposition[Remaining(n)[i]] # "pending"}
  IN IF kept = {} THEN Len(Remaining(n)) ELSE (CHOOSE i \in kept : \A j \in kept : i <= j) - 1
Restored(n, given) ==
  LET plan == SubSeq(Remaining(n), 1, given) IN
  [n EXCEPT !.disposition = [o \in Occurrence |->
     IF \E i \in DOMAIN plan : plan[i] = o THEN "restored" ELSE @[o]]]

FinishRestore(n) ==
  IF n.status = "restoring" /\ Remaining(n) = <<>> THEN [n EXCEPT !.status = "restored"] ELSE n

Conflict(n) ==
  IF n.status \in Status \ {"none", "restored", "detached"} THEN [n EXCEPT !.status = "conflicted"] ELSE n
Detach(n) ==
  IF n.status \in Status \ {"none", "restored"} THEN [n EXCEPT !.status = "detached"] ELSE n

(* What the caller keeps beside the account.                               *)
Recovering(n) == n.status \in {"restoring", "conflicted"}
Open(n) == n.status \in {"managed", "restoring", "conflicted"}
DiscardPrepared(n) == IF n.status = "prepared" THEN NoContext ELSE n
=============================================================================
