------------------------------ MODULE MemTable ------------------------------
(***************************************************************************)
(* The table in shared memory that the scanners and the sensor programs    *)
(* fill and others read: a header, and slots of equal size that hold the   *)
(* records.  The operators are the methods of TmemTable and TtblRecord on  *)
(* an opened table; lock( ) and unlock( ) do nothing in the code, so a     *)
(* module that shares a table takes one memory access as one step.         *)
(*                                                                         *)
(* A TtblRecord is a pointer: here the number of a slot, Null when it is   *)
(* empty.  It stays what it is when the table is cleared, filled again or  *)
(* sorted.  The fields of a record hold numbers, 0 when they are blank.    *)
(***************************************************************************)
EXTENDS Integers, FiniteSets

CONSTANTS
    Fields,           \* the fields of a record besides the id
    Capacity          \* bound: slots the memory can grow to

ASSUME MemTableAssumption == Capacity \in Nat \ {0}

Null == 0

Slots == 1 .. Capacity

BlankRow == [f \in Fields \cup {"id"} |-> 0]

\* The file in shared memory that open needs.
Exists(T) == T.alloced > 0

\* create: no records, room for alloc of them, all memory zero.
Created(alloc) ==
    [alloced |-> alloc, count |-> 0, idnext |-> 0, slot |-> [i \in Slots |-> BlankRow]]

\* clear resets the counters and leaves the slots as they are.
Cleared(T) == [T EXCEPT !.count = 0, !.idnext = 0]

\* add doubles the room when there is none.
Grown(T) == IF T.count >= T.alloced THEN [T EXCEPT !.alloced = 2 * @] ELSE T

\* The slot that the next add takes.
NewSlot(T) == T.count + 1

\* add: a blank record with the next id at the end.
Added(T) ==
    [Grown(T) EXCEPT !.slot[NewSlot(T)] = [BlankRow EXCEPT !["id"] = T.idnext],
                     !.count = @ + 1, !.idnext = @ + 1]

Get(T, r, f) == T.slot[r][f]

Put(T, r, f, v) == [T EXCEPT !.slot[r][f] = v]

\* ++r: from the empty record to the first one, from the last one to the
\* empty record.  The count is read now, whatever it was before.
NextRecord(T, r) == IF r + 1 \in 1 .. T.count THEN r + 1 ELSE Null

\* find goes from record to record until one holds the value, which ends in
\* the empty record.
IsHit(T, r, f, v) == r # Null /\ Get(T, r, f) = v

\* sort exchanges two neighbours through a temporary record: first the left
\* slot is overwritten, then the right one.
OutOfOrder(T, r, f) == Get(T, r, f) > Get(T, r + 1, f)

CopyDown(T, r) == [T EXCEPT !.slot[r] = T.slot[r + 1]]

\* Fault: the right slot keeps what it had.
CopyTmpFault(T, r, tmp) == T

CopyTmp(T, r, tmp) == [T EXCEPT !.slot[r + 1] = tmp]

IsTable(T) ==
    /\ T.count \in 0 .. Capacity
    /\ T.count <= T.alloced
    /\ T.idnext = T.count
    /\ DOMAIN T.slot = Slots
=============================================================================
