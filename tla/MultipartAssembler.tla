------------------------- MODULE MultipartAssembler -------------------------
(***************************************************************************)
(* The receiver's side of one message, patterns/delivery/                  *)
(* multipart_assembler.hpp: the bounds its heading announced and the parts *)
(* received so far.                                                        *)
(***************************************************************************)
EXTENDS Integers, FiniteSets, FiniteSetsExt

Assembler == [id : Nat, first : Nat, last : Nat, got : SUBSET Nat]

\* message_id{}: no message has it.
NoMessage == 0

\* The empty optional.
NoAssembler == [id |-> NoMessage, first |-> 0, last |-> 0, got |-> {}]

NewAssembler(id, first, last) ==
    [id |-> id, first |-> first, last |-> last, got |-> {}]

AssemblerInRange(a, sn) == a.first <= sn /\ sn <= a.last

AssemblerAcknowledge(a, sn) == [a EXCEPT !.got = @ \cup {sn - a.first}]

\* _remain_parts = 0
IsAssembled(a) == a.got = 0 .. (a.last - a.first)

LowestAckedIndex(a) ==  \* mutant
    LET missing == (1 .. (a.last - a.first)) \ a.got
    IN  IF 0 \notin a.got THEN 0 ELSE IF missing = {} THEN 1 ELSE Min(missing)
\* The end of the run of parts received without a gap from the first; 0 when
\* the first is missing, and for the empty optional.
LowestAckedSn(a) ==
    LET missing == (1 .. (a.last - a.first)) \ a.got
    IN  IF 0 \notin a.got THEN 0
        ELSE IF missing = {} THEN a.first
        ELSE a.first + Min(missing) - 1
=============================================================================
