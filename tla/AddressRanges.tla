---------------------------- MODULE AddressRanges ----------------------------
(***************************************************************************)
(* IpRangeToCIDR: the router shows a range of addresses that is a block as *)
(* the block, 10.0.0.0-10.0.0.255 as 10.0.0.0/24.  An address list         *)
(* suppresses the difference between the range in the configuration and    *)
(* what the router shows.  The loop lengthens the block that begins with   *)
(* the range while it fits.  Addresses are narrow here.                    *)
(***************************************************************************)
EXTENDS Integers

CONSTANT AddressBits

ASSUME RangeAssumption == AddressBits \in Nat

VARIABLES
    range,  \* its ends, a1 and a2
    hosts,  \* 32 - l: the bits that the mask m leaves
    shown   \* what is returned, or nothing yet

rangeVars == <<range, hosts, shown>>

Addresses == 0 .. 2 ^ AddressBits - 1
NotYet == [kind |-> "none", hosts |-> 0]

\* The last address of a block that begins with the range.
BlockEnd(bits) == range.first + 2 ^ bits - 1

\* A slip: a block may begin anywhere.
AnyFits == hosts < AddressBits /\ BlockEnd(hosts + 1) <= range.last

\* (a1 & m1) = a1 and (a1 | ^m1) <= a2, for the next shorter mask.
NextFits ==
    /\ hosts < AddressBits
    /\ range.first % 2 ^ (hosts + 1) = 0
    /\ BlockEnd(hosts + 1) <= range.last

Lengthen ==
    /\ shown = NotYet /\ range.first <= range.last /\ NextFits
    /\ hosts' = hosts + 1
    /\ UNCHANGED <<range, shown>>

\* a1 + 1 is 0 after the last of all addresses.
Return ==
    /\ shown = NotYet
    /\ IF range.first > range.last THEN shown' = [kind |-> "error", hosts |-> 0]
       ELSE /\ ~NextFits
            /\ shown' = IF range.last < (BlockEnd(hosts) + 1) % 2 ^ AddressBits
                        THEN [kind |-> "block", hosts |-> hosts]
                        ELSE [kind |-> "range", hosts |-> 0]
    /\ UNCHANGED <<range, hosts>>

RangeInit ==
    /\ range \in [first : Addresses, last : Addresses]
    /\ hosts = 0 /\ shown = NotYet

RangeNext == Lengthen \/ Return

RangeSpec == RangeInit /\ [][RangeNext]_rangeVars

-----------------------------------------------------------------------------
(* Properties.                                                             *)

RangeTypeOK ==
    /\ range \in [first : Addresses, last : Addresses]
    /\ hosts \in 0 .. AddressBits
    /\ shown \in [kind : {"none", "error", "block", "range"}, hosts : 0 .. AddressBits]

\* The range is a block, with so many bits left for its addresses.
IsBlock(bits) == range.first % 2 ^ bits = 0 /\ range.last = BlockEnd(bits)

\* What is returned is a block exactly when the range is one, and it is that
\* block.  The exception is a deviation: a block at the end of all addresses
\* stays a range, because a1 + 1 wraps round.
RangeIsTheSame ==
    /\ shown.kind = "block" => IsBlock(shown.hosts)
    /\ shown.kind = "range" =>
           \A bits \in 0 .. AddressBits :
               IsBlock(bits) => range.last = 2 ^ AddressBits - 1

=============================================================================
