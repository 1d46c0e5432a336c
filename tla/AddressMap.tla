----------------------------- MODULE AddressMap -----------------------------
(***************************************************************************)
(* How cache_controller.cpp takes an address apart: the block it lies in,  *)
(* the set the block maps to, the tag that identifies it there, the offset *)
(* inside the line; how an eviction puts the address of a block together   *)
(* again; and which blocks an invalidation request visits.                 *)
(*                                                                         *)
(* The unit of an address is what one request transfers.                   *)
(***************************************************************************)
EXTENDS Integers

CONSTANTS
    LineSize,   \* params.line_size
    WordSize,   \* params.word_size
    NumSets,    \* cache_memory::sets
    UIntMod     \* 2^32 in the build: addr_range_t holds two uint32_t

ASSUME LineSizeAssumption == LineSize \in Nat \ {0}
ASSUME WordSizeAssumption == WordSize \in Nat \ {0}
ASSUME NumSetsAssumption  == NumSets \in Nat \ {0}
ASSUME UIntModAssumption  == UIntMod \in Nat \ {0}

Sets    == 0 .. NumSets - 1
Offsets == 0 .. LineSize - 1

\* (address / line_size) * line_size
BlockAddress(a) == (a \div LineSize) * LineSize

SetIndex(a)   == (BlockAddress(a) \div LineSize) % NumSets
TagOf(a)      == BlockAddress(a) \div (LineSize * NumSets)

(***************************************************************************)
(* Where in its line an access finds its data.  handle_read_request passes *)
(* the index of a word, which cache_line::read_word multiplies back;       *)
(* handle_write_request passes an offset, which cache_line::write_word     *)
(* splits into a row and a column and joins again.                         *)
(***************************************************************************)
\* A faulty ReadOffset, for testing the properties: the index is not multiplied.
ReadIndex(a) == (a % LineSize) \div WordSize

ReadOffset(a)  == ((a % LineSize) \div WordSize) * WordSize
WriteOffset(a) ==
    LET word_offset == a % LineSize
    IN  (word_offset \div WordSize) * WordSize + (word_offset % WordSize)

\* The address of the block that a line of set s with tag g caches, as
\* handle_cache_eviction computes it before it writes the victim back.
LineAddress(g, s) == (g * NumSets + s) * LineSize

(***************************************************************************)
(* handle_invalidate_request.  Both ends of an addr_range_t are uint32_t,  *)
(* and so is the sum that rounds the end up to a line: it wraps.  The loop *)
(* runs over the uint64_t block addresses, the last one included.          *)
(***************************************************************************)
StartBlock(r) == BlockAddress(r.first)

\* Faulty variants of EndBlock, for testing the properties: the range ends at
\* the line before the one that holds its last address; the range is rounded
\* up past the following line.
EndBlockShort(r) == BlockAddress((r.second + LineSize - 1) % UIntMod) - 2 * LineSize
EndBlockLong(r)  == BlockAddress((r.second + 2 * LineSize - 1) % UIntMod)

EndBlock(r) == BlockAddress((r.second + LineSize - 1) % UIntMod)

InvalidateBlocks(r) ==
    {b \in StartBlock(r) .. EndBlock(r) : b % LineSize = 0}

=============================================================================
