--------------------------- MODULE CacheAttributes ---------------------------
(***************************************************************************)
(* The four bits of cache_optional_fields_extension::cache, as the         *)
(* controller decodes them: the upper two select line allocation, the      *)
(* lower two the write policy.                                             *)
(***************************************************************************)
EXTENDS Integers

UpperBits(c) == (c \div 4) % 4
LowerBits(c) == c % 4

\* WRITE_POLICY cache_controller::get_write_policy(int value)
WritePolicy(c) ==
    CASE UpperBits(c) # 0 /\ LowerBits(c) = 2 -> "write_through"
      [] UpperBits(c) # 0 /\ LowerBits(c) = 3 -> "write_back"
      [] OTHER                                -> "internal"

\* get_read_request_line_alloc and get_write_request_line_alloc
ReadAllocates(c)  == UpperBits(c) \in {1, 3}
WriteAllocates(c) == UpperBits(c) \in {2, 3}

=============================================================================
