------------------------------- MODULE RPLib -------------------------------
(***************************************************************************)
(* The reader of a library of solved deals (src/src/dealrpdd_subs.c): the  *)
(* seed chooses the block of records to start from, get_rpdeal reads       *)
(* records until one is not a separator, and at the end of the file starts *)
(* again at its beginning, if more records are needed.                     *)
(*                                                                         *)
(* A record is the number of its place in the file, from 1; what is in the *)
(* buffer, and the deal in hand, is the number of the record it came from. *)
(* A part of a record at the end of the file has the number after the last.*)
(***************************************************************************)
EXTENDS Integers

CONSTANTS
  Recs,          \* whole records in the file
  SeparatorSets, \* the records whose first cards are null, for each library
  CutShorts,     \* whether the file may end with a part of a record
  SmallLib, PartialLib,   \* sizes below which a library has small blocks
  SmallBlock, PartialBlock, FullBlock,   \* records of a block (RP_BLOCKSIZE)
  MaxSeed,       \* MAX_RP_SEED
  MaxWraps       \* bound: wraps that are counted, at least the two that main asks for

ASSUME LibAssumption ==
  /\ Recs \in Nat \ {0}
  /\ SeparatorSets \subseteq SUBSET (1..Recs + 1)
  /\ CutShorts \subseteq BOOLEAN
  /\ SmallLib \in Nat /\ PartialLib \in Nat /\ SmallLib <= PartialLib
  /\ SmallBlock \in Nat \ {0} /\ PartialBlock \in Nat \ {0} /\ FullBlock \in Nat \ {0}
  /\ MaxSeed \in Nat /\ MaxWraps \in Nat /\ MaxWraps >= 2

\* Bytes of no record, as the stack may hold them: the first cards null or not.
Junk  == -1
Nulls == -2

VARIABLES
  cutshort,   \* the file ends with a part of a record
  separators, \* the records of the file whose first cards are null
  pos,        \* position in the file, in records
  rec,        \* the record buffer of get_rpdeal
  lastread,   \* history: what the last read of get_rprec did
  rp_cnt,     \* records used as deals
  wrap_cnt,   \* times the file was wrapped around
  curdeal     \* the record the deal in hand was made of, 0 before the first

libVars == <<cutshort, separators, pos, rec, lastread, rp_cnt, wrap_cnt, curdeal>>

Reads == {"none", "record", "short", "wrap", "nothing"}

LibInit ==
  /\ cutshort \in CutShorts /\ separators \in SeparatorSets
  /\ pos = 0
  /\ rec = Junk
  /\ lastread = "none"
  /\ rp_cnt = 0
  /\ wrap_cnt = 0
  /\ curdeal = 0

-----------------------------------------------------------------------------
\* set_rpdd_lib_vars: the size of a block, and the last block to start from.
rplib_blk_sz == IF Recs < SmallLib THEN SmallBlock
                ELSE IF Recs < PartialLib THEN PartialBlock
                ELSE FullBlock

LastBlock == IF Recs >= PartialLib /\ MaxSeed < Recs \div FullBlock
             THEN MaxSeed
             ELSE Recs \div rplib_blk_sz - 1

\* finalize_options and seek_rpdd_pos: a seed of zero starts at the beginning,
\* and so does a library of less than a block.
StartBlock(seed) ==
  LET myseed == IF seed < LastBlock THEN seed ELSE LastBlock
  IN  IF seed <= 0 \/ myseed < 0 THEN 0 ELSE myseed

StartPos(seed) == StartBlock(seed) * rplib_blk_sz

Seek(seed) ==
  /\ pos' = StartPos(seed)
  /\ UNCHANGED <<cutshort, separators, rec, lastread, rp_cnt, wrap_cnt, curdeal>>

-----------------------------------------------------------------------------
(* get_rprec                                                               *)
FileEnd == IF cutshort THEN Recs + 1 ELSE Recs

ReadRecord ==
  /\ pos < Recs
  /\ pos' = pos + 1
  /\ rec' = pos + 1
  /\ lastread' = "record"
  /\ UNCHANGED wrap_cnt

\* Less than 23 bytes: get_rprec returns -2.  Of less than four bytes, the rest
\* is what the buffer held before: in the middle of get_rpdeal a separator, on
\* entry to it anything, which may make a deal of a part that is null.
ReadShort(onEntry) ==
  /\ pos = Recs /\ pos < FileEnd
  /\ pos' = pos + 1
  /\ rec' \in {pos + 1} \cup (IF onEntry /\ pos + 1 \in separators THEN {Junk} ELSE {})
  /\ lastread' = "short"
  /\ UNCHANGED wrap_cnt

\* End of file "before necessary records got": back to the first record.
WrapAround(max_produce) ==
  /\ pos = FileEnd
  /\ rp_cnt < max_produce
  /\ pos' = 1
  /\ rec' = 1
  /\ lastread' = "wrap"
  /\ wrap_cnt' = IF wrap_cnt < MaxWraps THEN wrap_cnt + 1 ELSE wrap_cnt

\* End of file: nothing is read and the buffer is what it was, which on entry
\* to get_rpdeal is anything its place on the stack may hold.
ReadNothing(max_produce, onEntry) ==
  /\ pos = FileEnd
  /\ rp_cnt >= max_produce
  /\ rec' \in {rec} \cup (IF onEntry THEN {Junk, Nulls} ELSE {})
  /\ lastread' = "nothing"
  /\ UNCHANGED <<pos, wrap_cnt>>

\* Fault: a separator is used as a deal.
IsSeparatorNever(r) == FALSE

\* Whatever the buffer holds, its first four bytes are all that is looked at.
IsSeparator(r) == r \in separators \cup {Nulls}

\* One round of the loop of get_rpdeal: a separator is skipped, whatever else
\* is in the buffer becomes the deal in hand.
GetRecord(max_produce, onEntry) ==
  /\ \/ ReadRecord \/ ReadShort(onEntry)
     \/ WrapAround(max_produce) \/ ReadNothing(max_produce, onEntry)
  /\ UNCHANGED <<cutshort, separators>>
  /\ IF IsSeparator(rec')
     THEN UNCHANGED <<rp_cnt, curdeal>>
     ELSE rp_cnt' = rp_cnt + 1 /\ curdeal' = rec'

Decoded == ~IsSeparator(rec')
=============================================================================
