----------------------------- MODULE AuditLedger -----------------------------
(***************************************************************************)
(* The hash-chained JSONL ledger behind @audit_record (audit/).            *)
(*                                                                         *)
(* The wrapper of a triage call reads the whole file, chains a record to   *)
(* the last one and appends it, with no await between: in the one server   *)
(* process appends exclude each other.  What can go wrong is an append cut *)
(* short, by a crash or a full disk, and what later appends make of it.    *)
(*                                                                         *)
(* SHA-256 over previous hash and record is taken as injective: a chain    *)
(* hash is the sequence of calls it was computed from.                     *)
(***************************************************************************)
EXTENDS Naturals, Sequences, FiniteSets

CONSTANTS Calls,     \* triage calls whose result is recorded
          MaxCuts    \* bound on appends cut short

ASSUME MaxCutsOK == MaxCuts \in Nat

VARIABLES
  file,   \* the lines of the file, each a sequence of the pieces written to it
  ended,  \* whether the file ends with a newline (or is empty)
  fate,   \* what has become of the record of each call
  cuts    \* appends cut short so far

vars == <<file, ended, fate, cuts>>

Hashes == Seq(Calls) \ {<<>>}

(* A JSON object, or the first part of one. *)
Piece == [call : Calls, chain : Hashes, whole : BOOLEAN]

Fates == {"calling", "stored", "skipped", "cut"}

Init ==
  /\ file = <<>>
  /\ ended = TRUE
  /\ fate = [c \in Calls |-> "calling"]
  /\ cuts = 0

(* json.loads accepts a line that holds one object and nothing else. *)
Readable(line) == Len(line) = 1 /\ line[1].whole

(* Variant: read_all skips the lines it cannot parse. *)
ReadAllTolerant == TRUE

(* read_all raises at the first line that is no record. *)
ReadAllSucceeds == \A i \in DOMAIN file : Readable(file[i])

(* Variant: the first record's hash is taken for the last one's. *)
PreviousHashOfFirst == IF file = <<>> THEN <<>> ELSE file[1][1].chain

PreviousHash == IF file = <<>> THEN <<>> ELSE file[Len(file)][1].chain

ChainHash(previous, c) == Append(previous, c)

(* Variant: the file is opened for writing instead of appending.            *)
WriteTruncating(piece, end) ==
  /\ file' = <<<<piece>>>>
  /\ ended' = end

(* Bytes are added at the end: to the last line when it has no newline.    *)
Write(piece, end) ==
  /\ file' = IF ended THEN Append(file, <<piece>>)
             ELSE [file EXCEPT ![Len(file)] = Append(@, piece)]
  /\ ended' = end

Record(c, whole) == [call |-> c, chain |-> ChainHash(PreviousHash, c), whole |-> whole]

(* _build_and_store returns: the record and its newline are on disk. *)
Store(c) ==
  /\ fate[c] = "calling"
  /\ ReadAllSucceeds
  /\ Write(Record(c, TRUE), TRUE)
  /\ fate' = [fate EXCEPT ![c] = "stored"]
  /\ UNCHANGED cuts

(* Variant: an unreadable file is replaced by a new one. *)
SkipByStartingOver(c) ==
  /\ fate[c] = "calling"
  /\ ~ReadAllSucceeds
  /\ file' = <<<<[call |-> c, chain |-> <<c>>, whole |-> TRUE]>>>>
  /\ ended' = TRUE
  /\ fate' = [fate EXCEPT ![c] = "stored"]
  /\ UNCHANGED cuts

(* read_all raises: the wrapper prints the error and returns the result.   *)
Skip(c) ==
  /\ fate[c] = "calling"
  /\ ~ReadAllSucceeds
  /\ fate' = [fate EXCEPT ![c] = "skipped"]
  /\ UNCHANGED <<file, ended, cuts>>

(* The process dies in the append, or the append raises and the wrapper    *)
(* swallows it: nothing, a part, all but the newline, or all is on disk.   *)
CutShort(c) ==
  /\ fate[c] = "calling"
  /\ ReadAllSucceeds
  /\ cuts < MaxCuts
  /\ cuts' = cuts + 1
  /\ fate' = [fate EXCEPT ![c] = "cut"]
  /\ \/ UNCHANGED <<file, ended>>
     \/ Write(Record(c, FALSE), FALSE)
     \/ \E end \in BOOLEAN : Write(Record(c, TRUE), end)

Next == \E c \in Calls : Store(c) \/ Skip(c) \/ CutShort(c)

Spec == Init /\ [][Next]_vars

-----------------------------------------------------------------------------
(* Reading the ledger *)

Records == [i \in DOMAIN file |-> file[i][1]]

(* verify_chain: the indices whose hash does not follow from the one before.*)
Violations(records) ==
  {i \in DOMAIN records :
     records[i].chain
       # ChainHash(IF i = 1 THEN <<>> ELSE records[i - 1].chain, records[i].call)}

(* _chain_integrity, the status a replay reports. *)
Status ==
  CASE ~ReadAllSucceeds -> "BROKEN"
    [] ReadAllSucceeds /\ file = <<>> -> "NO_RECORDS"
    [] OTHER -> IF Violations(Records) = {} THEN "INTACT" ELSE "BROKEN"

-----------------------------------------------------------------------------
(* Properties *)

TypeOK ==
  /\ file \in Seq(Seq(Piece))
  /\ ended \in BOOLEAN
  /\ fate \in [Calls -> Fates]
  /\ cuts \in 0..MaxCuts

Stored == {c \in Calls : fate[c] = "stored"}

(* The calls whose record can be read back from a line of its own. *)
Kept == {file[i][1].call : i \in {i \in DOMAIN file : Readable(file[i])}}

(* BROKEN means damaged bytes and nothing else: whatever appends were cut  *)
(* short, by crashes or errors, every file that can be read verifies       *)
(* (_build_and_store, verify_chain), so no crash forks the chain.          *)
ReadableVerifies == ReadAllSucceeds => Violations(Records) = {}

(* A replay that reports INTACT reports on a complete ledger: no record    *)
(* whose append returned is missing from it (_chain_integrity).            *)
IntactIsComplete == Status = "INTACT" => Stored \subseteq Kept

(* An append that returned can still be lost, when it completes the line   *)
(* of an append cut just before its newline; but never more than one such  *)
(* record, because nothing is appended to a file that cannot be read.      *)
AtMostOneLost == \A c, d \in Stored \ Kept : c = d

(* Append-only: a line that can be read stays as it is for good, unless it *)
(* is the last and its newline was never written.                          *)
LinesStay ==
  [][\A i \in DOMAIN file :
       Readable(file[i]) /\ (ended \/ i < Len(file)) =>
         i \in DOMAIN file' /\ file'[i] = file[i]]_vars

=============================================================================
