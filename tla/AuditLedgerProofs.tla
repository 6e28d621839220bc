-------------------------- MODULE AuditLedgerProofs --------------------------
(***************************************************************************)
(* Theorems about AuditLedger, for any number of calls and of appends cut  *)
(* short.                                                                  *)
(***************************************************************************)
EXTENDS AuditLedger, TLAPS

(* The first piece of every line continues the chain of the line before.   *)
ChainedIn(f) ==
  \A i \in DOMAIN f :
    /\ f[i] # <<>>
    /\ f[i][1].chain = ChainHash(IF i = 1 THEN <<>> ELSE f[i - 1][1].chain, f[i][1].call)

(* Damage is at the tail: only the last line may be unreadable. *)
TailOnlyIn(f) == \A i \in 1 .. Len(f) - 1 : Readable(f[i])

Chained == ChainedIn(file)
DamageAtTail == TailOnlyIn(file)

(* A missing newline was left by an append that was cut short. *)
OpenTailWasCut ==
  ~ended => /\ file # <<>>
            /\ Len(file[Len(file)]) = 1 => fate[file[Len(file)][1].call] = "cut"

(* A stored record is kept, or was glued to such a tail. *)
Glued(c) ==
  /\ file # <<>>
  /\ Len(file[Len(file)]) = 2
  /\ file[Len(file)][2].call = c

StoredKeptOrGlued == \A c \in Stored : c \in Kept \/ Glued(c)

LedgerInv == TypeOK /\ Chained /\ DamageAtTail /\ OpenTailWasCut /\ StoredKeptOrGlued

-----------------------------------------------------------------------------
(* Appending *)

(* The hash of a file is what ReadAllSucceeds lets the append compute. *)
LEMMA PreviousHashType ==
  ASSUME TypeOK, Chained
  PROVE  PreviousHash \in Seq(Calls)
<1>1. CASE file = <<>>
  BY <1>1 DEF PreviousHash
<1>2. CASE file # <<>>
  <2>1. PICK n : n = Len(file) /\ n \in DOMAIN file /\ file[n] \in Seq(Piece)
    BY SMTT(30), <1>2 DEF TypeOK
  <2>2. PICK l \in Seq(Piece) : l = file[n] /\ l # <<>>
    BY <2>1 DEF Chained, ChainedIn
  <2>3. l[1] \in Piece
    BY <2>2
  <2> QED
    BY <1>2, <2>1, <2>2, <2>3 DEF PreviousHash, Piece, Hashes
<1> QED
  BY <1>1, <1>2

(* A record is a piece, and extends the chain by its call. *)
LEMMA RecordType ==
  ASSUME TypeOK, Chained, NEW c \in Calls, NEW whole \in BOOLEAN
  PROVE  /\ Record(c, whole) \in Piece
         /\ Record(c, whole).call = c
         /\ Record(c, whole).whole = whole
         /\ Record(c, whole).chain = ChainHash(PreviousHash, c)
<1> DEFINE h == PreviousHash
<1>1. h \in Seq(Calls)
  BY PreviousHashType
<1>2. Append(h, c) \in Hashes
  <2> HIDE DEF h
  <2> QED
    BY <1>1 DEF Hashes
<1> QED
  BY <1>2 DEF Record, Piece, ChainHash

(* What Append does to a sequence. *)
LEMMA AppendFacts ==
  ASSUME NEW S, NEW s \in Seq(S), NEW e \in S
  PROVE  /\ Append(s, e) \in Seq(S)
         /\ Len(Append(s, e)) = Len(s) + 1
         /\ \A i \in 1 .. Len(s) : Append(s, e)[i] = s[i]
         /\ Append(s, e)[Len(s) + 1] = e
OBVIOUS

(* The two ways a write changes the file, as relations of old and new file.*)
NewLineOf(f, p, g) == g = Append(f, <<p>>)
GluedTo(f, p, g) == g = [f EXCEPT ![Len(f)] = Append(@, p)]

(* The hash a record appended to f must have. *)
Continues(f, p) ==
  p.chain = ChainHash(IF f = <<>> THEN <<>> ELSE f[Len(f)][1].chain, p.call)

(* What an append makes of a readable file f that ends with a newline: one *)
(* line more, and the chain goes on.                                       *)
LEMMA NewLine ==
  ASSUME NEW f \in Seq(Seq(Piece)), NEW p \in Piece, NEW g,
         \A i \in DOMAIN f : Readable(f[i]),
         ChainedIn(f),
         Continues(f, p),
         NewLineOf(f, p, g)
  PROVE  /\ g \in Seq(Seq(Piece)) /\ g # <<>> /\ Len(f) \in Nat /\ Len(g) = Len(f) + 1
         /\ ChainedIn(g) /\ TailOnlyIn(g)
         /\ \A i \in DOMAIN f : i \in DOMAIN g /\ g[i] = f[i]
         /\ g[Len(g)] = <<p>>
<1>1. PICK n \in Nat : n = Len(f) /\ DOMAIN f = 1 .. n
  OBVIOUS
<1>2. <<p>> \in Seq(Piece) /\ Len(<<p>>) = 1 /\ <<p>>[1] = p /\ <<p>> # <<>>
  OBVIOUS
<1>3. PICK l \in Seq(Piece) : l = <<p>> /\ l[1] = p /\ l # <<>>
  BY <1>2
<1>4. /\ g \in Seq(Seq(Piece)) /\ Len(g) = n + 1 /\ DOMAIN g = 1 .. n + 1 /\ g # <<>>
      /\ \A i \in 1 .. n : g[i] = f[i]
      /\ g[n + 1] = l
  BY <1>1, <1>3 DEF NewLineOf
<1>5. ASSUME NEW i \in 1 .. n + 1
      PROVE  /\ g[i] # <<>>
             /\ g[i][1].chain
                  = ChainHash(IF i = 1 THEN <<>> ELSE g[i - 1][1].chain, g[i][1].call)
  <2>1. CASE i \in 1 .. n
    <3>1. g[i] = f[i] /\ (i # 1 => g[i - 1] = f[i - 1])
      BY <1>4, <2>1
    <3> QED
      BY <1>1, <2>1, <3>1 DEF ChainedIn
  <2>2. CASE i = n + 1
    <3>1. g[i] = l /\ (i # 1 => g[i - 1] = f[n])
      BY <1>4, <2>2
    <3>2. i = 1 <=> f = <<>>
      BY <1>1, <2>2
    <3> QED
      BY <1>1, <1>3, <3>1, <3>2 DEF Continues
  <2>3. i \in 1 .. n \/ i = n + 1
    OBVIOUS
  <2> QED
    BY <2>1, <2>2, <2>3
<1>6. ChainedIn(g)
  BY <1>4, <1>5 DEF ChainedIn
<1>7. TailOnlyIn(g)
  <2> SUFFICES ASSUME NEW i \in 1 .. n
               PROVE  Readable(g[i])
    BY <1>4 DEF TailOnlyIn
  <2>1. i \in DOMAIN f /\ g[i] = f[i]
    BY <1>1, <1>4
  <2> QED
    BY <2>1
<1> QED
  BY <1>1, <1>3, <1>4, <1>6, <1>7

(* What it makes of one that does not: its last line grows by the piece.   *)
LEMMA GlueToLast ==
  ASSUME NEW f \in Seq(Seq(Piece)), NEW p \in Piece, NEW g,
         f # <<>>,
         \A i \in DOMAIN f : Readable(f[i]),
         ChainedIn(f),
         GluedTo(f, p, g)
  PROVE  /\ g \in Seq(Seq(Piece)) /\ g # <<>> /\ Len(g) = Len(f)
         /\ ChainedIn(g) /\ TailOnlyIn(g)
         /\ \A i \in DOMAIN f : i < Len(f) => i \in DOMAIN g /\ g[i] = f[i]
         /\ Len(g[Len(g)]) = 2 /\ g[Len(g)][2] = p
<1>1. PICK n \in Nat : n = Len(f) /\ DOMAIN f = 1 .. n /\ n \in 1 .. n
  OBVIOUS
<1>2. PICK l \in Seq(Piece) : l = f[n] /\ Len(l) = 1
  BY <1>1 DEF Readable
<1>3. PICK k \in Seq(Piece) :
        k = Append(l, p) /\ Len(k) = 2 /\ k[1] = l[1] /\ k[2] = p /\ k # <<>>
  <2>1. PICK k \in Seq(Piece) :
          /\ k = Append(l, p) /\ Len(k) = Len(l) + 1
          /\ \A i \in 1 .. Len(l) : k[i] = l[i]
          /\ k[Len(l) + 1] = p
    BY AppendFacts
  <2>2. Len(k) = 2
    BY <1>2, <2>1
  <2>3. k[1] = l[1] /\ k[2] = p
    BY <1>2, <2>1
  <2>4. k # <<>>
    <3> SUFFICES ASSUME k = <<>>
                 PROVE  Len(k) = 0
      BY <2>2
    <3> QED
      OBVIOUS
  <2> QED
    BY <2>1, <2>2, <2>3, <2>4
<1>4. g = [f EXCEPT ![n] = k]
  BY <1>1, <1>2, <1>3 DEF GluedTo
<1>5. /\ g \in Seq(Seq(Piece)) /\ Len(g) = n /\ DOMAIN g = 1 .. n /\ g # <<>>
      /\ \A i \in 1 .. n : i # n => g[i] = f[i]
      /\ g[n] = k
  BY <1>1, <1>4
<1>6. \A i \in 1 .. n : g[i] # <<>> /\ g[i][1] = f[i][1]
  BY <1>1, <1>2, <1>3, <1>5 DEF ChainedIn
<1>7. ChainedIn(g)
  <2> SUFFICES ASSUME NEW i \in 1 .. n
               PROVE  g[i][1].chain
                        = ChainHash(IF i = 1 THEN <<>> ELSE g[i - 1][1].chain, g[i][1].call)
    BY <1>5, <1>6 DEF ChainedIn
  <2>1. i # 1 => i - 1 \in 1 .. n
    OBVIOUS
  <2> QED
    BY <1>1, <1>6, <2>1 DEF ChainedIn
<1>8. TailOnlyIn(g)
  <2> SUFFICES ASSUME NEW i \in 1 .. n - 1
               PROVE  Readable(g[i])
    BY <1>5 DEF TailOnlyIn
  <2>1. i \in DOMAIN f /\ g[i] = f[i]
    BY <1>1, <1>5
  <2> QED
    BY <2>1
<1> QED
  BY <1>1, <1>3, <1>5, <1>7, <1>8

(* What a write leaves of a readable file: see NewLine and GlueToLast.     *)
LEMMA WriteFacts ==
  ASSUME LedgerInv, ReadAllSucceeds,
         NEW c \in Calls, NEW whole \in BOOLEAN, NEW end \in BOOLEAN,
         Write(Record(c, whole), end)
  PROVE  /\ file' \in Seq(Seq(Piece)) /\ ended' = end /\ file' # <<>>
         /\ Chained' /\ DamageAtTail'
         /\ \A i \in DOMAIN file :
              Readable(file[i]) /\ (ended \/ i < Len(file)) =>
                i \in DOMAIN file' /\ file'[i] = file[i]
         /\ \/ file'[Len(file')] = <<Record(c, whole)>>
            \/ /\ Len(file'[Len(file')]) = 2
               /\ file'[Len(file')][2] = Record(c, whole)
<1>1. PICK p \in Piece :
        p = Record(c, whole) /\ p.chain = ChainHash(PreviousHash, c) /\ p.call = c
  BY RecordType DEF LedgerInv
<1>2. file \in Seq(Seq(Piece)) /\ ChainedIn(file) /\ \A i \in DOMAIN file : Readable(file[i])
  BY DEF LedgerInv, TypeOK, ReadAllSucceeds, Chained
<1>3. ended' = end
  BY DEF Write
<1>4. PICK f, g : f = file /\ g = file'
  OBVIOUS
<1>5. f \in Seq(Seq(Piece)) /\ ChainedIn(f) /\ \A i \in DOMAIN f : Readable(f[i])
  BY <1>2, <1>4
<1>6. CASE ended
  <2>1. NewLineOf(f, p, g)
    BY <1>1, <1>4, <1>6 DEF Write, NewLineOf
  <2>2. Continues(f, p)
    BY <1>1, <1>4 DEF PreviousHash, Continues
  <2>3. /\ g \in Seq(Seq(Piece)) /\ g # <<>> /\ ChainedIn(g) /\ TailOnlyIn(g)
        /\ \A i \in DOMAIN f : i \in DOMAIN g /\ g[i] = f[i]
        /\ g[Len(g)] = <<p>>
    BY <1>5, <2>1, <2>2, NewLine
  <2> QED
    BY <1>1, <1>3, <1>4, <2>3 DEF Chained, DamageAtTail
<1>7. CASE ~ended
  <2>1. f # <<>> /\ GluedTo(f, p, g)
    BY <1>1, <1>4, <1>7 DEF LedgerInv, OpenTailWasCut, Write, GluedTo
  <2>2. /\ g \in Seq(Seq(Piece)) /\ g # <<>> /\ ChainedIn(g) /\ TailOnlyIn(g)
        /\ \A i \in DOMAIN f : i < Len(f) => i \in DOMAIN g /\ g[i] = f[i]
        /\ Len(g[Len(g)]) = 2 /\ g[Len(g)][2] = p
    BY <1>5, <2>1, GlueToLast
  <2> QED
    BY <1>1, <1>3, <1>4, <1>7, <2>2 DEF Chained, DamageAtTail
<1> QED
  BY <1>6, <1>7

(* While the file can be read, every stored record is on a line that stays.*)
LEMMA StoredStaysKept ==
  ASSUME LedgerInv, ReadAllSucceeds, NEW d \in Stored
  PROVE  \E i \in DOMAIN file :
           /\ Readable(file[i]) /\ file[i][1].call = d
           /\ ended \/ i < Len(file)
<1>1. PICK n \in Nat : n = Len(file) /\ DOMAIN file = 1 .. n
  BY DEF LedgerInv, TypeOK
<1>2. ~Glued(d)
  <2>1. file # <<>> => n \in 1 .. n
    BY <1>1
  <2> QED
    BY <1>1, <2>1 DEF Glued, ReadAllSucceeds, Readable
<1>3. d \in Kept
  BY <1>2 DEF LedgerInv, StoredKeptOrGlued
<1>4. PICK i \in DOMAIN file : Readable(file[i]) /\ file[i][1].call = d
  BY <1>3 DEF Kept
<1>5. ~ended => i # n
  <2> SUFFICES ASSUME ~ended, i = n
               PROVE  FALSE
    OBVIOUS
  <2>1. Len(file[n]) = 1
    BY <1>4 DEF Readable
  <2>2. fate[d] = "cut"
    BY <1>1, <1>4, <2>1 DEF LedgerInv, OpenTailWasCut
  <2> QED
    BY <2>2 DEF Stored
<1> QED
  BY <1>1, <1>4, <1>5

-----------------------------------------------------------------------------
(* The invariant *)

(* Every append keeps the chain, the place of the damage and the records.  *)
LEMMA LedgerStep ==
  ASSUME LedgerInv, [Next]_vars
  PROVE  LedgerInv'
<1>1. ASSUME NEW c \in Calls, Store(c)
      PROVE  LedgerInv'
  <2>1. /\ fate[c] = "calling" /\ ReadAllSucceeds /\ Write(Record(c, TRUE), TRUE)
        /\ fate' = [fate EXCEPT ![c] = "stored"] /\ cuts' = cuts
    BY <1>1 DEF Store
  <2>2. /\ file' \in Seq(Seq(Piece)) /\ ended' = TRUE /\ file' # <<>>
        /\ Chained' /\ DamageAtTail'
        /\ \A i \in DOMAIN file :
             Readable(file[i]) /\ (ended \/ i < Len(file)) =>
               i \in DOMAIN file' /\ file'[i] = file[i]
        /\ \/ file'[Len(file')] = <<Record(c, TRUE)>>
           \/ Len(file'[Len(file')]) = 2 /\ file'[Len(file')][2] = Record(c, TRUE)
    BY <2>1, WriteFacts
  <2>3. Record(c, TRUE).call = c /\ Record(c, TRUE).whole = TRUE
    BY RecordType DEF LedgerInv
  <2>4. TypeOK'
    BY <2>1, <2>2 DEF LedgerInv, TypeOK, Fates
  <2>5. c \in Kept' \/ Glued(c)'
    <3>1. CASE file'[Len(file')] = <<Record(c, TRUE)>>
      <4>1. PICK n : n = Len(file') /\ n \in DOMAIN file'
        BY <2>2
      <4>2. PICK p : p = Record(c, TRUE)
        OBVIOUS
      <4>3. Readable(<<p>>) /\ <<p>>[1].call = c
        BY <2>3, <4>2 DEF Readable
      <4>4. Readable(file'[n]) /\ file'[n][1].call = c
        BY <3>1, <4>1, <4>2, <4>3
      <4> QED
        BY <4>1, <4>4 DEF Kept
    <3>2. CASE Len(file'[Len(file')]) = 2 /\ file'[Len(file')][2] = Record(c, TRUE)
      BY <2>2, <2>3, <3>2 DEF Glued
    <3> QED
      BY <2>2, <3>1, <3>2
  <2>6. ASSUME NEW d \in Stored', d # c
        PROVE  d \in Kept'
    <3>1. d \in Stored
      BY <2>1, <2>6 DEF Stored, LedgerInv, TypeOK
    <3> QED
      BY <2>1, <2>2, <3>1, StoredStaysKept DEF Kept
  <2>7. StoredKeptOrGlued'
    BY <2>5, <2>6 DEF StoredKeptOrGlued
  <2>8. OpenTailWasCut'
    BY <2>2 DEF OpenTailWasCut
  <2> QED
    BY <2>2, <2>4, <2>7, <2>8 DEF LedgerInv
<1>2. ASSUME NEW c \in Calls, Skip(c)
      PROVE  LedgerInv'
  <2>1. /\ fate[c] = "calling" /\ fate' = [fate EXCEPT ![c] = "skipped"]
        /\ file' = file /\ ended' = ended /\ cuts' = cuts
    BY <1>2 DEF Skip
  <2>2. TypeOK'
    BY <2>1 DEF LedgerInv, TypeOK, Fates
  <2>3. Chained' /\ DamageAtTail'
    BY <2>1 DEF LedgerInv, Chained, DamageAtTail
  <2>4. OpenTailWasCut'
    BY <2>1 DEF LedgerInv, OpenTailWasCut, TypeOK
  <2>5. Stored' \subseteq Stored
    BY <2>1 DEF Stored, LedgerInv, TypeOK
  <2>6. StoredKeptOrGlued'
    BY <2>1, <2>5 DEF LedgerInv, StoredKeptOrGlued, Kept, Glued
  <2> QED
    BY <2>2, <2>3, <2>4, <2>6 DEF LedgerInv
<1>3. ASSUME NEW c \in Calls, CutShort(c)
      PROVE  LedgerInv'
  <2>1. /\ fate[c] = "calling" /\ ReadAllSucceeds /\ cuts < MaxCuts /\ cuts' = cuts + 1
        /\ fate' = [fate EXCEPT ![c] = "cut"]
    BY <1>3 DEF CutShort
  <2>2. Stored' \subseteq Stored
    BY <2>1 DEF Stored, LedgerInv, TypeOK
  <2>3. cuts' \in 0 .. MaxCuts /\ fate' \in [Calls -> Fates]
    BY <2>1, MaxCutsOK DEF LedgerInv, TypeOK, Fates
  <2>4. CASE UNCHANGED <<file, ended>>
    <3>1. TypeOK'
      BY <2>3, <2>4 DEF LedgerInv, TypeOK
    <3>2. Chained' /\ DamageAtTail'
      BY <2>4 DEF LedgerInv, Chained, DamageAtTail
    <3>3. OpenTailWasCut'
      BY <2>1, <2>4 DEF LedgerInv, OpenTailWasCut, TypeOK
    <3>4. StoredKeptOrGlued'
      BY <2>2, <2>4 DEF LedgerInv, StoredKeptOrGlued, Kept, Glued
    <3> QED
      BY <3>1, <3>2, <3>3, <3>4 DEF LedgerInv
  <2>5. ASSUME NEW whole \in BOOLEAN, NEW end \in BOOLEAN, Write(Record(c, whole), end)
        PROVE  LedgerInv'
    <3>1. /\ file' \in Seq(Seq(Piece)) /\ ended' = end /\ file' # <<>>
          /\ Chained' /\ DamageAtTail'
          /\ \A i \in DOMAIN file :
               Readable(file[i]) /\ (ended \/ i < Len(file)) =>
                 i \in DOMAIN file' /\ file'[i] = file[i]
          /\ \/ file'[Len(file')] = <<Record(c, whole)>>
             \/ Len(file'[Len(file')]) = 2
      BY <2>1, <2>5, WriteFacts
    <3>2. TypeOK'
      BY <2>3, <3>1 DEF TypeOK
    <3>3. OpenTailWasCut'
      <4>1. Record(c, whole).call = c
        BY RecordType DEF LedgerInv
      <4>2. fate'[c] = "cut"
        BY <2>1 DEF LedgerInv, TypeOK
      <4>3. CASE file'[Len(file')] = <<Record(c, whole)>>
        BY <3>1, <4>1, <4>2, <4>3 DEF OpenTailWasCut
      <4>4. CASE Len(file'[Len(file')]) = 2
        BY <3>1, <4>4 DEF OpenTailWasCut
      <4> QED
        BY <3>1, <4>3, <4>4
    <3>4. StoredKeptOrGlued'
      <4> SUFFICES ASSUME NEW d \in Stored'
                   PROVE  d \in Kept'
        BY DEF StoredKeptOrGlued
      <4> QED
        BY <2>1, <2>2, <3>1, StoredStaysKept DEF Kept
    <3> QED
      BY <3>1, <3>2, <3>3, <3>4 DEF LedgerInv
  <2> QED
    BY <1>3, <2>4, <2>5 DEF CutShort
<1>4. CASE UNCHANGED vars
  BY <1>4 DEF vars, LedgerInv, TypeOK, Chained, DamageAtTail, OpenTailWasCut,
              StoredKeptOrGlued, Stored, Kept, Glued
<1> QED
  BY <1>1, <1>2, <1>3, <1>4 DEF Next

(* The ledger keeps its invariant, however many appends are cut short. *)
THEOREM LedgerKept == Spec => []LedgerInv
<1>1. Init => LedgerInv
  BY MaxCutsOK DEF Init, LedgerInv, TypeOK, Fates, Chained, ChainedIn, DamageAtTail, TailOnlyIn,
                   OpenTailWasCut, StoredKeptOrGlued, Stored
<1>2. LedgerInv /\ [Next]_vars => LedgerInv'
  BY LedgerStep
<1> QED
  BY <1>1, <1>2, PTL DEF Spec

(* No append, cut short or not, forks the chain: whenever read_all         *)
(* succeeds, verify_chain finds nothing wrong (_build_and_store).          *)
THEOREM ReadableChain == Spec => []ReadableVerifies
<1>1. LedgerInv => ReadableVerifies
  <2> SUFFICES ASSUME LedgerInv, NEW i \in DOMAIN Records
               PROVE  Records[i].chain = ChainHash(IF i = 1 THEN <<>> ELSE Records[i - 1].chain,
                                                   Records[i].call)
    BY DEF ReadableVerifies, Violations
  <2>1. i \in DOMAIN file /\ Records[i] = file[i][1]
    BY DEF Records
  <2>2. i # 1 => Records[i - 1] = file[i - 1][1]
    BY <2>1 DEF Records, LedgerInv, TypeOK
  <2> QED
    BY <2>1, <2>2 DEF LedgerInv, Chained, ChainedIn
<1> QED
  BY <1>1, LedgerKept, PTL

(* INTACT is only reported of a ledger that has every record whose append  *)
(* returned (_chain_integrity).                                            *)
THEOREM IntactComplete == Spec => []IntactIsComplete
<1>1. LedgerInv => IntactIsComplete
  <2> SUFFICES ASSUME LedgerInv, Status = "INTACT", NEW d \in Stored
               PROVE  d \in Kept
    BY DEF IntactIsComplete
  <2>1. ReadAllSucceeds
    BY DEF Status
  <2> QED
    BY <2>1, StoredStaysKept DEF Kept
<1> QED
  BY <1>1, LedgerKept, PTL

(* At most one record whose append returned can become unreadable, the one *)
(* glued to an unended line (append).                                      *)
THEOREM OneLost == Spec => []AtMostOneLost
<1>1. LedgerInv => AtMostOneLost
  BY DEF LedgerInv, AtMostOneLost, StoredKeptOrGlued, Glued
<1> QED
  BY <1>1, LedgerKept, PTL

(* A readable line is never altered by a later append, unless its own      *)
(* newline is missing (append).                                            *)
THEOREM AppendOnly == Spec => LinesStay
<1>1. ASSUME LedgerInv, [Next]_vars,
             NEW i \in DOMAIN file, Readable(file[i]), ended \/ i < Len(file)
      PROVE  i \in DOMAIN file' /\ file'[i] = file[i]
  <2>1. ASSUME NEW c \in Calls, NEW whole \in BOOLEAN, NEW end \in BOOLEAN,
               ReadAllSucceeds, Write(Record(c, whole), end)
        PROVE  i \in DOMAIN file' /\ file'[i] = file[i]
    BY <1>1, <2>1, WriteFacts
  <2>2. CASE file' = file
    BY <1>1, <2>2
  <2> QED
    BY <1>1, <2>1, <2>2 DEF Next, Store, Skip, CutShort, vars
<1>2. LedgerInv /\ [Next]_vars =>
        [\A i \in DOMAIN file :
           Readable(file[i]) /\ (ended \/ i < Len(file)) =>
             i \in DOMAIN file' /\ file'[i] = file[i]]_vars
  BY <1>1
<1> QED
  BY <1>2, LedgerKept, PTL DEF Spec, LinesStay

=============================================================================
