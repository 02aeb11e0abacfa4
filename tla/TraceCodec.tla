----------------------------- MODULE TraceCodec -----------------------------
(***************************************************************************)
(* read_trace() of cbp2/src/compress/trace.cc in its two directions, one   *)
(* process that compresses (ct -c) and one that decompresses (ct -d, or    *)
(* the reader of cbp2/src/trace.cc, which repeats that direction), and the *)
(* items that the first writes and the second reads: bytes, and unsigned   *)
(* ints for addresses.  The processes share nothing else and read in the   *)
(* order of writing, so that decompressing each record as soon as it is    *)
(* written passes through the states that decompressing the file           *)
(* afterwards does.                                                        *)
(***************************************************************************)
EXTENDS TraceTable, FiniteSets

CONSTANTS
    Branches,   \* the branches a trace may contain
    Counts,     \* the instruction counts a trace may contain
    PassCounts, \* whether the reader is ct, which passes counts along
    MaxTrace    \* bound of the exploration: branches in the longest trace

ASSUME TraceAssumption ==
    /\ Branches \subseteq Branch /\ MaxTrace \in Nat
    /\ \A n \in Counts : n \in Nat /\ n < 65536
    /\ PassCounts \in BOOLEAN /\ (PassCounts \/ Counts = {})

\* The bytes with the high bit set.
OffBy2 == 130
OffBy3 == 131
InstCount == 135

\* What one call of read_trace() processes: a branch, before it an
\* instruction count or none.
NoCount == -1
CountItems(n) == IF n = NoCount THEN <<>> ELSE <<InstCount, n % 256, n \div 256>>

VARIABLES
    enc,        \* the state of the compressing process
    dec,        \* the state of the decompressing process
    pipe,       \* what was written and not yet read
    sent,       \* the branches of the original trace so far
    received,   \* the branches of the decompressed trace so far
    aborted     \* an assertion of the decompressing process has failed

vars == <<enc, dec, pipe, sent, received, aborted>>

Init == /\ enc = Start /\ dec = Start
        /\ pipe = <<>> /\ sent = <<>> /\ received = <<>>
        /\ aborted = FALSE

(***************************************************************************)
(* Compressing.                                                            *)
(***************************************************************************)
\* The byte that patches the popped return address: the byte 0 stands for
\* none, for a return address that is right.
Patches == {0, OffBy2, OffBy3}
Patched(popd, patch) ==
    CASE patch = OffBy2 -> (popd + 2) % Word
      [] patch = OffBy3 -> (popd - 3) % Word
      [] OTHER -> popd

RasCorrect(s, r) ==
    r.code = Return /\ \E patch \in Patches : r.target = Patched(TopRas(s.ras), patch)

PatchFor(s, r) ==
    LET popd == TopRas(s.ras)
    IN  IF r.target = popd THEN 0
        ELSE IF r.target = Patched(popd, OffBy2) THEN OffBy2 ELSE OffBy3

\* Mutant: a wrong return address does not empty the stack.
PopReturnOnly(s, r, correct) ==
    IF r.code # Return THEN s ELSE [s EXCEPT !.ras = PopRas(s.ras)]

\* A return pops the stack; one that was not predicted empties it.
PopReturn(s, r, correct) ==
    IF r.code # Return THEN s
    ELSE [s EXCEPT !.ras = IF correct THEN PopRas(s.ras) ELSE <<>>]

\* Mutant: the search stops before the last way.
FoundBelowLast(s, r) ==
    {w \in 0 .. Assoc - 2 : Equal(PredictedSet(s)[w], r, RasCorrect(s, r))}

\* search_remember(): the ways of the predicted set that hold the branch.
Found(s, r) == {w \in Way : Equal(PredictedSet(s)[w], r, RasCorrect(s, r))}
SearchRemember(s, r) == CHOOSE w \in Found(s, r) : \A v \in Found(s, r) : w <= v

\* Mutant: the patch is not written.
CompressedUnpatched(s, r) ==
    IF Found(s, r) = {} THEN <<r.code, r.address, r.target>>
    ELSE <<SearchRemember(s, r) + (IF RasCorrect(s, r) THEN Assoc ELSE 0)>>

Compressed(s, r) ==
    IF Found(s, r) = {} THEN <<r.code, r.address, r.target>>
    ELSE IF ~ RasCorrect(s, r) THEN <<SearchRemember(s, r)>>
    ELSE IF PatchFor(s, r) = 0 THEN <<SearchRemember(s, r) + Assoc>>
    ELSE <<PatchFor(s, r), SearchRemember(s, r) + Assoc>>

AfterCompress(s, r) ==
    LET popped == PopReturn(s, r, RasCorrect(s, r))
        updated == IF Found(s, r) = {} THEN UpdateMissed(popped, r)
                   ELSE UpdateFound(popped, SearchRemember(s, r), r)
    IN  AfterClass(updated, r)

Compress(n, r) ==
    /\ pipe = <<>> /\ Len(sent) < MaxTrace
    /\ pipe' = CountItems(n) \o Compressed(enc, r)
    /\ enc' = AfterCompress(enc, r)
    /\ sent' = Append(sent, r)
    /\ UNCHANGED <<dec, received, aborted>>

(***************************************************************************)
(* Decompressing.                                                          *)
(***************************************************************************)
\* A byte below 2 * Assoc names a way of the predicted set, with the target
\* from the stack when it is at least Assoc.
WayOf(c) == IF c >= Assoc THEN c - Assoc ELSE c
FromTable(s, c, patch) ==
    LET e == PredictedSet(s)[WayOf(c)]
    IN  [code |-> e.code, address |-> e.address,
         target |-> IF e.code = Return /\ c >= Assoc
                    THEN Patched(TopRas(s.ras), patch) ELSE e.target]

AfterFromTable(s, c, r) ==
    AfterClass(UpdateFound(PopReturn(s, r, c >= Assoc), WayOf(c), r), r)

\* Mutant: the popped address is compared without the patches.
ReturnKeptExactly(s, r) == TopRas(s.ras) = r.target

\* Another byte is the code of a branch that was written in full.
ReturnKept(s, r) ==
    \/ TopRas(s.ras) = r.target
    \/ TopRas(s.ras) = (r.target - 2) % Word
    \/ TopRas(s.ras) = (r.target + 3) % Word

\* Mutant: the branch is not stored.
AfterInFullUnstored(s, r) ==
    AfterClass([PopReturn(s, r, ReturnKept(s, r)) EXCEPT !.lastTarget = r.target], r)

AfterInFull(s, r) ==
    AfterClass(UpdateMissed(PopReturn(s, r, ReturnKept(s, r)), r), r)

IsWay(c) == c < 2 * Assoc

\* The decompressing process reads a record that starts at item k, with the
\* patch read before it; the switch asserts that its class is one of seven.
DecompressRecord(k, patch) ==
    LET c == pipe[k]
        r == IF IsWay(c) THEN FromTable(dec, c, patch)
             ELSE [code |-> c, address |-> pipe[k + 1], target |-> pipe[k + 2]]
    IN  /\ k + (IF IsWay(c) THEN 0 ELSE 2) <= Len(pipe)
        /\ received' = Append(received, r)
        /\ dec' = IF IsWay(c) THEN AfterFromTable(dec, c, r) ELSE AfterInFull(dec, r)
        /\ pipe' = SubSeq(pipe, IF IsWay(c) THEN k + 1 ELSE k + 3, Len(pipe))
        /\ aborted' = (ClassOf(r.code) \notin 1 .. 7)
        /\ UNCHANGED <<enc, sent>>

\* ct passes an instruction count along, trace.cc does not know of them.  Any
\* other byte with the high bit set that patches nothing fails an assertion.
RecordStart == IF PassCounts /\ pipe[1] = InstCount THEN 4 ELSE 1

Decompress ==
    /\ pipe # <<>> /\ ~ aborted
    /\ LET k == RecordStart
           c == pipe[k]
       IN  IF c < 128 THEN DecompressRecord(k, 0)
           ELSE IF c \in {OffBy2, OffBy3} THEN DecompressRecord(k + 1, c)
           ELSE aborted' = TRUE /\ UNCHANGED <<enc, dec, pipe, sent, received>>

Next ==
    \/ \E r \in Branches, n \in Counts \cup {NoCount} : Compress(n, r)
    \/ Decompress

Spec == Init /\ [][Next]_vars

\* A further file, compressed by a process of its own, is the next argument
\* of the same decompressing process.
NextFile ==
    /\ pipe = <<>>
    /\ enc' = Start
    /\ dec' = InitTrace(dec)
    /\ UNCHANGED <<pipe, sent, received, aborted>>

FilesSpec == Init /\ [][Next \/ NextFile]_vars

-----------------------------------------------------------------------------
(***************************************************************************)
(* Properties.                                                             *)
(***************************************************************************)
\* Both processes hold values of their types, no more return addresses than
\* the stack has room for, and the decompressed branches are branches.
TypeOK ==
    /\ enc \in State /\ Len(enc.ras) <= RasSize
    /\ dec \in State /\ Len(dec.ras) <= RasSize
    /\ pipe \in Seq(Nat) /\ sent \in Seq(Branch) /\ received \in Seq(Branch)
    /\ aborted \in BOOLEAN

\* "The compression scheme is lossless" (cbp2/doc/index.html): the branches
\* that have been read are those of the original trace.
Lossless == received = IF pipe = <<>> THEN sent ELSE SubSeq(sent, 1, Len(sent) - 1)

\* The tables, clocks and stacks of the two processes, which different code
\* updates, agree whenever everything written has been read.
InStep == pipe = <<>> => dec = enc

\* No assertion of the decompressing process fails.
NeverAborts == ~ aborted

Used(e) == e.code # 0
SameBranch(e, f) == Equal(e, f, FALSE)

\* A set never holds a branch twice, so that the way written to the trace is
\* the way a search finds.
NoDuplicates ==
    \A n \in DOMAIN enc.rtab : \A v, w \in Way :
        Used(enc.rtab[n][v]) /\ SameBranch(enc.rtab[n][v], enc.rtab[n][w]) => v = w

\* The position in the trace that the branch at n is predicted from, and the
\* positions between m and n that use the same set of the table.
SetAt(n) == IF n = 1 THEN 0 ELSE sent[n - 1].target % NRemember
UsesBetween(m, n) == {k \in m + 1 .. n - 1 : SetAt(k) = SetAt(n)}

\* What the replacement of the least recently used entry is for: a branch is
\* written as one byte if its set has been used fewer than Assoc times since
\* it last followed the same target.  (A return may be found under another
\* target; the first record of the trace is an exception, see README.)
RecentBranchesAreShort ==
    LET n == Len(sent)
        size == Len(pipe) - (RecordStart - 1)
    IN  pipe # <<>> /\ sent[n].code # Return
        /\ (\E m \in 2 .. n - 1 : /\ sent[m] = sent[n] /\ SetAt(m) = SetAt(n)
                                  /\ Cardinality(UsesBetween(m, n)) < Assoc)
        => size = 1
=============================================================================
