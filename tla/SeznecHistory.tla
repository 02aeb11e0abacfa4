---------------------------- MODULE SeznecHistory ----------------------------
(***************************************************************************)
(* The global history of Seznec's predictor (cbp2/src/seznec_ogehl.h): a   *)
(* buffer that is filled from its end towards its start, youngest entry    *)
(* first, and the histories folded from it that the tables are indexed     *)
(* with.  An entry is a byte, the direction of an instruction above which  *)
(* are bits of its address; bytes and words are bit vectors.               *)
(*                                                                         *)
(* Kernel code must not disturb the history of user code: entering the     *)
(* kernel saves the position in the buffer and the folds, leaving it       *)
(* restores them.                                                          *)
(***************************************************************************)
EXTENDS BitVectors, Sequences

CONSTANTS
    NHist, NGehl,      \* NHIST, NHISTGEHL: the tables of TAGE and GEHL with a history
    M,                 \* m: the history lengths of TAGE
    GehlRaw, MinStep,  \* mgehl as computed at first, MINSTEP
    LogG, LogGehl,     \* LOGG, LOGGEHL: bits of an index
    TBits,             \* TBITS: bits of a tag
    BufferHist,        \* BUFFERHIST, 131072 in the program
    MaxLength,         \* MAXLENGTH, 100000: the entries kept when the buffer is used up
    AddrBits,          \* address bits in an entry, 7
    KernelBits,        \* the bits that all kernel addresses have, 30 and 31
    PathLength,        \* bits of the path history, 16
    Word,              \* bits of unsigned, 32
    PCs                \* the addresses of the program

Bank == 1 .. NHist
GehlBank == 1 .. NGehl

Least(a, b) == IF a < b THEN a ELSE b

\* The entries above those kept, where the history goes on after a move.
Room == BufferHist - MaxLength

\* mgehl, once all lengths are distinct.
MGehl[i \in 0 .. NGehl] ==
    IF i = 0 THEN 0
    ELSE IF GehlRaw[i] <= MGehl[i - 1] + MinStep THEN MGehl[i - 1] + MinStep
                                                 ELSE GehlRaw[i]

\* ch_i, ch_t[0], ch_t[1] and chgehl_i.
Folds == ({"i", "t0", "t1"} \X Bank) \cup ({"gehl"} \X GehlBank)

\* OLENGTH, CLENGTH and sh, the arguments of init().
Shape == [f \in Folds |->
    LET i == f[2] IN
    CASE f[1] = "i" -> [len |-> M[i], width |-> LogG, sh |-> i + 2]
      [] f[1] = "t0" -> [len |-> M[i], width |-> TBits, sh |-> i]
      [] f[1] = "t1" -> [len |-> M[i], width |-> TBits - 1, sh |-> i + 1]
      [] f[1] = "gehl" -> [len |-> MGehl[i], width |-> LogGehl,
                           sh |-> IF i % 2 = 1 THEN i ELSE 1]]

ASSUME HistoryAssumption ==
    /\ NHist \in Nat \ {0} /\ NGehl \in Nat \ {0} /\ MinStep \in Nat
    /\ M \in [Bank -> Nat] /\ GehlRaw \in [GehlBank -> Nat]
    /\ LogG \in Nat \ {0} /\ LogGehl \in Nat \ {0} /\ TBits \in Nat \ {0, 1}
    /\ BufferHist \in Nat /\ MaxLength \in Nat \ {0} /\ Room > 0
    /\ AddrBits \in Nat /\ PathLength \in Nat /\ Word \in Nat /\ KernelBits \subseteq Nat
    /\ \A f \in Folds : Shape[f].len \in 0 .. MaxLength
    /\ \A pc \in PCs : pc \subseteq Bits(Word)

VARIABLES
    buffer,                        \* GHIST
    ptghist, phist, comp,          \* ghist is &GHIST[ptghist]; comp of the folds
    ptghistsave, phistsave, save,  \* save is SAVE of the folds
    lastmode,                      \* LASTMODE
    defined,                       \* no pointer has been made from garbage
    seen, seenSave, moved, torn    \* history variables, see below

historyVars == <<buffer, ptghist, phist, comp, ptghistsave, phistsave, save,
                 lastmode, defined, seen, seenSave, moved, torn>>

Unset == -1

\* The constructor leaves LASTMODE and what is saved uninitialised.
HistoryInit(mode) ==
    /\ buffer = [k \in 0 .. BufferHist - 1 |-> {}]
    /\ ptghist = 0 /\ phist = {}
    /\ comp = [f \in Folds |-> {}] /\ save = [f \in Folds |-> {}]
    /\ ptghistsave = Unset /\ phistsave = {}
    /\ lastmode = mode /\ defined = TRUE
    /\ seen = <<>> /\ seenSave = <<>> /\ moved = FALSE /\ torn = FALSE

(***************************************************************************)
(* folded_history.                                                         *)
(***************************************************************************)
\* shift, which init() wants prime with CLENGTH.
ShiftOf(f) ==
    LET shift == Shape[f].sh % Shape[f].width
    IN  IF \E k \in 1 .. Shape[f].width - 1 : (shift * k) % Shape[f].width = 0
        THEN 1 ELSE shift
OutPoint(f) == (ShiftOf(f) * Shape[f].len) % Shape[f].width

\* Mutant: the oldest entry leaves at the position where entries enter.
FoldedAtFront(f, c, youngest, oldest) ==
    LET entered == SymDiff(ShiftLeft(c, ShiftOf(f)), youngest)
        left == SymDiff(entered, oldest) \cap Bits(Word)
    IN  SymDiff(left, ShiftRight(left, Shape[f].width)) \cap Bits(Shape[f].width)
\* update()
Folded(f, c, youngest, oldest) ==
    LET entered == SymDiff(ShiftLeft(c, ShiftOf(f)), youngest)
        left == SymDiff(entered, ShiftLeft(oldest, OutPoint(f))) \cap Bits(Word)
    IN  SymDiff(left, ShiftRight(left, Shape[f].width)) \cap Bits(Shape[f].width)

(***************************************************************************)
(* The end of update(): the instruction at pc enters the history.          *)
(***************************************************************************)
IsKernel(pc) == KernelBits \subseteq pc
EntryOf(pc, taken) == BitIf(taken, 0) \cup ShiftLeft(pc \cap Bits(AddrBits), 1)

\* updateghist() copies forwards, entry by entry, MaxLength entries to the end
\* of the buffer.  Where source and target overlap it copies what it has
\* copied before.
Moved(tab) == [k \in DOMAIN tab |-> IF k < Room THEN tab[k] ELSE tab[k % Room]]

Returns(pc) == lastmode /\ ~ IsKernel(pc)

Remember(entries) ==
    SubSeq(entries, 1, Least(Len(entries), MaxLength))

Enter(pc, taken) ==
    LET kernel == IsKernel(pc)
        enters == kernel /\ ~ lastmode
        from == IF Returns(pc) THEN ptghistsave ELSE ptghist
        folds == IF Returns(pc) THEN save ELSE comp
        path == IF Returns(pc) THEN phistsave ELSE phist
        moves == from = 0
        to == (IF moves THEN Room ELSE from) - 1
        tab == [(IF moves THEN Moved(buffer) ELSE buffer) EXCEPT ![to] = EntryOf(pc, taken)]
    IN  /\ ptghistsave' = IF enters THEN ptghist ELSE ptghistsave
        /\ phistsave' = IF enters THEN phist ELSE phistsave
        /\ save' = IF enters THEN comp ELSE save
        /\ ptghist' = to /\ buffer' = tab
        /\ phist' = (ShiftLeft(path, 1) \cup BitIf(0 \in pc, 0)) \cap Bits(PathLength)
        /\ comp' = [f \in Folds |->
                      Folded(f, folds[f], EntryOf(pc, taken), tab[to + Shape[f].len])]
        /\ lastmode' = kernel
        /\ seen' = Remember(<<EntryOf(pc, taken)>>
                              \o (IF Returns(pc) THEN seenSave ELSE seen))
        /\ seenSave' = IF enters THEN seen ELSE seenSave
        /\ moved' = (kernel /\ (moved \/ moves))
        /\ torn' = (torn \/ (Returns(pc) /\ moved))
        /\ UNCHANGED defined

\* Leaving the kernel for a position that was never saved makes a pointer of
\* garbage, after which the model promises nothing.
EnterWild ==
    /\ defined' = FALSE
    /\ UNCHANGED <<buffer, ptghist, phist, comp, ptghistsave, phistsave, save,
                   lastmode, seen, seenSave, moved, torn>>

EnterHistory(pc, taken) ==
    IF Returns(pc) /\ ptghistsave = Unset THEN EnterWild ELSE Enter(pc, taken)

HistoryNext == defined /\ \E pc \in PCs, taken \in BOOLEAN : EnterHistory(pc, taken)
HistorySpec == (\E mode \in BOOLEAN : HistoryInit(mode)) /\ [][HistoryNext]_historyVars

-----------------------------------------------------------------------------
(***************************************************************************)
(* What the history should be: seen lists the entries of the instructions  *)
(* that the current mode is to remember, youngest first; in the kernel     *)
(* these are its own on top of the user's, seenSave.  moved says that the  *)
(* buffer has been moved since the kernel was entered; from the return to  *)
(* user code on, the position restored is then one in other entries: the   *)
(* history is torn.                                                        *)
(***************************************************************************)
EntryAt(entries, j) == IF j < Len(entries) THEN entries[j + 1] ELSE {}

FoldOf(f) ==
    {p \in Bits(Shape[f].width) :
        Cardinality({x \in Bits(Shape[f].len) \X Bits(AddrBits + 1) :
            /\ x[2] \in EntryAt(seen, x[1])
            /\ (x[2] + ShiftOf(f) * x[1]) % Shape[f].width = p}) % 2 = 1}

(***************************************************************************)
(* Moves of the buffer and visits to the kernel leave the last entries as  *)
(* they are in the buffer (seznec_ogehl.h 737-749, 796-831), as many as    *)
(* are moved without overlap, unless the kernel has moved the history of   *)
(* the user.                                                               *)
(***************************************************************************)
Holds(position, entries) ==
    \A j \in 0 .. Least(Room, MaxLength) - 1 : buffer[position + j] = EntryAt(entries, j)

BufferKept == defined /\ ~ torn => Holds(ptghist, seen)

\* update() of the fold (line 97) shifts no bit out of an unsigned.
FitsWord(f) == /\ ShiftOf(f) + Shape[f].width <= Word
               /\ AddrBits + OutPoint(f) < Word /\ AddrBits < Shape[f].width

(***************************************************************************)
(* So do they leave the folds (803-812, 821-848), those that fit a word    *)
(* and are of no more entries than the buffer keeps.                       *)
(***************************************************************************)
HistoryExact ==
    /\ BufferKept
    /\ defined /\ ~ torn =>
         \A f \in Folds : FitsWord(f) /\ Shape[f].len <= Room => comp[f] = FoldOf(f)

(***************************************************************************)
(* Every fold is that of the last entries: folded_history is "the cyclic   *)
(* shift register for folding a long global (branch + path) history into   *)
(* a smaller number of bits" (lines 59-61).                                *)
(***************************************************************************)
EveryFoldExact == defined /\ ~ torn => \A f \in Folds : comp[f] = FoldOf(f)

=============================================================================
