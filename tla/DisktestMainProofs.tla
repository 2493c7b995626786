------------------------- MODULE DisktestMainProofs -------------------------
(***************************************************************************)
(* What the exit status of the program says, for every disk, every         *)
(* combination of options and every number of failures.                    *)
(*                                                                         *)
(* Each step of the program is a step of Disktest, or another run writes   *)
(* the disk before this one begins: so the invariants of Disktest hold     *)
(* (Below, Whole).  Options and Control say where the loop over the rounds *)
(* is; Tests, what has been tested when it gets there; Wrote, what a       *)
(* verify() after write() is to find; Intact, that it does find it on a    *)
(* disk that works.                                                        *)
(***************************************************************************)
EXTENDS DisktestMain, DisktestProofs

USE IoAssumption, DisktestAssumption, MainAssumption

\* Nothing has been called yet.
Unused ==
  calls = 0 =>
    /\ pc = "idle" /\ op = "write" /\ res = "none" /\ stored = NoRange
    /\ DOMAIN cache = {} /\ dirty = {} /\ ~wbErr

\* Once they are parsed, the options are in range and there is a round to run.
Options ==
  /\ mpc = "args" => calls = 0 /\ tested = {} /\ exit = "none"
  /\ mpc # "args" =>
       /\ aSeek \in Seeks /\ aMax \in Sizes
       /\ start < rounds /\ start <= rnd /\ rnd <= rounds
       /\ wr \/ vf

\* The calls there are, and what they are for.
Control ==
  /\ mpc \in {"write", "verify"} =>
       /\ rnd < rounds /\ seek = aSeek /\ max = aMax /\ round = RoundId
       /\ op = mpc
  /\ mpc = "write" => wr
  /\ mpc = "verify" => vf
  /\ mpc = "rounds" => pc = "idle" /\ (rnd = start => calls = 0)
  /\ mpc = "exit" => pc \in {"idle", "dead"}
  /\ exit # "none" => mpc = "exit"
  /\ exit = "ok" => rnd = rounds

MainBase == MainTypeOK /\ Unused /\ Options /\ Control

-----------------------------------------------------------------------------
(* Steps of Disktest *)

\* The round of a call is one there are patterns of.
LEMMA RoundIdTyped == MainTypeOK => RoundId \in Rounds
<1> SUFFICES ASSUME MainTypeOK PROVE RoundId \in Rounds
  OBVIOUS
<1>1. rnd \in 0 .. U64Max /\ start \in 0 .. U64Max - 1
  BY DEF MainTypeOK
<1> QED
  BY <1>1 DEF RoundId

LEMMA StepBelow ==
  ASSUME MainBase, [MainNext]_allVars
  PROVE  [Next]_vars \/ \E r \in Rounds : EarlierRun(r)
<1>1. CASE UNCHANGED allVars
  BY <1>1 DEF allVars
<1>2. CASE StartRound \/ VerifyWritten
  <2>1. aSeek \in Seeks /\ aMax \in Sizes /\ RoundId \in Rounds
    BY <1>2, RoundIdTyped DEF MainBase, Options, StartRound, VerifyWritten
  <2>2. \/ Call("write", RoundId, aSeek, aMax)
        \/ Call("verify", RoundId, aSeek, aMax)
    BY <1>2 DEF StartRound, VerifyWritten
  <2> QED
    BY <2>1, <2>2 DEF Next
<1>3. CASE SetAbort \/ DisktestStep
  BY <1>3 DEF SetAbort, DisktestStep, Next
<1>4. CASE EndRound \/ Fail \/ Succeed \/ Exited
  BY <1>4 DEF EndRound, Fail, Succeed, Exited, allVars
<1>5. ASSUME NEW w \in BOOLEAN, NEW v \in BOOLEAN, NEW seed \in BOOLEAN,
             NEW s \in Seeks, NEW m \in Sizes, NEW r \in 0 .. U64Max,
             NEW sr \in 0 .. U64Max - 1, ParseArgs(w, v, seed, s, m, r, sr)
      PROVE  UNCHANGED vars
  BY <1>5 DEF ParseArgs
<1> QED
  BY <1>1, <1>2, <1>3, <1>4, <1>5 DEF MainNext

\* Another run leaves alone what Disktest knows.
LEMMA EarlierTyped ==
  ASSUME Base, NEW r \in Rounds, EarlierRun(r) PROVE Base'
<1>1. \A b \in Blocks : Pat(r, b) \in Contents
  BY PatInContents DEF Blocks
<1>2. IoTypeOK'
  BY <1>1 DEF EarlierRun, Base, TypeOK, IoTypeOK
<1>0. UNCHANGED <<pc, argVars, runVars, res, fileVars, abort, calls, handle, fpos>>
  BY DEF EarlierRun
<1>3. TypeOK'
  BY <1>0, <1>2 DEF Base, TypeOK, argVars, runVars, fileVars
<1>4. Book'
  BY <1>0 DEF Base, Book, HandleInv, argVars, runVars, fileVars, Mode, Min2
<1> QED
  BY <1>3, <1>4 DEF Base

LEMMA MainTypeInit == MainInit => MainBase
<1> SUFFICES ASSUME MainInit PROVE MainBase
  OBVIOUS
<1>1. TypeOK
  BY BaseInit DEF MainInit, Base
<1>2. MainTypeOK
  <2>1. wr \in BOOLEAN /\ vf \in BOOLEAN
    BY DEF MainInit
  <2>2. aSeek = 0 /\ aMax = 0 /\ start = 0 /\ rounds = 0 /\ rnd = 0
        /\ mpc = "args" /\ before = -1 /\ abortRound = -1 /\ tested = {}
    BY DEF MainInit
  <2> QED
    BY <1>1, <2>1, <2>2 DEF MainTypeOK
<1>3. Unused
  BY DEF MainInit, Init, IoInit, Unused
<1>4. Options
  BY DEF MainInit, Init, Options
<1>5. Control
  BY DEF MainInit, Control
<1> QED
  BY <1>2, <1>3, <1>4, <1>5 DEF MainBase

\* There is a round to run, whatever was asked for.
LEMMA RoundsBeyondStart ==
  ASSUME NEW r \in 0 .. U64Max, NEW s \in 0 .. U64Max - 1
  PROVE  RoundsOf(r, s) \in 0 .. U64Max /\ s < RoundsOf(r, s)
<1> DEFINE n == IF r = 0 THEN U64Max ELSE r
<1>1. n \in 0 .. U64Max
  OBVIOUS
<1>2. CASE s >= n
  <2>1. (0 * (U64Max + 1) + (s + 1)) % (U64Max + 1) = s + 1
    <3>1. U64Max + 1 \in Int /\ U64Max + 1 > 0 /\ s + 1 \in 0 .. (U64Max + 1) - 1
      OBVIOUS
    <3> QED
      BY <3>1, DivModUnique
  <2>2. RoundsOf(r, s) = s + 1
    BY <1>2, <2>1 DEF RoundsOf
  <2> QED
    BY <2>2
<1>3. CASE s < n
  BY <1>1, <1>3 DEF RoundsOf
<1> QED
  BY <1>1, <1>2, <1>3

\* The options.
LEMMA MainParseArgs ==
  ASSUME MainBase, Base, NEW w \in BOOLEAN, NEW v \in BOOLEAN,
         NEW seed \in BOOLEAN, NEW s \in Seeks, NEW m \in Sizes,
         NEW r \in 0 .. U64Max, NEW sr \in 0 .. U64Max - 1,
         ParseArgs(w, v, seed, s, m, r, sr)
  PROVE  MainBase'
<1>1. /\ UNCHANGED <<vars, before, tested, abortRound>>
      /\ wr' = w /\ vf' = (v \/ ~w)
      /\ aSeek' = s /\ aMax' = m /\ start' = sr /\ rnd' = sr
      /\ rounds' = RoundsOf(r, sr)
      /\ mpc = "args" /\ mpc' \in {"rounds", "exit"}
      /\ exit' \in {"none", "usage"}
      /\ mpc' = "rounds" => exit' = "none"
  BY DEF ParseArgs, MainBase, Options
<1>2. RoundsOf(r, sr) \in 0 .. U64Max /\ sr < RoundsOf(r, sr)
  BY RoundsBeyondStart
<1>3. /\ pc = "idle" /\ calls = 0 /\ tested = {}
      /\ UNCHANGED <<calls, pc, op, res, stored, cache, dirty, wbErr>>
  BY <1>1 DEF MainBase, Options, Unused, vars, ioVars, argVars
<1>4. TypeOK'
  BY <1>1, BaseNext DEF Base
<1>5. wr' \in BOOLEAN /\ vf' \in BOOLEAN /\ (wr' \/ vf')
  BY <1>1
<1>6. MainTypeOK'
  BY <1>1, <1>2, <1>4, <1>5 DEF MainBase, MainTypeOK
<1>7. Unused'
  BY <1>3 DEF MainBase, Unused, NoRange
<1>8. Options'
  BY <1>1, <1>2, <1>5 DEF Options
<1>9. Control'
  BY <1>1, <1>3 DEF Control
<1> QED
  BY <1>6, <1>7, <1>8, <1>9 DEF MainBase

\* A call begins.
LEMMA MainCall ==
  ASSUME MainBase, Base,
         \/ StartRound
         \/ VerifyWritten
  PROVE  MainBase'
<1>1. /\ UNCHANGED <<argsVars, rnd, exit, before, tested, abortRound>>
      /\ mpc \in {"rounds", "write"} /\ rnd < rounds /\ exit = "none"
      /\ mpc' \in {"write", "verify"}
      /\ mpc' = "write" => wr
      /\ mpc' = "verify" => vf
      /\ Call(mpc', RoundId, aSeek, aMax)
  BY DEF StartRound, VerifyWritten, MainBase, Options, Control
<1>2. RoundId \in Rounds /\ aSeek \in Seeks /\ aMax \in Sizes
  BY <1>1, RoundIdTyped DEF MainBase, Options
<1>3. TypeOK'
  BY <1>1, <1>2, BaseCall DEF Base
<1>4. wr' = wr /\ vf' = vf /\ wr \in BOOLEAN /\ vf \in BOOLEAN
  BY <1>1 DEF argsVars, MainBase, MainTypeOK
<1>5. MainTypeOK'
  BY <1>1, <1>3, <1>4 DEF argsVars, MainBase, MainTypeOK
<1>6. calls' = calls + 1 /\ calls \in Nat
  BY <1>1 DEF Call, MainBase, MainTypeOK, TypeOK
<1>7. Unused'
  BY <1>6 DEF Unused
<1>8. Options'
  BY <1>1 DEF argsVars, MainBase, Options
<1>9. /\ op' = mpc' /\ seek' = aSeek /\ max' = aMax /\ round' = RoundId
      /\ RoundId' = RoundId
  BY <1>1, <1>4 DEF Call, argsVars, RoundId
<1>10. Control'
  BY <1>1, <1>4, <1>9 DEF argsVars, Control
<1> QED
  BY <1>5, <1>7, <1>8, <1>10 DEF MainBase

\* The loop goes on or ends.
LEMMA MainLoop ==
  ASSUME MainBase, Base, EndRound \/ Fail \/ Succeed \/ Exited
  PROVE  MainBase'
<1>1. /\ UNCHANGED <<vars, argsVars, before, abortRound>>
      /\ mpc # "args" /\ mpc' # "args" /\ mpc' \in {"rounds", "exit"}
      /\ rnd' \in {rnd, rnd + 1}
  BY DEF EndRound, Fail, Succeed, Exited, allVars, mainVars
<1>2. TypeOK'
  BY <1>1, BaseNext DEF Base
<1>3. /\ UNCHANGED <<pc, op, res, stored, cache, dirty, wbErr, calls, round, seek, max>>
      /\ UNCHANGED <<wr, vf, aSeek, aMax, start, rounds, before, abortRound>>
      /\ wr \in BOOLEAN /\ vf \in BOOLEAN
  BY <1>1 DEF vars, ioVars, argVars, argsVars, MainBase, MainTypeOK
<1>4. Unused'
  BY <1>3 DEF MainBase, Unused, NoRange
<1>5. /\ start \in 0 .. U64Max - 1 /\ rounds \in 0 .. U64Max /\ rnd \in 0 .. U64Max
      /\ start < rounds /\ start <= rnd /\ rnd <= rounds
  BY <1>1 DEF MainBase, MainTypeOK, Options
<1>6. rnd' <= rounds
  BY <1>1, <1>5 DEF EndRound, Fail, Succeed, Exited, allVars, mainVars, MainBase, Control
<1>7. tested' \subseteq 0 .. U64Max - 1
  <2>1. tested \subseteq 0 .. U64Max - 1
    BY DEF MainBase, MainTypeOK
  <2>2. CASE tested' = tested
    BY <2>1, <2>2
  <2>3. CASE EndRound
    <3>1. rnd < rounds
      BY <2>3 DEF EndRound, MainBase, Control
    <3>2. rnd \in 0 .. U64Max - 1
      BY <1>5, <3>1
    <3> QED
      BY <2>1, <2>3, <3>2 DEF EndRound
  <2> QED
    BY <2>2, <2>3 DEF Fail, Succeed, Exited, allVars, mainVars
<1>8. MainTypeOK'
  <2>1. rnd' \in 0 .. U64Max
    BY <1>1, <1>5, <1>6
  <2> QED
    BY <1>1, <1>2, <1>3, <1>7, <2>1 DEF MainBase, MainTypeOK
<1>9. Options'
  BY <1>1, <1>3, <1>5, <1>6 DEF MainBase, Options
<1>10. Control'
  <2>1. CASE EndRound
    <3>1. mpc' = "rounds" /\ pc' = "idle" /\ rnd' = rnd + 1 /\ exit' = exit
          /\ exit = "none"
      BY <1>3, <2>1 DEF EndRound, MainBase, Control
    <3> QED
      BY <1>3, <1>5, <3>1 DEF Control
  <2>2. CASE Fail
    <3>1. mpc' = "exit" /\ exit' # "ok" /\ pc' \in {"idle", "dead"}
      BY <1>3, <2>2 DEF Fail
    <3> QED
      BY <3>1 DEF Control
  <2>3. CASE Succeed
    <3>1. mpc' = "exit" /\ rnd' = rounds' /\ pc' = "idle"
      BY <1>3, <1>5, <2>3 DEF Succeed, MainBase, Control
    <3> QED
      BY <3>1 DEF Control
  <2>4. CASE Exited
    <3>1. /\ mpc' = "exit" /\ exit' = exit /\ rnd' = rnd /\ rounds' = rounds
          /\ mpc = "exit" /\ pc' = pc
      BY <1>3, <2>4 DEF Exited, allVars, mainVars, argsVars
    <3> QED
      BY <3>1 DEF MainBase, Control
  <2> QED
    BY <2>1, <2>2, <2>3, <2>4
<1> QED
  BY <1>4, <1>8, <1>9, <1>10 DEF MainBase

\* The program and the kernel at work, or a signal: what was asked for stays.
LEMMA BelowKeeps ==
  ASSUME Program \/ Environment \/ Signal
  PROVE  /\ UNCHANGED <<calls, op, round, seek, max, cold>>
         /\ pc' # pc => pc \notin {"idle", "dead"}
BY DEF Program, GetSectorSize, Activate, Reopen, SeekFile, WriteChunk,
       WriteFinalize, ReadChunk, Finalize, DropFile, Others, Environment, Signal,
       argVars

\* Before the first call nothing is cached, and only the medium can change.
LEMMA UnusedKeeps ==
  ASSUME MainBase, Program \/ Environment \/ Signal
  PROVE  Unused'
<1> SUFFICES ASSUME calls' = 0 PROVE Unused'
  BY DEF Unused
<1>1. /\ calls = 0 /\ pc = "idle" /\ op = "write" /\ res = "none"
      /\ stored = NoRange /\ DOMAIN cache = {} /\ dirty = {} /\ ~wbErr
  BY BelowKeeps DEF MainBase, Unused
<1>2. CASE Signal
  BY <1>1, <1>2 DEF Signal, Unused, ioVars, argVars, NoRange
<1>3. CASE Environment
  <2>1. UNCHANGED <<pc, op, res, stored>>
    BY <1>3 DEF Environment, argVars
  <2>2. UNCHANGED <<cache, dirty, wbErr>>
    BY <1>1, <1>3 DEF Environment, Kernel, Writeback, WritebackFails, Evict, Rot
  <2> QED
    BY <1>1, <2>1, <2>2 DEF Unused, NoRange
<1>4. ~Program
  BY <1>1 DEF Program, GetSectorSize, Activate, Reopen, SeekFile, WriteChunk,
     WriteFinalize, ReadChunk, Finalize, DropFile
<1> QED
  BY <1>2, <1>3, <1>4

\* A step of Disktest.
LEMMA MainStep ==
  ASSUME MainBase, Base, SetAbort \/ DisktestStep
  PROVE  MainBase'
<1>1. /\ Program \/ Environment \/ Signal
      /\ UNCHANGED <<mpc, argsVars, rnd, exit, before, tested>>
      /\ abortRound' \in {abortRound, rnd}
      /\ Program => pc \notin {"idle", "dead"}
  BY DEF SetAbort, DisktestStep, mainVars, Program, GetSectorSize, Activate,
     Reopen, SeekFile, WriteChunk, WriteFinalize, ReadChunk, Finalize, DropFile
<1>2. /\ UNCHANGED <<calls, op, round, seek, max, cold>>
      /\ pc' # pc => pc \notin {"idle", "dead"}
  BY <1>1, BelowKeeps
<1>3. [Next]_vars
  BY <1>1 DEF Next
<1>4. TypeOK'
  BY <1>3, BaseNext DEF Base
<1>5. /\ UNCHANGED <<wr, vf, aSeek, aMax, start, rounds>>
      /\ wr \in BOOLEAN /\ vf \in BOOLEAN
  BY <1>1 DEF argsVars, MainBase, MainTypeOK
<1>6. abortRound' \in Rounds \cup {-1}
  BY <1>1 DEF MainBase, MainTypeOK
<1>7. MainTypeOK'
  BY <1>1, <1>4, <1>5, <1>6 DEF MainBase, MainTypeOK
<1>8. Unused'
  BY <1>1, UnusedKeeps
<1>9. Options'
  BY <1>1, <1>2, <1>5 DEF MainBase, Options
<1>10. RoundId' = RoundId
  BY <1>1, <1>5 DEF RoundId
<1>11. Control'
  BY <1>1, <1>2, <1>5, <1>10 DEF MainBase, Control
<1> QED
  BY <1>7, <1>8, <1>9, <1>11 DEF MainBase

\* Another run comes before the options are parsed.
LEMMA MainEarlier ==
  ASSUME MainBase, Base, NEW r \in Rounds, EarlierRun(r)
  PROVE  MainBase'
<1>1. /\ UNCHANGED <<mpc, rnd, exit, tested, abortRound, wr, vf, aSeek, aMax>>
      /\ UNCHANGED <<start, rounds, calls, pc, op, res, stored, cache, dirty>>
      /\ UNCHANGED wbErr
      /\ before' = r /\ mpc = "args"
      /\ wr \in BOOLEAN /\ vf \in BOOLEAN
  BY DEF EarlierRun, argsVars, argVars, MainBase, MainTypeOK
<1>2. TypeOK'
  BY EarlierTyped DEF Base
<1>3. MainTypeOK'
  BY <1>1, <1>2 DEF MainBase, MainTypeOK
<1>4. Unused'
  BY <1>1 DEF MainBase, Unused, NoRange
<1>5. Options' /\ Control'
  BY <1>1 DEF MainBase, Options, Control
<1> QED
  BY <1>3, <1>4, <1>5 DEF MainBase

LEMMA MainBaseNext ==
  MainBase /\ Base /\ [MainNext]_allVars => MainBase'
<1> SUFFICES ASSUME MainBase, Base, [MainNext]_allVars PROVE MainBase'
  OBVIOUS
<1>1. CASE UNCHANGED allVars
  <2>1. /\ UNCHANGED <<mpc, rnd, exit, tested, abortRound, wr, vf, aSeek, aMax>>
        /\ UNCHANGED <<start, rounds, calls, pc, op, res, stored, cache, dirty>>
        /\ UNCHANGED <<wbErr, before, round, seek, max, vars>>
        /\ wr \in BOOLEAN /\ vf \in BOOLEAN
    BY <1>1 DEF allVars, mainVars, argsVars, vars, ioVars, argVars, MainBase,
       MainTypeOK
  <2>2. TypeOK'
    BY <2>1, BaseNext DEF Base
  <2>3. MainTypeOK'
    BY <2>1, <2>2 DEF MainBase, MainTypeOK
  <2>4. Unused'
    BY <2>1 DEF MainBase, Unused, NoRange
  <2>5. Options' /\ Control'
    BY <2>1 DEF MainBase, Options, Control, RoundId
  <2> QED
    BY <2>3, <2>4, <2>5 DEF MainBase
<1> QED
  BY <1>1, MainEarlier, MainParseArgs, MainCall, MainLoop, MainStep DEF MainNext

LEMMA BelowBase ==
  MainBase /\ Base /\ [MainNext]_allVars => Base'
BY StepBelow, BaseNext, EarlierTyped

\* The types, and the loop counter never leaves its range, though the number of
\* rounds is one that can overflow.
THEOREM MainTyping == MainSpec => []MainTypeOK
<1>1. MainInit => MainBase /\ Base
  BY MainTypeInit, BaseInit DEF MainInit
<1>2. MainBase /\ Base /\ [MainNext]_allVars => MainBase' /\ Base'
  BY MainBaseNext, BelowBase
<1>3. MainBase => MainTypeOK
  BY DEF MainBase
<1> QED
  BY <1>1, <1>2, <1>3, PTL DEF MainSpec

-----------------------------------------------------------------------------
(* The invariants of Disktest *)

\* The range that is remembered is the one that a write() has put data into.
Reported ==
  op = "write" /\ res = "ok" /\ pc \in {"drop", "idle", "dead"} =>
    stored = [round |-> round, lo |-> first, hi |-> fpos]

\* verify() reads what lies in the file.
InFile ==
  op = "verify" =>
    (done = 0 /\ buf = << >>) \/ first + done + Len(buf) <= Capacity

\* Only verify() finds mismatches.
OnlyVerify == res = "mismatch" => op = "verify"

\* The kind of the file stays, and a device has the length it claims.
Length == kind # "regular" => len = Capacity

Below ==
  /\ Base /\ Complete /\ WriteInv /\ VerifyInv /\ StoredInv
  /\ Reported /\ InFile /\ OnlyVerify /\ Length

\* What holds as well if chunks and byte counts are whole pages.
Whole == ColdInv /\ OneSeen

LEMMA ReportedNext == Base /\ Reported /\ [Next]_vars => Reported'
<1> SUFFICES ASSUME Base, Reported, [Next]_vars,
                    op' = "write", res' = "ok", pc' \in {"drop", "idle", "dead"}
             PROVE  stored' = [round |-> round', lo |-> first', hi |-> fpos']
  BY DEF Reported
<1>1. CASE UNCHANGED vars
  BY <1>1 DEF vars, ioVars, argVars, runVars, Reported
<1>2. CASE Signal
  BY <1>2 DEF Signal, ioVars, argVars, runVars, Reported
<1>3. CASE Environment
  <2>1. UNCHANGED <<pc, op, res, round, first, stored, fpos>>
    BY <1>3 DEF Environment, Kernel, Writeback, WritebackFails, Evict, Rot,
       argVars, runVars
  <2> QED
    BY <2>1 DEF Reported
<1>4. CASE Finalize
  <2>1. /\ pc = "close" /\ handle # "none" /\ UNCHANGED <<rots, late, op, round, first>>
        /\ \E ok \in BOOLEAN : CloseFile(ok)
        /\ stored' = [round |-> round, lo |-> first, hi |-> fpos]
    BY <1>4 DEF Finalize, Others, argVars, runVars, Base, Book, HandleInv, Mode
  <2>2. fpos' = fpos
    BY <2>1, CloseFileEffect
  <2> QED
    BY <2>1, <2>2
<1>5. CASE DropFile
  <2>1. /\ pc = "drop" /\ UNCHANGED <<rots, late, op, round, first, res, stored>>
        /\ handle = "none" => fpos' = fpos
        /\ handle # "none" => \E ok \in BOOLEAN : CloseFile(ok)
    BY <1>5 DEF DropFile, Others, argVars, runVars, ioVars
  <2>2. fpos' = fpos
    BY <2>1, CloseFileEffect
  <2> QED
    BY <2>1, <2>2 DEF Reported
<1>6. CASE WriteChunk \/ WriteFinalize \/ ReadChunk
  <2>1. pc' \in {"io", "sync", "close"} \/ res' # "ok"
    BY <1>6 DEF WriteChunk, WriteFinalize, ReadChunk, ReadSome, Continue, Failed
  <2> QED
    BY <2>1
<1>7. CASE GetSectorSize \/ Activate \/ Reopen \/ SeekFile
  <2>1. pc' \in {"activate", "seek", "io"} \/ res' # "ok"
    BY <1>7 DEF GetSectorSize, Activate, Reopen, SeekFile
  <2> QED
    BY <2>1
<1> QED
  BY <1>1, <1>2, <1>3, <1>4, <1>5, <1>6, <1>7
     DEF Next, Call, Kill, Program, Terminated

LEMMA OnlyVerifyNext == OnlyVerify /\ [Next]_vars => OnlyVerify'
<1> SUFFICES ASSUME OnlyVerify, [Next]_vars PROVE OnlyVerify'
  OBVIOUS
<1>1. CASE ReadChunk
  BY <1>1 DEF ReadChunk, Others, argVars, OnlyVerify
<1>2. CASE ~ReadChunk
  <2>1. res' # "mismatch" \/ (res' = res /\ op' = op)
    BY <1>2 DEF vars, ioVars, argVars, Next, Call, Signal, Kill, Program,
       GetSectorSize, Activate, Reopen, SeekFile, WriteChunk, WriteFinalize,
       Finalize, DropFile, Others, Failed, Environment, Terminated
  <2> QED
    BY <2>1 DEF OnlyVerify
<1> QED
  BY <1>1, <1>2

LEMMA InFileNext == Base /\ InFile /\ [Next]_vars => InFile'
<1> SUFFICES ASSUME Base, InFile, [Next]_vars, op' = "verify"
             PROVE  (done' = 0 /\ buf' = << >>)
                      \/ first' + done' + Len(buf') <= Capacity
  BY DEF InFile
<1>1. CASE ReadChunk
  <2>1. /\ pc = "io" /\ op = "verify" /\ fpos = first + done + Len(buf)
        /\ first \in Nat /\ done \in Nat /\ Len(buf) \in Nat /\ fpos \in Nat
        /\ first' = first /\ len \in 0 .. Capacity
        /\ UNCHANGED <<rots, late>>
    BY <1>1 DEF ReadChunk, Base, Book, TypeOK, IoTypeOK, Others
  <2>2. CASE UNCHANGED <<done, buf>>
    BY <2>1, <2>2 DEF InFile
  <2>3. ASSUME NEW n \in Readable(Want), ReadSome(n, Filled(n))
        PROVE  (done' = 0 /\ buf' = << >>)
                 \/ first' + done' + Len(buf') <= Capacity
    <3> DEFINE b == Filled(n)
    <3>1. n \in Nat /\ Len(b) = Len(buf) + n /\ Len(b) \in Nat
      BY <2>1, <2>3, FilledFacts DEF ReadSome
    <3>2. b \in Seq(Contents)
      BY <2>1, <2>3, FilledFacts DEF ReadSome
    <3>3. n = 0 \/ fpos + n <= len
      BY <2>1 DEF Readable
    <3> HIDE DEF b
    <3>4. \/ buf' = b /\ done' = done
          \/ buf' = << >> /\ done' = done + Len(b)
      BY <2>3 DEF ReadSome, b
    <3>5. first' + done' + Len(buf') = first + done + Len(buf) + n
      <4>1. Len(<<>>) = 0
        OBVIOUS
      <4> QED
        BY <2>1, <3>1, <3>4, <4>1
    <3>6. CASE n > 0
      BY <2>1, <3>1, <3>3, <3>5, <3>6
    <3>7. CASE n = 0 /\ done = 0 /\ buf = << >>
      <4>1. Len(b) = 0
        BY <3>1, <3>7
      <4>2. b = << >>
        BY <3>2, <4>1
      <4> QED
        BY <3>4, <3>7, <4>1, <4>2
    <3>8. CASE n = 0 /\ first + done + Len(buf) <= Capacity
      BY <2>1, <3>1, <3>5, <3>8
    <3> QED
      BY <2>1, <3>1, <3>6, <3>7, <3>8 DEF InFile
  <2> QED
    BY <1>1, <2>2, <2>3 DEF ReadChunk, Filled
<1>2. CASE \E o \in {"write", "verify"}, r \in Rounds, s \in Seeks, m \in Sizes :
             Call(o, r, s, m)
  BY <1>2 DEF Call
<1>3. CASE GetSectorSize \/ Activate \/ Reopen \/ SeekFile
  <2>1. pc \in {"open", "activate", "seek"} /\ UNCHANGED <<done, buf>>
    BY <1>3 DEF GetSectorSize, Activate, Reopen, SeekFile, runVars
  <2> QED
    BY <2>1 DEF Base, Book
<1>4. CASE WriteChunk
  BY <1>4 DEF WriteChunk, Others, argVars
<1>5. CASE \/ UNCHANGED vars \/ Signal \/ Kill \/ Environment
           \/ WriteFinalize \/ Finalize \/ DropFile
  <2>1. UNCHANGED <<op, first, done, buf>>
    BY <1>5 DEF vars, Signal, Kill, Environment, WriteFinalize, Finalize,
       DropFile, Others, argVars, runVars
  <2> QED
    BY <2>1 DEF InFile
<1> QED
  BY <1>1, <1>2, <1>3, <1>4, <1>5 DEF Next, Program, Terminated

\* The length only changes where data is written to.
LEMMA KindStays ==
  ASSUME [Next]_vars PROVE kind' = kind /\ (len' = len \/ WriteChunk)
<1>1. CASE Program /\ ~Finalize /\ ~DropFile /\ ~WriteChunk
  BY <1>1 DEF Program, GetSectorSize, Activate, Reopen, SeekFile, DoOpen, Open,
     OpenFails, SeekOk, SeekFails, WriteFinalize, SyncOk, SyncFails, ReadChunk,
     ReadSome, ReadOk, ReadFails, ioVars
<1>2. CASE Finalize \/ DropFile
  BY <1>2 DEF Finalize, DropFile, CloseFile, CloseOk, CloseFails, DropCachesOk,
     DropCachesFails, ioVars
<1>3. CASE WriteChunk
  BY <1>3 DEF WriteChunk, WriteOk, WriteEnospc, WriteFails, Put
<1>4. CASE Environment
  BY <1>4 DEF Environment, Kernel, Writeback, WritebackFails, Evict, Rot
<1> QED
  BY <1>1, <1>2, <1>3, <1>4 DEF Next, vars, Call, Signal, Kill, Terminated, ioVars

LEMMA LengthNext == Base /\ Length /\ [Next]_vars => Length'
<1> SUFFICES ASSUME Base, Length, [Next]_vars, kind' # "regular"
             PROVE  len' = Capacity
  BY DEF Length
<1>1. len = Capacity /\ fpos \in Nat
  BY KindStays DEF Length, Base, TypeOK, IoTypeOK
<1>2. ASSUME WriteChunk PROVE len' = Capacity
  <2>1. PICK k \in Nat : k <= Room /\ Put(ChunkData, k)
    <3>1. Min2(Chunk, left) \in Nat /\ Room \in Nat
      BY <1>1, ChunkLen DEF Room
    <3> QED
      BY <1>2, <3>1 DEF WriteChunk, WriteOk, WriteEnospc, WriteFails
  <2> QED
    BY <1>1, <2>1 DEF Put, Room
<1> QED
  BY <1>1, <1>2, KindStays

\* Another run before the first call leaves them alone.
LEMMA BelowEarlier ==
  ASSUME MainBase, Below, NEW r \in Rounds, EarlierRun(r)
  PROVE  Below'
<1>1. /\ UNCHANGED <<kind, pc, op, res, stored, cache, dirty, wbErr, fpos>>
      /\ UNCHANGED <<max, first, seek, done, buf, round, rots, late, dropOffset>>
      /\ UNCHANGED dropCount
      /\ op = "write" /\ res = "none" /\ pc = "idle" /\ stored = NoRange
  BY DEF EarlierRun, MainBase, Options, Unused, argVars, runVars, fileVars
<1>2. Base'
  BY EarlierTyped DEF Below
<1>3. Complete'
  BY <1>1 DEF Complete
<1>4. WriteInv'
  BY <1>1, NotWriting DEF Below, Writing
<1>5. VerifyInv'
  BY <1>1 DEF Below, VerifyInv, ColdVerify, Quiet, UnreadCold, ReadFromMedium,
     RoundDown
<1>6. StoredBook' /\ CacheNew' /\ Lossless'
  BY <1>1 DEF Below, StoredInv, StoredBook, CacheNew, Writing, Lossless, NoRange
<1>7. StoredGood' /\ BufGood' /\ MismatchBeyond'
  <2>1. stored' = NoRange
    BY <1>1
  <2> QED
    BY <1>2, <2>1, Unset
<1>8. Reported' /\ InFile' /\ OnlyVerify' /\ Length'
  BY <1>1 DEF EarlierRun, Reported, InFile, OnlyVerify, Length
<1> QED
  BY <1>2, <1>3, <1>4, <1>5, <1>6, <1>7, <1>8 DEF Below, StoredInv

LEMMA BelowNext ==
  MainBase /\ Below /\ [MainNext]_allVars => Below'
<1> SUFFICES ASSUME MainBase, Below, [MainNext]_allVars PROVE Below'
  OBVIOUS
<1>1. CASE [Next]_vars
  <2>1. Base' /\ Complete' /\ WriteInv' /\ VerifyInv'
    BY <1>1, BaseNext, CompleteNext, WriteNext, VerifyNext DEF Below
  <2>2. StoredInv'
    BY <1>1, <2>1, StoredNext DEF Below
  <2>3. Reported' /\ InFile' /\ OnlyVerify' /\ Length'
    BY <1>1, ReportedNext, InFileNext, OnlyVerifyNext, LengthNext DEF Below
  <2> QED
    BY <2>1, <2>2, <2>3 DEF Below
<1>2. CASE \E r \in Rounds : EarlierRun(r)
  BY <1>2, BelowEarlier
<1> QED
  BY <1>1, <1>2, StepBelow

LEMMA WholeNext ==
  Aligned /\ MainBase /\ Below /\ Whole /\ [MainNext]_allVars => Whole'
<1> SUFFICES ASSUME Aligned, MainBase, Below, Whole, [MainNext]_allVars
             PROVE  Whole'
  OBVIOUS
<1>0. Base'
  BY BelowBase DEF Below
<1>1. CASE [Next]_vars
  <2>1. ColdInv'
    BY <1>1, ColdNext DEF Below, Whole
  <2>2. OneSeen'
    BY <1>0, <1>1, <2>1, OneSeenNext DEF Below, StoredInv, Whole
  <2> QED
    BY <2>1, <2>2 DEF Whole
<1>2. ASSUME NEW r \in Rounds, EarlierRun(r) PROVE Whole'
  <2>1. /\ UNCHANGED <<op, res, pc, max, first>> /\ stored' = NoRange
        /\ op = "write" /\ res = "none" /\ pc = "idle"
    BY <1>2 DEF EarlierRun, MainBase, Options, Unused, argVars, runVars, NoRange
  <2>2. ColdInv'
    BY <2>1, ColdIdle DEF Whole, ColdInv, Requested
  <2>3. OneSeen'
    BY <1>0, <2>1, Unset DEF NoRange
  <2> QED
    BY <2>2, <2>3 DEF Whole
<1> QED
  BY <1>1, <1>2, StepBelow

LEMMA BelowInit == Init => Below
<1> SUFFICES ASSUME Init PROVE Below
  OBVIOUS
<1>1. Base /\ WriteInv /\ VerifyInv /\ StoredInv
  BY BaseInit, WriteInit, VerifyInit, StoredInit
<1>2. Complete /\ Reported /\ InFile /\ OnlyVerify /\ Length
  BY DEF Init, IoInit, Complete, Reported, InFile, OnlyVerify, Length
<1> QED
  BY <1>1, <1>2 DEF Below

LEMMA WholeInit == Aligned /\ Init => Whole
BY ColdInit, OneSeenInit DEF Whole

-----------------------------------------------------------------------------
(* What the loop over the rounds knows *)

\* The rounds that have passed, and a verify() that is to count is under way
\* with a cold cache.
Tests ==
  mpc # "args" =>
    /\ wr /\ vf => tested = start .. rnd - 1
    /\ vf /\ rnd > start => start \in tested
    /\ mpc = "verify" /\ (wr \/ rnd = start) => cold

\* After write() the cache is cold for what is to be verified.
LEMMA ColdAfter ==
  ASSUME MainBase, Below, Whole, VerifyWritten PROVE cold'
<1>1. /\ pc = "idle" /\ res = "ok" /\ op = "write" /\ seek = aSeek /\ max = aMax
      /\ Call("verify", RoundId, aSeek, aMax)
  BY DEF VerifyWritten, MainBase, Control
<1>2. dirty = {} /\ DOMAIN cache \cap Written = {} /\ first = RoundDown(aSeek)
  BY <1>1 DEF Below, Whole, WriteInv, Synced, ColdInv, Dropped, VerifyInv
<1>3. /\ DOMAIN cache \subseteq Cells /\ first \in Nat /\ fpos \in Nat
      /\ max \in 0 .. Unlimited
  BY DEF Below, Base, TypeOK, IoTypeOK
<1>4. fpos >= Capacity \/ fpos = first + max
  BY <1>1, <1>3 DEF Below, Complete
<1>5. ASSUME NEW p \in DOMAIN cache
      PROVE  p < RoundDown(aSeek) \/ p >= RoundDown(aSeek) + aMax
  <2>1. p \notin Written /\ p \in Cells
    BY <1>2, <1>3
  <2> QED
    BY <1>1, <1>2, <1>3, <1>4, <2>1 DEF Written, Cells
<1> QED
  BY <1>1, <1>2, <1>5 DEF Call

LEMMA TestsNext ==
  MainBase /\ Below /\ Whole /\ Tests /\ [MainNext]_allVars => Tests'
<1> SUFFICES ASSUME MainBase, Below, Whole, Tests, [MainNext]_allVars,
                    mpc' # "args"
             PROVE  /\ wr' /\ vf' => tested' = start' .. rnd' - 1
                    /\ vf' /\ rnd' > start' => start' \in tested'
                    /\ mpc' = "verify" /\ (wr' \/ rnd' = start') => cold'
  BY DEF Tests
<1>0. /\ start \in 0 .. U64Max - 1 /\ rnd \in 0 .. U64Max
      /\ mpc # "args" => start <= rnd
  BY DEF MainBase, MainTypeOK, Options
<1>1. CASE /\ UNCHANGED <<mpc, wr, vf, start, rnd, tested, cold>>
  BY <1>1 DEF Tests
<1>2. CASE UNCHANGED allVars
  BY <1>1, <1>2 DEF allVars, vars, argVars, mainVars, argsVars
<1>3. CASE SetAbort \/ DisktestStep
  <2>1. UNCHANGED <<mpc, argsVars, rnd, tested>> /\ (Program \/ Environment \/ Signal)
    BY <1>3 DEF SetAbort, DisktestStep, mainVars
  <2> QED
    BY <1>1, <2>1, BelowKeeps DEF argsVars
<1>4. ASSUME NEW r \in Rounds, EarlierRun(r) PROVE FALSE
  BY <1>4 DEF EarlierRun
<1>5. ASSUME NEW w \in BOOLEAN, NEW v \in BOOLEAN, NEW seed \in BOOLEAN,
             NEW s \in Seeks, NEW m \in Sizes, NEW r \in 0 .. U64Max,
             NEW sr \in 0 .. U64Max - 1, ParseArgs(w, v, seed, s, m, r, sr)
      PROVE  /\ tested' = start' .. rnd' - 1
             /\ ~(rnd' > start')
             /\ mpc' # "verify"
  <2>1. /\ tested' = {} /\ start' = sr /\ rnd' = sr /\ mpc' \in {"rounds", "exit"}
    BY <1>5 DEF ParseArgs, MainBase, Options
  <2> QED
    BY <2>1
<1>6. CASE StartRound
  <2>1. /\ mpc = "rounds" /\ UNCHANGED <<wr, vf, start, rnd, tested>>
        /\ mpc' = "verify" => ~wr /\ Call("verify", RoundId, aSeek, aMax)
    BY <1>6 DEF StartRound, argsVars
  <2>2. ASSUME mpc' = "verify", rnd = start PROVE cold'
    <3>1. dirty = {} /\ DOMAIN cache = {}
      BY <2>1, <2>2 DEF MainBase, Control, Unused
    <3> QED
      BY <2>1, <2>2, <3>1 DEF Call
  <2> QED
    BY <2>1, <2>2 DEF Tests
<1>7. CASE VerifyWritten
  <2>1. mpc = "write" /\ UNCHANGED <<wr, vf, start, rnd, tested>> /\ cold'
    BY <1>7, ColdAfter DEF VerifyWritten, argsVars
  <2> QED
    BY <2>1 DEF Tests
<1>8. CASE EndRound
  <2>1. /\ mpc = "verify" \/ (mpc = "write" /\ ~vf)
        /\ mpc' = "rounds" /\ rnd' = rnd + 1 /\ UNCHANGED <<wr, vf, start>>
        /\ tested' = IF mpc = "verify" /\ cold THEN tested \cup {rnd} ELSE tested
    BY <1>8 DEF EndRound, argsVars
  <2>2. ASSUME wr, vf PROVE tested' = start .. rnd
    <3>1. mpc = "verify" /\ cold /\ tested = start .. rnd - 1
      BY <2>1, <2>2 DEF Tests
    <3>2. start .. rnd = (start .. rnd - 1) \cup {rnd}
      BY <1>0, <2>1
    <3> QED
      BY <2>1, <3>1, <3>2
  <2>3. ASSUME vf PROVE start \in tested'
    <3>1. mpc = "verify"
      BY <2>1, <2>3
    <3>2. CASE rnd = start
      BY <2>1, <3>1, <3>2 DEF Tests
    <3>3. CASE rnd # start
      BY <1>0, <2>1, <2>3, <3>1, <3>3 DEF Tests
    <3> QED
      BY <3>2, <3>3
  <2>4. rnd' - 1 = rnd
    BY <1>0, <2>1
  <2> QED
    BY <2>1, <2>2, <2>3, <2>4
<1>9. CASE Fail \/ Succeed
  <2>1. /\ UNCHANGED <<wr, vf, start, rnd, tested>> /\ mpc # "args" /\ mpc' = "exit"
    BY <1>9 DEF Fail, Succeed, argsVars
  <2> QED
    BY <2>1 DEF Tests
<1>10. CASE Exited
  BY <1>2, <1>10 DEF Exited
<1> QED
  BY <1>2, <1>3, <1>4, <1>5, <1>6, <1>7, <1>8, <1>9, <1>10 DEF MainNext

\* "Success!" is never for nothing, whatever fails: every round was run, and
\* what was verified had been read from the medium.
THEOREM SuccessMeansTestedHolds ==
  ASSUME Aligned
  PROVE  MainSpec => []SuccessMeansTested
<1> DEFINE IInv == MainBase /\ Below /\ Whole /\ Tests
<1>1. MainInit => IInv
  BY MainTypeInit, BelowInit, WholeInit DEF MainInit, Tests
<1>2. IInv /\ [MainNext]_allVars => IInv'
  BY MainBaseNext, BelowNext, WholeNext, TestsNext DEF Below
<1>3. MainBase /\ Tests => SuccessMeansTested
  <2> SUFFICES ASSUME MainBase, Tests, exit = "ok"
               PROVE  /\ rnd > start
                      /\ vf => start \in tested
                      /\ wr /\ vf => tested = start .. rounds - 1
    BY DEF SuccessMeansTested
  <2>1. mpc # "args" /\ rnd = rounds
    BY DEF MainBase, Control
  <2>2. rnd > start
    BY <2>1 DEF MainBase, MainTypeOK, Options
  <2> QED
    BY <2>1, <2>2 DEF Tests
<1> QED
  BY <1>1, <1>2, <1>3, PTL DEF MainSpec

\* What is verified after write() is what it has reported.
Wrote ==
  mpc = "verify" /\ wr =>
    /\ stored.round = RoundId /\ stored.lo = RoundDown(aSeek)
    /\ IF aMax = Unlimited THEN stored.hi >= Capacity
                           ELSE stored.hi = stored.lo + aMax

\* A round that has passed would have found a fake out.
FakeTested ==
  mpc # "args" /\ rnd > start /\ wr /\ vf /\ aMax = Unlimited /\ kind = "blk"
    => Capacity - RoundDown(aSeek) <= Real

LEMMA WroteNext ==
  MainBase /\ Below /\ Wrote /\ [MainNext]_allVars => Wrote'
<1> SUFFICES ASSUME MainBase, Below, Wrote, [MainNext]_allVars,
                    mpc' = "verify", wr'
             PROVE  /\ stored'.round = RoundId' /\ stored'.lo = RoundDown(aSeek')
                    /\ IF aMax' = Unlimited THEN stored'.hi >= Capacity
                                            ELSE stored'.hi = stored'.lo + aMax'
  BY DEF Wrote, RoundDown
<1>1. CASE /\ UNCHANGED <<stored, mpc, wr, aSeek, aMax, rnd, start>>
  BY <1>1 DEF Wrote, RoundId, RoundDown
<1>2. CASE UNCHANGED allVars
  BY <1>1, <1>2 DEF allVars, vars, mainVars, argsVars
<1>3. CASE SetAbort \/ DisktestStep
  <2>1. UNCHANGED <<mpc, argsVars, rnd>> /\ (Program \/ Environment \/ Signal)
    BY <1>3 DEF SetAbort, DisktestStep, mainVars
  <2>2. op = "verify"
    BY <2>1 DEF MainBase, Control
  <2>3. stored' = stored
    BY <2>1, <2>2 DEF Program, GetSectorSize, Activate, Reopen, SeekFile,
       WriteChunk, WriteFinalize, ReadChunk, Finalize, DropFile, Environment,
       Signal
  <2> QED
    BY <1>1, <2>1, <2>3 DEF argsVars
<1>4. CASE VerifyWritten
  <2>1. /\ mpc = "write" /\ pc = "idle" /\ res = "ok" /\ op = "write"
        /\ seek = aSeek /\ max = aMax /\ round = RoundId
        /\ UNCHANGED <<wr, aSeek, aMax, rnd, start>>
        /\ stored' = stored
    BY <1>4 DEF VerifyWritten, argsVars, MainBase, Control, Call
  <2>2. stored = [round |-> round, lo |-> first, hi |-> fpos]
    BY <2>1 DEF Below, Reported
  <2>3. /\ stored'.round = RoundId /\ stored'.lo = first /\ stored'.hi = fpos
        /\ first = RoundDown(aSeek)
    BY <2>1, <2>2 DEF Below, VerifyInv
  <2>4. IF aMax = Unlimited THEN fpos >= Capacity ELSE fpos = first + aMax
    <3>1. first \in Nat /\ fpos \in Nat /\ max \in 0 .. Unlimited
      BY DEF Below, Base, TypeOK, IoTypeOK
    <3> QED
      BY <2>1, <3>1 DEF Below, Complete
  <2> QED
    BY <2>1, <2>3, <2>4 DEF RoundId, RoundDown
<1>5. ASSUME StartRound PROVE FALSE
  BY <1>5 DEF StartRound, argsVars
<1> QED
  BY <1>2, <1>3, <1>4, <1>5 DEF MainNext, EarlierRun, ParseArgs, EndRound, Fail,
     Succeed, Exited

\* A verify() that passes has found a fake out.
LEMMA Finds ==
  ASSUME MainBase, Below, Whole, Wrote, mpc = "verify", pc = "idle", res = "ok",
         wr, aMax = Unlimited, kind = "blk", len = Capacity
  PROVE  Capacity - RoundDown(aSeek) <= Real
<1>1. /\ op = "verify" /\ max = Unlimited /\ round = RoundId
      /\ first = RoundDown(aSeek)
      /\ stored.round = RoundId /\ stored.lo = RoundDown(aSeek)
      /\ stored.hi >= Capacity
  BY DEF MainBase, Control, Wrote, Below, VerifyInv
<1>2. first \in Nat /\ done \in Nat /\ Len(buf) \in Nat /\ stored.hi \in Nat
  BY DEF Below, Base, TypeOK, StoredInv, StoredBook
<1>3. first + done >= Capacity
  <2>1. done = Unlimited \/ first + done >= Capacity
    BY <1>1 DEF Below, Complete
  <2> QED
    BY <1>2, <2>1
<1>4. CASE done = 0
  BY <1>1, <1>2, <1>3, <1>4
<1>5. CASE done # 0
  <2>1. first + done <= Capacity
    BY <1>1, <1>2, <1>5 DEF Below, InFile
  <2>2. first + done <= stored.hi
    BY <1>1, <1>2, <2>1
  <2>3. stored.lo <= first
    BY <1>1, <1>2
  <2>4. FakeDetected
    BY OneSeenDetects DEF Below, Whole, StoredInv
  <2>5. done <= Real
    BY <1>1, <2>2, <2>3, <2>4 DEF FakeDetected, VerifiedOk, VerifiesStored
  <2> QED
    BY <1>1, <1>2, <1>3, <2>5
<1> QED
  BY <1>4, <1>5

LEMMA FakeTestedNext ==
  MainBase /\ Below /\ Whole /\ Wrote /\ FakeTested /\ [MainNext]_allVars
    => FakeTested'
<1> SUFFICES ASSUME MainBase, Below, Whole, Wrote, FakeTested, [MainNext]_allVars,
                    mpc' # "args", rnd' > start', wr', vf', aMax' = Unlimited,
                    kind' = "blk"
             PROVE  Capacity - RoundDown(aSeek') <= Real
  BY DEF FakeTested, RoundDown
<1>1. kind' = kind
  BY StepBelow, KindStays DEF EarlierRun
<1>2. CASE mpc # "args" /\ UNCHANGED <<rnd, start, wr, vf, aSeek, aMax>>
  BY <1>1, <1>2 DEF FakeTested
<1>3. CASE EndRound
  <2>1. /\ mpc = "verify" /\ pc = "idle" /\ res = "ok"
        /\ UNCHANGED <<wr, vf, start, aSeek, aMax>>
    BY <1>3 DEF EndRound, argsVars
  <2>2. len = Capacity
    BY <1>1 DEF Below, Length
  <2> QED
    BY <1>1, <2>1, <2>2, Finds
<1>4. ASSUME NEW w \in BOOLEAN, NEW v \in BOOLEAN, NEW seed \in BOOLEAN,
             NEW s \in Seeks, NEW m \in Sizes, NEW r \in 0 .. U64Max,
             NEW sr \in 0 .. U64Max - 1, ParseArgs(w, v, seed, s, m, r, sr)
      PROVE  FALSE
  <2>1. rnd' = start' /\ start' \in Nat
    BY <1>4 DEF ParseArgs
  <2> QED
    BY <2>1
<1>5. ASSUME NEW r \in Rounds, EarlierRun(r) PROVE FALSE
  BY <1>5 DEF EarlierRun
<1>6. CASE UNCHANGED allVars
  BY <1>2, <1>6 DEF allVars, mainVars, argsVars
<1>7. CASE StartRound \/ VerifyWritten \/ Fail \/ Succeed \/ Exited
  BY <1>2, <1>7 DEF StartRound, VerifyWritten, Fail, Succeed, Exited, allVars,
     mainVars, argsVars
<1>8. CASE SetAbort \/ DisktestStep
  BY <1>2, <1>8 DEF SetAbort, DisktestStep, mainVars, argsVars
<1> QED
  BY <1>3, <1>4, <1>5, <1>6, <1>7, <1>8 DEF MainNext

\* With --write and --verify a disk that pretends to be larger than it is never
\* makes the program succeed, whatever it held before and whatever fails.
THEOREM FakeNeverSucceedsHolds ==
  ASSUME Aligned
  PROVE  MainSpec => []FakeNeverSucceeds
<1> DEFINE IInv == MainBase /\ Below /\ Whole /\ Wrote /\ FakeTested
<1>1. MainInit => IInv
  BY MainTypeInit, BelowInit, WholeInit DEF MainInit, Wrote, FakeTested
<1>2. IInv /\ [MainNext]_allVars => IInv'
  BY MainBaseNext, BelowNext, WholeNext, WroteNext, FakeTestedNext DEF Below
<1>3. IInv => FakeNeverSucceeds
  <2> SUFFICES ASSUME IInv, exit = "ok" PROVE mpc # "args" /\ rnd > start
    BY DEF FakeNeverSucceeds, FakeTested
  <2>1. mpc # "args" /\ rnd = rounds
    BY DEF MainBase, Control
  <2> QED
    BY <2>1 DEF MainBase, MainTypeOK, Options
<1> QED
  BY <1>1, <1>2, <1>3, PTL DEF MainSpec

-----------------------------------------------------------------------------
(* A disk that works is not accused *)

\* What the program is asked to test, and that it does not share a block with
\* anything else.
Asked == RoundDown(aSeek) .. RoundDown(aSeek) + aMax - 1

GoodPlace == Real = Capacity \/ RoundDown(aSeek) + aMax <= Real

\* Only what is asked for is written.
Confined == dirty \subseteq Asked /\ (~wr => dirty = {})

OwnData(x, b) == x = Junk \/ \E r \in Rounds : x = Pat(r, b)

\* A block of it has no data of another cell.
Own ==
  mpc = "args" \/ GoodPlace =>
    \A b \in Blocks : OwnData(medium[b], b)

\* The earlier run.
Earlier ==
  mpc = "args" /\ before # -1 /\ rots = 0 =>
    \A b \in Blocks : medium[b] = Pat(before, b)

\* There is nothing to find.
Innocent == GoodPlace /\ rots = 0 /\ (wr \/ before = start)

\* A cell holds the pattern on the medium and, if it is cached, in RAM.
RightAt(p, r) == Content(p) = Pat(r, p) /\ medium[Phys(p)] = Pat(r, p)

\* write() is through with the range, or is not called at all.
Settled == mpc = "verify" \/ (mpc = "rounds" /\ ~wr)

Intact ==
  Innocent /\ Settled => \A p \in Asked \cap Cells : RightAt(p, RoundId)

\* What verify() has read is right.
BufRight ==
  /\ res # "mismatch"
  /\ \A i \in 1 .. Len(buf) : buf[i] = Pat(round, first + done + i - 1)

BufIntact == Innocent /\ mpc = "verify" => BufRight

\* Data waits to be stored after a write() only, and the medium changes by one,
\* or by the kernel.
LEMMA OnlyStores ==
  ASSUME [Next]_vars, ~WriteChunk
  PROVE  dirty' \subseteq dirty /\ (medium' = medium \/ Environment)
<1>1. CASE Program /\ ~Finalize /\ ~DropFile
  BY <1>1 DEF Program, GetSectorSize, Activate, Reopen, SeekFile, DoOpen, Open,
     OpenFails, SeekOk, SeekFails, WriteFinalize, SyncOk, SyncFails, ReadChunk,
     ReadSome, ReadOk, ReadFails, ioVars
<1>2. CASE Finalize \/ DropFile
  BY <1>2 DEF Finalize, DropFile, CloseFile, CloseOk, CloseFails, DropCachesOk,
     DropCachesFails, ioVars
<1>3. CASE Environment
  BY <1>3 DEF Environment, Kernel, Writeback, WritebackFails, Evict, Rot
<1> QED
  BY <1>1, <1>2, <1>3 DEF Next, vars, Call, Signal, Kill, Terminated, ioVars

LEMMA RotsGrow == ASSUME [Next]_vars PROVE rots' = rots \/ rots' = rots + 1
BY DEF Next, vars, Call, Signal, Kill, Terminated, Program, GetSectorSize,
       Activate, Reopen, SeekFile, WriteChunk, WriteFinalize, ReadChunk, Finalize,
       DropFile, Others, Environment, Kernel, Writeback, WritebackFails, Evict, Rot

\* write() stays in the range.
LEMMA WritesAsked ==
  ASSUME MainBase, Below, WriteChunk
  PROVE  /\ mpc = "write" /\ wr
         /\ \E k \in Nat : /\ k <= Chunk /\ k <= Room /\ Put(ChunkData, k)
                         /\ fpos .. fpos + k - 1 \subseteq Asked \cap Cells
<1>1. pc = "io" /\ op = "write"
  BY DEF WriteChunk
<1>2. calls # 0
  BY <1>1 DEF MainBase, Unused
<1>3. mpc = "write" /\ wr
  BY <1>1, <1>2 DEF MainBase, MainTypeOK, Options, Control
<1>4. /\ first = RoundDown(aSeek) /\ max = aMax /\ fpos = first + done
      /\ done + left = max
  <2>1. fpos = first + done + Len(buf) /\ buf = << >> /\ Len(<< >>) = 0
    BY <1>1 DEF Below, Base, Book
  <2>2. first \in Nat /\ done \in Nat
    BY DEF Below, Base, TypeOK
  <2> QED
    BY <1>3, <2>1, <2>2 DEF Below, VerifyInv, MainBase, Control, Base, Book
<1>5. /\ first \in Nat /\ done \in Nat /\ left \in Nat /\ max \in Nat
      /\ fpos \in Nat
  BY DEF Below, Base, TypeOK, IoTypeOK
<1>6. /\ Min2(Chunk, left) \in Nat /\ Min2(Chunk, left) <= Chunk
      /\ Min2(Chunk, left) <= left /\ Room \in Nat
  BY <1>5, ChunkLen DEF Below, Room
<1>7. PICK k \in Nat : k <= Min2(Chunk, left) /\ k <= Room /\ Put(ChunkData, k)
  BY <1>6 DEF WriteChunk, WriteOk, WriteEnospc, WriteFails
<1>8. fpos .. fpos + k - 1 \subseteq Asked
  BY <1>4, <1>5, <1>6, <1>7 DEF Asked
<1>9. fpos .. fpos + k - 1 \subseteq Cells
  BY <1>5, <1>7 DEF Room, Cells
<1>10. k <= Chunk
  BY <1>6, <1>7
<1> QED
  BY <1>3, <1>7, <1>8, <1>9, <1>10

LEMMA ConfinedNext ==
  MainBase /\ Below /\ Confined /\ [MainNext]_allVars => Confined'
<1> SUFFICES ASSUME MainBase, Below, Confined, [MainNext]_allVars PROVE Confined'
  OBVIOUS
<1>1. CASE UNCHANGED <<aSeek, aMax, wr>> /\ dirty' \subseteq dirty
  BY <1>1 DEF Confined, Asked, RoundDown
<1>2. CASE WriteChunk /\ UNCHANGED argsVars
  <2>1. wr /\ UNCHANGED <<aSeek, aMax, wr>>
    BY <1>2, WritesAsked DEF argsVars
  <2>2. dirty' \subseteq dirty \cup Asked
    BY <1>2, WritesAsked DEF Put
  <2> QED
    BY <2>1, <2>2 DEF Confined, Asked, RoundDown
<1>3. ASSUME NEW w \in BOOLEAN, NEW v \in BOOLEAN, NEW seed \in BOOLEAN,
             NEW s \in Seeks, NEW m \in Sizes, NEW r \in 0 .. U64Max,
             NEW sr \in 0 .. U64Max - 1, ParseArgs(w, v, seed, s, m, r, sr)
      PROVE  Confined'
  <2>1. dirty' = {}
    BY <1>3 DEF ParseArgs, vars, ioVars, MainBase, Options, Unused
  <2> QED
    BY <2>1 DEF Confined
<1>4. ASSUME NEW r \in Rounds, EarlierRun(r) PROVE Confined'
  BY <1>1, <1>4 DEF EarlierRun, argsVars
<1>5. CASE SetAbort \/ DisktestStep
  <2>1. [Next]_vars /\ UNCHANGED argsVars
    BY <1>5 DEF SetAbort, DisktestStep, mainVars, Next
  <2> QED
    BY <1>1, <1>2, <2>1, OnlyStores DEF argsVars
<1>6. CASE StartRound \/ VerifyWritten
  <2>1. UNCHANGED argsVars /\ UNCHANGED dirty
    BY <1>6 DEF StartRound, VerifyWritten, Call, ioVars
  <2> QED
    BY <1>1, <2>1 DEF argsVars
<1>7. CASE UNCHANGED allVars \/ EndRound \/ Fail \/ Succeed \/ Exited
  BY <1>1, <1>7 DEF allVars, mainVars, argsVars, vars, ioVars, EndRound, Fail,
     Succeed, Exited
<1> QED
  BY <1>3, <1>4, <1>5, <1>6, <1>7 DEF MainNext

\* Each cell that is tested has a block of its own.
LEMMA PlaceOwn ==
  ASSUME NEW lo \in Nat, NEW n \in Nat, Real = Capacity \/ lo + n <= Real,
         NEW p \in lo .. lo + n - 1, p \in Cells
  PROVE  p \in Blocks /\ Phys(p) = p
<1>1. p \in 0 .. Real - 1
  BY DEF Cells
<1>2. Real \in Int /\ Real > 0
  OBVIOUS
<1>3. (0 * Real + p) % Real = p
  BY <1>1, <1>2, DivModUnique
<1>4. 0 * Real + p = p
  BY <1>1, <1>2
<1> QED
  BY <1>1, <1>3, <1>4 DEF Phys, Blocks

LEMMA PhysOwn ==
  ASSUME MainTypeOK, GoodPlace, NEW p \in Asked \cap Cells PROVE Phys(p) = p
<1>1. RoundDown(aSeek) \in Nat /\ aMax \in Nat
  BY RoundDownNat DEF MainTypeOK
<1> QED
  BY <1>1, PlaceOwn DEF GoodPlace, Asked

\* What a character device stores goes where it belongs.
LEMMA PutOwn ==
  ASSUME MainBase, Below, GoodPlace, WriteChunk, NEW b \in Blocks
  PROVE  medium'[b] = medium[b] \/ OwnData(medium'[b], b)
<1>1. /\ pc = "io" /\ op = "write" /\ fpos \in Nat /\ MainTypeOK
      /\ medium \in [Blocks -> Contents]
  BY DEF WriteChunk, Below, Base, TypeOK, IoTypeOK, MainBase
<1>2. PICK k \in Nat : /\ k <= Chunk /\ k <= Room /\ Put(ChunkData, k)
                     /\ fpos .. fpos + k - 1 \subseteq Asked \cap Cells
  BY WritesAsked
<1> DEFINE Last(c) == (fpos + k - 1) - ((fpos + k - 1 - c) % Real)
<1>3. CASE kind # "chr"
  BY <1>2, <1>3 DEF Put
<1>4. CASE kind = "chr"
  <2>1. medium' = [c \in Blocks |-> IF Last(c) >= fpos
                                   THEN ChunkData[Last(c) - fpos] ELSE medium[c]]
    BY <1>2, <1>4 DEF Put, Last
  <2>2. PICK h \in Int : h = fpos + k - 1 /\ h >= -1
    BY <1>1
  <2>3. PICK L : L = h - ((h - b) % Real)
    OBVIOUS
  <2>a. L \in Int /\ L <= h /\ (L >= 0 => Phys(L) = b)
    BY <2>2, <2>3, LastOf
  <2>b. Last(b) = L
    <3>1. fpos + k - 1 = h /\ fpos + k - 1 - b = h - b
      BY <1>1, <2>2 DEF Blocks
    <3> QED
      BY <2>3, <3>1 DEF Last
  <2> HIDE DEF Last
  <2>4. CASE ~(L >= fpos)
    BY <2>1, <2>b, <2>4
  <2>5. CASE L >= fpos
    <3>1. L \in fpos .. fpos + k - 1
      BY <1>1, <2>2, <2>a, <2>5
    <3>2. L \in Asked \cap Cells
      BY <1>2, <3>1
    <3>3. L = b
      BY <1>1, <2>a, <2>5, <3>2, PhysOwn
    <3>4. ChunkData[L - fpos] = Pat(round, L) /\ round \in Rounds
      BY <1>1, <1>2, <3>1, PutData DEF Below
    <3> QED
      BY <2>1, <2>b, <2>5, <3>3, <3>4 DEF OwnData
  <2> QED
    BY <2>4, <2>5
<1> QED
  BY <1>3, <1>4

LEMMA OwnNext ==
  MainBase /\ Below /\ Confined /\ Own /\ [MainNext]_allVars => Own'
<1> SUFFICES ASSUME MainBase, Below, Confined, Own, [MainNext]_allVars,
                    mpc' = "args" \/ GoodPlace', NEW b \in Blocks
             PROVE  OwnData(medium'[b], b)
  BY DEF Own, OwnData, Pat, Blocks, Junk
<1>1. CASE mpc = "args"
  <2>1. OwnData(medium[b], b)
    BY <1>1 DEF Own
  <2>2. CASE \E r \in Rounds : EarlierRun(r)
    BY <2>2 DEF EarlierRun, OwnData
  <2>3. CASE [Next]_vars
    <3>1. dirty = {} /\ ~WriteChunk
      BY <1>1 DEF MainBase, Options, Unused, WriteChunk
    <3>2. medium' = medium \/ \E x \in Blocks : Rot(x)
      BY <2>3, <3>1, OnlyStores DEF Environment, Kernel, Writeback,
         WritebackFails, Evict
    <3>3. medium \in [Blocks -> Contents]
      BY DEF Below, Base, TypeOK, IoTypeOK
    <3> QED
      BY <2>1, <3>2, <3>3 DEF Rot, OwnData
  <2> QED
    BY <2>2, <2>3, StepBelow
<1>2. CASE mpc # "args"
  <2>1. mpc' # "args" /\ UNCHANGED <<aSeek, aMax>>
    BY <1>2 DEF MainNext, allVars, mainVars, argsVars, EarlierRun, ParseArgs,
       StartRound, VerifyWritten, EndRound, Fail, Succeed, SetAbort,
       DisktestStep, Exited
  <2>2. GoodPlace
    BY <2>1 DEF GoodPlace, RoundDown
  <2>3. OwnData(medium[b], b)
    BY <2>2 DEF Own
  <2>4. [Next]_vars
    BY <1>2, StepBelow DEF EarlierRun
  <2>5. medium \in [Blocks -> Contents]
    BY DEF Below, Base, TypeOK, IoTypeOK
  <2>6. CASE WriteChunk
    BY <2>2, <2>3, <2>6, PutOwn
  <2>7. ASSUME NEW p \in Cells, Writeback(p) PROVE OwnData(medium'[b], b)
    <3>1. /\ p \in Asked \cap Cells /\ \E r \in Rounds : cache[p] = Pat(r, p)
          /\ medium' = [medium EXCEPT ![Phys(p)] = cache[p]]
      BY <2>7 DEF Writeback, Confined, Below, WriteInv, DirtyPat
    <3>2. Phys(p) = p
      BY <2>2, <3>1, PhysOwn DEF MainBase
    <3> QED
      BY <2>3, <2>5, <3>1, <3>2 DEF OwnData
  <2>8. ASSUME NEW x \in Blocks, Rot(x) PROVE OwnData(medium'[b], b)
    BY <2>3, <2>5, <2>8 DEF Rot, OwnData
  <2>9. CASE medium' = medium
    BY <2>3, <2>9
  <2> QED
    BY <2>4, <2>6, <2>7, <2>8, <2>9, OnlyStores
       DEF Environment, Kernel, WritebackFails, Evict
<1> QED
  BY <1>1, <1>2

LEMMA EarlierNext ==
  MainBase /\ Below /\ Earlier /\ [MainNext]_allVars => Earlier'
<1> SUFFICES ASSUME MainBase, Below, Earlier, [MainNext]_allVars,
                    mpc' = "args", before' # -1, rots' = 0, NEW b \in Blocks
             PROVE  medium'[b] = Pat(before', b)
  BY DEF Earlier, Pat, Blocks
<1>1. mpc = "args"
  BY DEF MainNext, allVars, mainVars, argsVars, EarlierRun, ParseArgs,
     StartRound, VerifyWritten, EndRound, Fail, Succeed, SetAbort,
     DisktestStep, Exited
<1>2. CASE \E r \in Rounds : EarlierRun(r)
  BY <1>2 DEF EarlierRun
<1>3. CASE [Next]_vars /\ before' = before
  <2>1. dirty = {} /\ ~WriteChunk
    BY <1>1 DEF MainBase, Options, Unused, WriteChunk
  <2>2. medium' = medium \/ \E x \in Blocks : Rot(x)
    BY <1>3, <2>1, OnlyStores DEF Environment, Kernel, Writeback,
       WritebackFails, Evict
  <2>3. rots \in Nat
    BY DEF Below, Base, TypeOK, IoTypeOK
  <2>4. rots' = rots \/ rots' = rots + 1
    BY <1>1, <1>3, RotsGrow
  <2>5. rots' = rots /\ medium' = medium
    BY <2>2, <2>3, <2>4 DEF Rot
  <2> QED
    BY <1>1, <1>3, <2>5 DEF Earlier
<1>4. before' = before \/ \E r \in Rounds : EarlierRun(r)
  BY DEF MainNext, allVars, mainVars, argsVars, EarlierRun, ParseArgs,
     StartRound, VerifyWritten, EndRound, Fail, Succeed, SetAbort,
     DisktestStep, Exited
<1> QED
  BY <1>2, <1>3, <1>4, StepBelow

\* After write() the range is right.
LEMMA WrittenRight ==
  ASSUME MainBase, Below, Own, VerifyWritten, GoodPlace, rots = 0,
         NEW p \in Asked \cap Cells
  PROVE  RightAt(p, RoundId)
<1>1. /\ pc = "idle" /\ res = "ok" /\ op = "write" /\ seek = aSeek /\ max = aMax
      /\ round = RoundId /\ MainTypeOK
  BY DEF VerifyWritten, MainBase, Control
<1>2. first = RoundDown(aSeek) /\ Writing /\ dirty = {} /\ ~wbErr /\ late = {}
  BY <1>1 DEF Below, VerifyInv, Writing, WriteInv, Synced, StoredInv, Lossless
<1>3. p \in Written
  <2>1. first \in Nat /\ fpos \in Nat /\ max \in 0 .. Unlimited
    BY DEF Below, Base, TypeOK, IoTypeOK
  <2>2. fpos >= Capacity \/ fpos = first + max
    BY <1>1, <2>1 DEF Below, Complete
  <2> QED
    BY <1>1, <1>2, <2>1, <2>2 DEF Asked, Cells, Written
<1>4. Safe(p) /\ Phys(p) = p /\ p \in Blocks
  <2>1. p \in Nat
    BY DEF Cells
  <2> QED
    BY <1>1, <1>2, <1>3, <2>1, PhysOwn, PhysInBlocks DEF Below, WriteInv, NothingLost
<1>5. OwnData(medium[p], p)
  BY <1>4 DEF Own
<1>6. \A q \in Cells \ {p}, r \in Rounds : ~OwnData(Pat(r, q), p)
  BY DEF OwnData, Pat, Junk, Cells
<1>7. medium[Phys(p)] = Pat(round, p)
  BY <1>2, <1>4, <1>5, <1>6 DEF Safe, Overwritten
<1>8. p \in DOMAIN cache => cache[p] = Pat(round, p)
  BY <1>2, <1>3 DEF Below, StoredInv, CacheNew
<1> QED
  BY <1>1, <1>7, <1>8 DEF RightAt, Content

\* From then on the steps of Disktest are those after a write().
LEMMA SettledLater ==
  ASSUME MainBase, Below, Wrote, Confined, Settled, SetAbort \/ DisktestStep
  PROVE  dirty = {} /\ Later
<1>1. Program \/ Environment \/ Signal
  BY DEF SetAbort, DisktestStep
<1>2. op = "verify" \/ pc = "idle"
  BY DEF MainBase, Control, Settled
<1>3. dirty = {}
  <2>1. CASE ~wr
    BY <2>1 DEF Confined
  <2>2. CASE wr
    <3>1. stored.round = RoundId /\ RoundId \in Rounds
      BY <2>2, RoundIdTyped DEF Settled, Wrote, MainBase
    <3>2. stored # NoRange
      BY <3>1 DEF NoRange
    <3> QED
      BY <3>2 DEF Below, StoredInv, StoredBook
  <2> QED
    BY <2>1, <2>2
<1>4. CASE Program
  <2>1. ~WriteChunk /\ ~WriteFinalize
    BY <1>2 DEF WriteChunk, WriteFinalize, Below, StoredInv, StoredBook
  <2>2. Finalize => op = "verify"
    BY <1>2 DEF Finalize
  <2> QED
    BY <1>3, <1>4, <2>1, <2>2 DEF Program, Later
<1>5. CASE Environment
  BY <1>3, <1>5 DEF Environment, Kernel, Writeback, WritebackFails, Later
<1>6. CASE Signal
  BY <1>3, <1>6 DEF Later
<1> QED
  BY <1>1, <1>4, <1>5, <1>6

\* The range stays right.
LEMMA StaysRight ==
  ASSUME Below, dirty = {}, Later, rots' = 0, NEW p \in Cells, NEW r, RightAt(p, r)
  PROVE  RightAt(p, r)'
<1>1. CASE ReadChunk
  <2>1. medium' = medium /\ (p \in DOMAIN cache' => cache'[p] = Content(p))
    BY <1>1, ReadAdds
  <2> QED
    BY <2>1 DEF RightAt, Content, Phys, Pat
<1>2. CASE ~ReadChunk
  <2>1. Rests
    BY <1>2, LaterRests DEF Below
  <2>2. medium' = medium /\ (p \in DOMAIN cache' => cache'[p] = Content(p))
    BY <2>1 DEF Rests, Content
  <2> QED
    BY <2>2 DEF RightAt, Content, Phys, Pat
<1> QED
  BY <1>1, <1>2

\* A read() of the range gets what is right, and it matches.
LEMMA ReadRight ==
  ASSUME MainBase, Below, mpc = "verify", ReadChunk, BufRight,
         \A p \in Asked \cap Cells : RightAt(p, RoundId)
  PROVE  BufRight'
<1>0. /\ pc = "io" /\ op = "verify" /\ res = "none"
      /\ fpos = first + done + Len(buf) /\ done + left = max
      /\ UNCHANGED <<round, first, rots, late>>
  BY DEF ReadChunk, Below, Base, Book, Others, argVars
<1>c. round \in Rounds /\ done = chunks * Chunk
  BY DEF ReadChunk, Below, Base, Book
<1>1. /\ first \in Nat /\ done \in Nat /\ Len(buf) \in Nat /\ left \in Nat
      /\ max \in Nat /\ len \in 0 .. Capacity /\ fpos \in Nat
  BY DEF Below, Base, TypeOK, IoTypeOK
<1>2. first = RoundDown(aSeek) /\ max = aMax /\ round = RoundId
  BY DEF Below, VerifyInv, MainBase, Control
<1>3. CASE ReadFails /\ UNCHANGED <<done, buf>> /\ res' = "err"
  BY <1>0, <1>3 DEF BufRight, Pat
<1>4. ASSUME NEW n \in Readable(Want), ReadSome(n, Filled(n)) PROVE BufRight'
  <2> DEFINE b == Filled(n)
  <2>0. /\ n \in Nat /\ Len(b) = Len(buf) + n
        /\ Len(buf) + n <= readLen /\ readLen <= left /\ readLen <= Chunk
        /\ readLen \in Nat
    BY <1>0, <1>4, FilledFacts DEF ReadSome, Below
  <2>b. \A i \in 1 .. Len(buf) : b[i] = buf[i]
    BY <1>0, <1>4, FilledFacts DEF ReadSome, Below
  <2>2. \A i \in 1 .. n : b[Len(buf) + i] = Content(fpos + i - 1)
    BY <1>0, <1>4, FilledFacts DEF ReadSome, Below
  <2> HIDE DEF b
  <2>1. /\ n \in Nat /\ Len(b) = Len(buf) + n /\ Len(b) \in Nat
        /\ Len(b) <= left /\ Len(b) <= Chunk
    BY <1>1, <2>0
  <2>3. n > 0 => fpos + n <= len
    BY <1>1, <2>1 DEF Readable
  <2>4. ASSUME NEW i \in 1 .. Len(b)
        PROVE  b[i] = Pat(round, first + done + i - 1)
    <3>1. CASE i <= Len(buf)
      <4>1. i \in 1 .. Len(buf)
        BY <1>1, <3>1
      <4> QED
        BY <2>b, <4>1 DEF BufRight
    <3>2. CASE i > Len(buf)
      <4>1. PICK j \in 1 .. n : i = Len(buf) + j
        <5>1. i - Len(buf) \in 1 .. n /\ i = Len(buf) + (i - Len(buf))
          BY <1>1, <2>1, <3>2
        <5> QED
          BY <5>1
      <4>2. PICK p \in Nat : p = fpos + j - 1
        BY <1>1, <2>1
      <4>3. p = first + done + i - 1
        BY <1>0, <1>1, <2>1, <4>1, <4>2
      <4>4. fpos + n <= Capacity /\ fpos + n <= first + max
        BY <1>0, <1>1, <2>1, <2>3, <4>1
      <4>5. p < Capacity /\ first <= p /\ p < first + max
        BY <1>0, <1>1, <2>1, <4>1, <4>2, <4>4
      <4>6. p \in Asked \cap Cells
        BY <1>1, <1>2, <4>5 DEF Asked, Cells
      <4>7. b[i] = Content(p)
        BY <2>2, <4>1, <4>2
      <4> QED
        BY <1>2, <4>3, <4>6, <4>7 DEF RightAt
    <3> QED
      BY <1>1, <3>1, <3>2
  <2>5. ~Mismatch(b)
    <3> SUFFICES ASSUME NEW i \in 1 .. Len(b) PROVE b[i] = ChunkData[i - 1]
      BY DEF Mismatch
    <3>1. i - 1 \in 0 .. Chunk - 1
      BY <1>1, <2>1
    <3>2. ChunkData[i - 1] = Pat(round, first + done + (i - 1))
      BY <1>c, <3>1, ChunkDataPat DEF Below, Base
    <3>3. first + done + (i - 1) = first + done + i - 1
      BY <1>1
    <3> QED
      BY <2>4, <3>2, <3>3
  <2>6. /\ \/ buf' = b /\ done' = done
           \/ buf' = << >>
        /\ res' \in {"none", "ok", "aborted"}
    BY <1>0, <1>4, <2>5 DEF ReadSome, Continue, b
  <2>7. CASE buf' = << >>
    BY <2>6, <2>7 DEF BufRight
  <2>8. CASE buf' = b /\ done' = done
    BY <1>0, <2>4, <2>6, <2>8 DEF BufRight, Pat
  <2> QED
    BY <2>6, <2>7, <2>8
<1> QED
  BY <1>3, <1>4 DEF ReadChunk, Filled

\* The verify() goes on.
LEMMA BufStays ==
  ASSUME MainBase, Below, mpc = "verify", dirty = {}, Later, BufRight,
         \A p \in Asked \cap Cells : RightAt(p, RoundId)
  PROVE  BufRight'
<1>1. CASE ReadChunk
  BY <1>1, ReadRight
<1>2. CASE ~ReadChunk
  <2>1. Rests
    BY <1>2, LaterRests DEF Below
  <2> QED
    BY <2>1 DEF Rests, BufRight, Pat
<1> QED
  BY <1>1, <1>2

IntactInv == Wrote /\ Confined /\ Own /\ Earlier /\ Intact /\ BufIntact

\* Both through the loop over the rounds.
LEMMA IntactNext ==
  MainBase /\ Below /\ IntactInv /\ [MainNext]_allVars => Intact' /\ BufIntact'
<1> SUFFICES ASSUME MainBase, Below, IntactInv, [MainNext]_allVars, Innocent',
                    Settled'
             PROVE  /\ (\A p \in Asked \cap Cells : RightAt(p, RoundId))'
                    /\ mpc' = "verify" => BufRight'
  BY DEF Intact, BufIntact, Settled
<1>0. /\ rots' = 0 /\ rots \in Nat
      /\ MainTypeOK
  BY DEF Innocent, Below, Base, TypeOK, IoTypeOK, MainBase
<1>1. rots = 0
  BY <1>0, StepBelow, RotsGrow DEF EarlierRun
\* Nothing happens to the disk.
<1>2. ASSUME Innocent, Settled, UNCHANGED <<aSeek, aMax, cache, medium>>,
             RoundId' = RoundId
      PROVE  (\A p \in Asked \cap Cells : RightAt(p, RoundId))'
  <2>1. \A p \in Asked \cap Cells : RightAt(p, RoundId)
    BY <1>2 DEF IntactInv, Intact
  <2> QED
    BY <1>2, <2>1 DEF RightAt, Content, Phys, Pat, Asked, Cells, RoundDown
<1>3. CASE UNCHANGED allVars
  <2>1. /\ UNCHANGED <<mpc, wr, before, start, rots, aSeek, aMax, cache, medium>>
        /\ UNCHANGED <<rnd, res, buf, round, first, done>>
    BY <1>3 DEF allVars, vars, ioVars, argVars, runVars, mainVars, argsVars
  <2>2. Innocent /\ Settled /\ RoundId' = RoundId
    BY <2>1 DEF Innocent, GoodPlace, RoundDown, Settled, RoundId
  <2>3. mpc = "verify" => BufRight
    BY <2>2 DEF IntactInv, BufIntact
  <2> QED
    BY <1>2, <2>1, <2>2, <2>3 DEF BufRight, Pat
<1>4. CASE SetAbort \/ DisktestStep
  <2>1. UNCHANGED <<mpc, wr, before, start, aSeek, aMax, rnd>>
    BY <1>4 DEF SetAbort, DisktestStep, mainVars, argsVars
  <2>2. Innocent /\ Settled /\ RoundId' = RoundId
    BY <1>1, <2>1 DEF Innocent, GoodPlace, RoundDown, Settled, RoundId
  <2>3. dirty = {} /\ Later
    BY <1>4, <2>2, SettledLater DEF IntactInv
  <2>4. \A p \in Asked \cap Cells : RightAt(p, RoundId)
    BY <2>2 DEF IntactInv, Intact
  <2>5. \A r : RoundId = r => \A p \in Asked \cap Cells : RightAt(p, r)'
    BY <1>0, <2>3, <2>4, StaysRight
  <2>6. (\A p \in Asked \cap Cells : RightAt(p, RoundId))'
    BY <2>1, <2>2, <2>5 DEF Asked, Cells, RoundDown
  <2>7. mpc' = "verify" => BufRight'
    BY <2>1, <2>2, <2>3, <2>4, BufStays DEF IntactInv, BufIntact
  <2> QED
    BY <2>6, <2>7
<1>5. ASSUME NEW r \in Rounds, EarlierRun(r) PROVE FALSE
  BY <1>5 DEF EarlierRun, Settled
<1>6. ASSUME NEW w \in BOOLEAN, NEW v \in BOOLEAN, NEW seed \in BOOLEAN,
             NEW s \in Seeks, NEW m \in Sizes, NEW r \in 0 .. U64Max,
             NEW sr \in 0 .. U64Max - 1, ParseArgs(w, v, seed, s, m, r, sr)
      PROVE  /\ (\A p \in Asked \cap Cells : RightAt(p, RoundId))'
             /\ mpc' # "verify"
  <2>1. /\ mpc = "args" /\ mpc' \in {"rounds", "exit"} /\ DOMAIN cache = {}
        /\ UNCHANGED <<cache, medium, before>>
    BY <1>6 DEF ParseArgs, vars, ioVars, MainBase, Options, Unused
  <2>2. ~wr' /\ before' = start' /\ RoundId' = start' /\ start' \in Nat
    BY <1>6, <2>1 DEF ParseArgs, Settled, Innocent, RoundId
  <2>3. \A b \in Blocks : medium[b] = Pat(before, b)
    BY <1>1, <2>1, <2>2 DEF IntactInv, Earlier
  <2>4. /\ RoundDown(aSeek') \in Nat /\ aMax' \in Nat
        /\ Real = Capacity \/ RoundDown(aSeek') + aMax' <= Real
    <3>1. MainTypeOK'
      BY MainBaseNext DEF Below, MainBase
    <3>2. aSeek' \in Nat /\ aMax' \in Nat
      BY <3>1 DEF MainTypeOK
    <3>3. Real = Capacity \/ RoundDown(aSeek') + aMax' <= Real
      BY DEF Innocent, GoodPlace, RoundDown
    <3> QED
      BY <3>2, <3>3, RoundDownNat
  <2>5. \A p \in Asked' \cap Cells : p \in Blocks /\ Phys(p) = p
    BY <2>4, PlaceOwn DEF Asked, RoundDown
  <2>6. \A p \in Asked' \cap Cells : medium'[Phys(p)] = Pat(RoundId', p)
                                 /\ p \notin DOMAIN cache'
    BY <2>1, <2>2, <2>3, <2>5
  <2> QED
    BY <2>1, <2>6 DEF RightAt, Content, Phys, Cells, Pat
<1>7. CASE StartRound
  <2>1. /\ mpc = "rounds" /\ ~wr /\ UNCHANGED <<wr, before, start, aSeek, aMax, rnd>>
        /\ Call("verify", RoundId, aSeek, aMax)
    BY <1>7 DEF StartRound, argsVars, Settled
  <2>2. Innocent /\ Settled /\ RoundId' = RoundId
    BY <1>1, <2>1 DEF Innocent, GoodPlace, RoundDown, Settled, RoundId
  <2>3. UNCHANGED <<cache, medium>> /\ res' = "none" /\ buf' = << >>
    BY <2>1 DEF Call, ioVars
  <2> QED
    BY <1>2, <2>1, <2>2, <2>3 DEF BufRight
<1>8. CASE VerifyWritten
  <2>1. /\ mpc = "write" /\ UNCHANGED <<wr, start, aSeek, aMax, rnd>>
        /\ Call("verify", RoundId, aSeek, aMax)
    BY <1>8 DEF VerifyWritten, argsVars
  <2>2. GoodPlace /\ RoundId' = RoundId
    BY <2>1 DEF Innocent, GoodPlace, RoundDown, RoundId
  <2>3. UNCHANGED <<cache, medium>> /\ res' = "none" /\ buf' = << >>
    BY <2>1 DEF Call, ioVars
  <2>4. \A p \in Asked \cap Cells : RightAt(p, RoundId)
    BY <1>1, <1>8, <2>2, WrittenRight DEF IntactInv
  <2>5. (\A p \in Asked \cap Cells : RightAt(p, RoundId))'
    BY <2>1, <2>2, <2>3, <2>4 DEF RightAt, Content, Phys, Pat, Asked, Cells,
       RoundDown
  <2> QED
    BY <2>3, <2>5 DEF BufRight
<1>9. CASE EndRound
  <2>1. /\ mpc' = "rounds" /\ ~wr /\ mpc = "verify"
        /\ UNCHANGED <<vars, wr, before, start, aSeek, aMax>>
    BY <1>9 DEF EndRound, argsVars, Settled, MainBase, Control
  <2>2. Innocent /\ Settled /\ RoundId' = RoundId
    BY <1>1, <2>1 DEF Innocent, GoodPlace, RoundDown, Settled, RoundId
  <2> QED
    BY <1>2, <2>1, <2>2 DEF vars, ioVars
<1>10. CASE Fail \/ Succeed \/ Exited
  BY <1>3, <1>10 DEF Fail, Succeed, Exited, Settled
<1> QED
  BY <1>3, <1>4, <1>5, <1>6, <1>7, <1>8, <1>9, <1>10 DEF MainNext

\* A disk that works is not accused, however many rounds there are and whatever
\* fails: neither after --write nor with the pattern of an earlier run.
THEOREM NoMismatchOnGoodDiskHolds == MainSpec => []NoMismatchOnGoodDisk
<1> DEFINE IInv == MainBase /\ Below /\ IntactInv /\ NoMismatchOnGoodDisk
<1>1. MainInit => IInv
  <2> SUFFICES ASSUME MainInit PROVE IInv
    OBVIOUS
  <2>1. MainBase /\ Below
    BY MainTypeInit, BelowInit DEF MainInit
  <2>2. IntactInv /\ NoMismatchOnGoodDisk
    BY DEF MainInit, Init, IoInit, IntactInv, Wrote, Confined, Own, OwnData,
       Earlier, Intact, BufIntact, Settled, NoMismatchOnGoodDisk
  <2> QED
    BY <2>1, <2>2
<1>2. IInv /\ [MainNext]_allVars => NoMismatchOnGoodDisk'
  <2> SUFFICES ASSUME IInv, [MainNext]_allVars, exit' = "mismatch", Innocent'
               PROVE  FALSE
    BY DEF NoMismatchOnGoodDisk, Innocent, GoodPlace, RoundDown
  <2>1. rots = 0
    <3>1. rots' = 0 /\ rots \in Nat
      BY DEF Innocent, Below, Base, TypeOK, IoTypeOK
    <3> QED
      BY <3>1, StepBelow, RotsGrow DEF EarlierRun
  <2>2. CASE exit = "mismatch" /\ UNCHANGED <<wr, before, start, aSeek, aMax>>
    BY <2>1, <2>2 DEF NoMismatchOnGoodDisk, Innocent, GoodPlace, RoundDown
  <2>3. CASE Fail
    <3>1. /\ UNCHANGED <<wr, before, start, aSeek, aMax>>
          /\ mpc \in {"write", "verify"} /\ res = "mismatch"
      BY <2>3 DEF Fail, argsVars
    <3>2. Innocent /\ mpc = "verify"
      BY <2>1, <3>1 DEF Innocent, GoodPlace, RoundDown, Below, OnlyVerify,
         MainBase, Control
    <3> QED
      BY <3>1, <3>2 DEF IntactInv, BufIntact, BufRight
  <2>4. exit = "mismatch" => mpc = "exit"
    BY DEF MainBase, Control
  <2> QED
    BY <2>2, <2>3, <2>4 DEF MainNext, allVars, mainVars, argsVars, EarlierRun,
       ParseArgs, StartRound, VerifyWritten, EndRound, Succeed, SetAbort,
       DisktestStep, Exited
<1>3. IInv /\ [MainNext]_allVars => IInv'
  BY <1>2, MainBaseNext, BelowNext, WroteNext, ConfinedNext, OwnNext,
     EarlierNext, IntactNext DEF Below, IntactInv
<1> QED
  BY <1>1, <1>3, PTL DEF MainSpec

=============================================================================
