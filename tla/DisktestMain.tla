---------------------------- MODULE DisktestMain ----------------------------
(***************************************************************************)
(* The disktest program: CliArgs::into_args (disktest/src/args.rs) and     *)
(* main() (disktest/src/main.rs), which calls Disktest::write and          *)
(* Disktest::verify round after round until one fails.                     *)
(*                                                                         *)
(* A disk may hold the pattern of a run of disktest before this one.       *)
(***************************************************************************)
EXTENDS Disktest

CONSTANT U64Max  \* u64::MAX

ASSUME MainAssumption ==
  /\ U64Max \in Nat \ {0}
  /\ Rounds = 0 .. U64Max

VARIABLES
  mpc,             \* "args", "rounds", "write", "verify" or "exit"
  wr, vf,          \* args.write and args.verify
  aSeek, aMax,     \* args.seek and args.max_bytes
  start, rounds,   \* args.start_round and args.rounds
  rnd,             \* the variable of the loop
  exit,            \* how the program has ended, "none" before it has
  \* history
  before,          \* round the disk held the pattern of before, or -1
  tested,          \* rounds that have passed, their verify() on a cold cache
  abortRound       \* round in which the abort flag was set, or -1

argsVars == <<wr, vf, aSeek, aMax, start, rounds>>
mainVars == <<mpc, argsVars, rnd, exit, before, tested, abortRound>>
allVars  == <<vars, mainVars>>

MainInit ==
  /\ Init
  /\ mpc = "args" /\ wr = FALSE /\ vf = FALSE /\ aSeek = 0 /\ aMax = 0
  /\ start = 0 /\ rounds = 0 /\ rnd = 0 /\ exit = "none"
  /\ before = -1 /\ tested = {} /\ abortRound = -1

\* Another run has written round r before this one.
EarlierRun(r) ==
  /\ mpc = "args" /\ before = -1
  /\ before' = r
  /\ medium' = [b \in Blocks |-> Pat(r, b)]
  /\ len' = Capacity
  /\ UNCHANGED <<kind, cache, dirty, wbErr, handle, fpos, errs, rots, late,
                 pc, argVars, runVars, res, fileVars, abort, calls, stored,
                 mpc, argsVars, rnd, exit, tested, abortRound>>

-----------------------------------------------------------------------------
(* into_args() *)

\* Mutant: a start round beyond the last one is let through.
RoundsOf_Plain(r, s) == IF r = 0 THEN U64Max ELSE r

\* Mutant: rounds are counted from the start round on.
RoundsOf_Count(r, s) == s + r

\* rounds = 0 stands for no end; the start round is always run.
RoundsOf(r, s) ==
  LET n == IF r = 0 THEN U64Max ELSE r
  IN  IF s >= n THEN (s + 1) % (U64Max + 1) ELSE n

\* The options -w, -v, -S, -s, -b, -R and --start-round.
ParseArgs(w, v, seed, s, m, r, sr) ==
  /\ mpc = "args"
  /\ wr' = w
  /\ vf' = (v \/ ~w)
  /\ aSeek' = s /\ aMax' = m
  /\ start' = sr /\ rnd' = sr
  /\ rounds' = RoundsOf(r, sr)
  /\ \/ /\ ~seed /\ vf' /\ ~wr'
        /\ mpc' = "exit" /\ exit' = "usage"
     \/ /\ seed \/ ~vf' \/ wr'
        /\ mpc' = "rounds"
        /\ UNCHANGED exit
  /\ UNCHANGED <<vars, before, tested, abortRound>>

-----------------------------------------------------------------------------
(* The rounds *)

\* Mutant: each round has its pattern in all modes.
RoundId_Each == rnd

\* The round_id the pattern depends on.
RoundId == IF wr THEN rnd ELSE start

StartRound ==
  /\ mpc = "rounds" /\ rnd < rounds
  /\ IF wr THEN Call("write", RoundId, aSeek, aMax) /\ mpc' = "write"
           ELSE Call("verify", RoundId, aSeek, aMax) /\ mpc' = "verify"
  /\ UNCHANGED <<argsVars, rnd, exit, before, tested, abortRound>>

\* write() has returned Ok, and is to be verified.
VerifyWritten ==
  /\ mpc = "write" /\ pc = "idle" /\ res = "ok" /\ vf
  /\ Call("verify", RoundId, aSeek, aMax)
  /\ mpc' = "verify"
  /\ UNCHANGED <<argsVars, rnd, exit, before, tested, abortRound>>

EndRound ==
  /\ pc = "idle" /\ res = "ok"
  /\ mpc = "verify" \/ (mpc = "write" /\ ~vf)
  /\ mpc' = "rounds"
  /\ rnd' = rnd + 1
  /\ tested' = IF mpc = "verify" /\ cold THEN tested \cup {rnd} ELSE tested
  /\ UNCHANGED <<vars, argsVars, exit, before, abortRound>>

\* A call fails, or the process is aborted by a panic.
Fail ==
  /\ mpc \in {"write", "verify"}
  /\ \/ pc = "idle" /\ res # "ok" /\ exit' = res
     \/ pc = "dead" /\ exit' = "panic"
  /\ mpc' = "exit"
  /\ UNCHANGED <<vars, argsVars, rnd, before, tested, abortRound>>

Succeed ==
  /\ mpc = "rounds" /\ rnd >= rounds
  /\ mpc' = "exit" /\ exit' = "ok"
  /\ UNCHANGED <<vars, argsVars, rnd, before, tested, abortRound>>

\* The signal handlers are installed after the options are parsed.
SetAbort ==
  /\ mpc \in {"rounds", "write", "verify"}
  /\ Signal
  /\ abortRound' = rnd
  /\ UNCHANGED <<mpc, argsVars, rnd, exit, before, tested>>

DisktestStep ==
  /\ Program \/ (mpc # "exit" /\ Environment)
  /\ UNCHANGED mainVars

Exited ==
  /\ mpc = "exit"
  /\ UNCHANGED allVars

MainNext ==
  \/ \E r \in Rounds : EarlierRun(r)
  \/ \E w, v, seed \in BOOLEAN, s \in Seeks, m \in Sizes, r \in 0 .. U64Max,
        sr \in 0 .. U64Max - 1 : ParseArgs(w, v, seed, s, m, r, sr)
  \/ StartRound \/ VerifyWritten \/ EndRound \/ Fail \/ Succeed
  \/ SetAbort
  \/ DisktestStep
  \/ Exited

MainSpec == MainInit /\ [][MainNext]_allVars

-----------------------------------------------------------------------------
(* Properties *)

MainTypeOK ==
  /\ TypeOK
  /\ mpc \in {"args", "rounds", "write", "verify", "exit"}
  /\ wr \in BOOLEAN /\ vf \in BOOLEAN
  /\ aSeek \in Nat /\ aMax \in 0 .. Unlimited
  /\ start \in 0 .. U64Max - 1 /\ rounds \in 0 .. U64Max
  /\ rnd \in 0 .. U64Max
  /\ tested \subseteq 0 .. U64Max - 1
  /\ before \in Rounds \cup {-1} /\ abortRound \in Rounds \cup {-1}

\* "Success!" is never for nothing: at least the start round has been run; with
\* --verify it was read from the medium, none of it from RAM; with --write and
\* --verify every round has been written and has been read back like that.
SuccessMeansTested ==
  exit = "ok" =>
    /\ rnd > start
    /\ vf => start \in tested
    /\ wr /\ vf => tested = start .. rounds - 1

\* With --write and --verify a fake disk does not pass, whatever it held
\* before.
FakeNeverSucceeds ==
  exit = "ok" /\ wr /\ vf /\ aMax = Unlimited /\ kind = "blk"
    => Capacity - RoundDown(aSeek) <= Real

\* On a good disk, or in the part of a fake one that is real, there is no
\* mismatch: neither after --write nor when the disk holds the pattern of the
\* start round, however many rounds are verified.
NoMismatchOnGoodDisk ==
  /\ Real = Capacity \/ RoundDown(aSeek) + aMax <= Real
  /\ rots = 0
  /\ wr \/ before = start
  => exit # "mismatch"

\* "the Disktest process will abort as soon as possible" once the abort flag
\* is set (disktest-lib/src/disktest.rs:210): at least, a round that begins
\* after that does not succeed.
AbortStopsRounds == abortRound # -1 => rnd <= abortRound + 1

=============================================================================
