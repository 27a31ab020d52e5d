--------------------------- MODULE VerifyPipeline ---------------------------
(***************************************************************************)
(* The verification pipeline (internal/verify): Engine.Verify walks the    *)
(* stages in order, skips what the policy does not require, stops at the   *)
(* first failure, and refuses to pass a change nothing was measured of.    *)
(* The AST stage keeps a cache over the whole life of the engine, keyed by *)
(* path and a 32-bit hash of the content, which two contents may share.    *)
(* Files change between verifications and during one.                      *)
(*                                                                         *)
(* A content is a kind: "fine", "broken" (does not parse), "todo" (parses, *)
(* a TODO without an owner), "gone" (no such file) or "locked" (it cannot  *)
(* be read).  What gofmt and the go command answer is a choice.            *)
(***************************************************************************)
EXTENDS Naturals, Sequences, FiniteSets

CONSTANTS
    CheckedFiles, \* the files of the tree
    GoFiles,      \* those languageOf calls go
    VendorFiles,  \* those under vendor/
    HashOf,       \* hashContent: HashOf[f][c] for the text of kind c of file f
    Policies,     \* the policies callers pass: [required, lint]
    MaxVerifies   \* bound: verifications begun

Stages == <<"ast", "format", "lint", "typecheck", "build", "tests", "policy">>
StageNames == {Stages[i] : i \in DOMAIN Stages}
Contents == {"fine", "broken", "todo", "gone", "locked"}

ASSUME VerifyAssumption ==
    /\ GoFiles \subseteq CheckedFiles /\ VendorFiles \subseteq CheckedFiles
    /\ \A p \in Policies : p.required \subseteq StageNames /\ p.lint \in {"error", "warning"}
    /\ HashOf \in [CheckedFiles -> [Contents -> Nat]]
    /\ MaxVerifies \in Nat

VARIABLES
    content,  \* the tree
    astCache, \* FileCache: the <<file, hash>> pairs recorded as valid
    change,   \* the files of the change under verification
    policy,   \* its policy
    stageAt,  \* the next stage, 0 when no verification is in progress
    statuses, \* the stage results published so far: <<stage, status>>
    signals,  \* stages that measured something
    readAs,   \* what the AST stage read of each file
    verdict,  \* the last verdict
    verifies  \* verifications begun

verifyVars == <<content, astCache, change, policy, stageAt, statuses, signals, readAs, verdict, verifies>>

NoVerdict == [pass |-> FALSE, stage |-> "none", severity |-> "none"]

VerifyInit ==
    /\ content \in [CheckedFiles -> {"fine", "gone"}]
    /\ astCache = {} /\ change = {} /\ policy \in Policies
    /\ stageAt = 0 /\ statuses = <<>> /\ signals = 0
    /\ readAs = [f \in CheckedFiles |-> "unread"]
    /\ verdict = NoVerdict /\ verifies = 0

Parses(f, c) == f \notin GoFiles \/ c # "broken"
OnDisk == {f \in change : content[f] # "gone"}

-----------------------------------------------------------------------------
\* The stages

CacheKey(f, c) == <<f, HashOf[f][c]>>

\* MUTANT: the cache forgets which content it saw.
CachedByPath(f, c) == \E d \in Contents : CacheKey(f, d) \in astCache

Cached(f, c) == CacheKey(f, c) \in astCache

\* Files are taken in order and an unreadable one ends the stage, with what was
\* validated before it recorded: done is that prefix. Only valid results are recorded.
AstStage ==
    \E done \in SUBSET OnDisk :
        LET parsed == {f \in done : ~ Cached(f, content[f])}
            bad    == {f \in parsed : ~ Parses(f, content[f])}
            locked == \E f \in OnDisk : content[f] = "locked"
            status == IF change = {} THEN "skip"
                      ELSE IF locked \/ bad # {} THEN "fail"
                      ELSE IF parsed # {} THEN "pass"
                      ELSE IF done # {} THEN "cached" ELSE "skip"
        IN  /\ \A f \in done : content[f] # "locked"
            /\ locked \/ done = OnDisk
            /\ astCache' = astCache \union {CacheKey(f, content[f]) : f \in parsed \ bad}
            /\ readAs' = [f \in CheckedFiles |->
                            IF f \in change THEN content[f] ELSE "unread"]
            /\ statuses' = Append(statuses, <<"ast", status>>)

\* The matrix of toolLangs: a command stage runs when some file is in its language.
HasTool == change \intersect GoFiles # {}

\* What a command stage may answer when it has something to run on. gofmt's exit
\* code is not looked at; a test run that exceeds its timeout is a warning.
CommandStatus(st) ==
    IF ~ HasTool THEN {"skip"}
    ELSE CASE st = "format" -> {"pass", "warn", "fail"}
           [] st = "lint"   -> IF policy.lint = "warning" THEN {"pass", "fail"} ELSE {"pass", "warn", "fail"}
           [] st \in {"typecheck", "build"} -> {"pass", "fail"}
           [] st = "tests"  -> {"pass", "warn", "fail"}

CommandStage(st) ==
    /\ \E s \in CommandStatus(st) : statuses' = Append(statuses, <<st, s>>)
    /\ UNCHANGED <<astCache, readAs>>

\* The rules in their levels: vendor edits fail, TODOs without an owner warn.
PolicyStatus ==
    CASE change = {} -> "skip"
      [] change \intersect VendorFiles # {} -> "fail"
      [] change \intersect VendorFiles = {} /\ \E f \in change : content[f] = "todo" -> "warn"
      [] OTHER -> "pass"

PolicyStage ==
    /\ statuses' = Append(statuses, <<"policy", PolicyStatus>>)
    /\ UNCHANGED <<astCache, readAs>>

-----------------------------------------------------------------------------
\* Engine.Verify

\* A cache hit re-uses a real measurement.
Measured(status) == status # "skip"

Required == policy.required \union {"policy"}

BeginVerify(files, pol) ==
    /\ stageAt = 0 /\ verifies < MaxVerifies
    /\ change' = files /\ policy' = pol
    /\ stageAt' = 1 /\ statuses' = <<>> /\ signals' = 0
    /\ readAs' = [f \in CheckedFiles |-> "unread"]
    /\ verdict' = NoVerdict
    /\ verifies' = verifies + 1
    /\ UNCHANGED <<content, astCache>>

\* A stage the policy does not ask for is published as skipped.
SkipStage ==
    /\ stageAt \in DOMAIN Stages /\ Stages[stageAt] \notin Required
    /\ statuses' = Append(statuses, <<Stages[stageAt], "skip">>)
    /\ stageAt' = stageAt + 1
    /\ UNCHANGED <<content, astCache, change, policy, signals, readAs, verdict, verifies>>

\* A required stage runs; a failure is the verdict and ends the walk.
RunStage ==
    /\ stageAt \in DOMAIN Stages /\ Stages[stageAt] \in Required
    /\ LET st == Stages[stageAt]
       IN  CASE st = "ast" -> AstStage
             [] st = "policy" -> PolicyStage
             [] OTHER -> CommandStage(st)
    /\ LET s == statuses'[Len(statuses')][2]
       IN  /\ signals' = IF Measured(s) THEN signals + 1 ELSE signals
           /\ IF s = "fail"
              THEN /\ verdict' = [pass |-> FALSE, stage |-> Stages[stageAt], severity |-> "fail"]
                   /\ stageAt' = 0
              ELSE verdict' = verdict /\ stageAt' = stageAt + 1
    /\ UNCHANGED <<content, change, policy, verifies>>

FirstRequired == Stages[CHOOSE i \in DOMAIN Stages : /\ Stages[i] \in Required
                                                     /\ \A j \in 1 .. i - 1 : Stages[j] \notin Required]

\* All stages are through: no signal at all is a failure of the first required
\* one, otherwise the change passes, with the warnings it collected.
EndVerify ==
    /\ stageAt > Len(Stages)
    /\ verdict' = IF signals = 0
                  THEN [pass |-> FALSE, stage |-> FirstRequired, severity |-> "fail"]
                  ELSE [pass |-> TRUE, stage |-> "ast",
                        severity |-> IF \E i \in DOMAIN statuses : statuses[i][2] = "warn"
                                     THEN "warn" ELSE "pass"]
    /\ stageAt' = 0
    /\ UNCHANGED <<content, astCache, change, policy, statuses, signals, readAs, verifies>>

\* The user, a tool or another agent changes the tree, at any time.
EditContent(f, c) ==
    /\ content' = [content EXCEPT ![f] = c]
    /\ UNCHANGED <<astCache, change, policy, stageAt, statuses, signals, readAs, verdict, verifies>>

VerifyNext ==
    \/ \E files \in SUBSET CheckedFiles, pol \in Policies : BeginVerify(files, pol)
    \/ SkipStage \/ RunStage \/ EndVerify
    \/ \E f \in CheckedFiles, c \in Contents : EditContent(f, c)

VerifySpec == VerifyInit /\ [][VerifyNext]_verifyVars

-----------------------------------------------------------------------------
\* Properties

VerifyTypeOK ==
    /\ content \in [CheckedFiles -> Contents]
    /\ astCache \subseteq {CacheKey(f, c) : f \in CheckedFiles, c \in Contents}
    /\ change \subseteq CheckedFiles /\ policy \in Policies
    /\ stageAt \in 0 .. Len(Stages) + 1 /\ signals \in 0 .. Len(Stages)
    /\ \A i \in DOMAIN statuses : statuses[i][1] = Stages[i]

\* A change passes only when something was measured of it: never an empty
\* change, never with a file that could not be read, and each file, as it was read
\* in this verification, parses or has the hash of one that was recorded as valid.
VouchedFor(f, c) == c # "locked" /\ (Parses(f, c) \/ CacheKey(f, c) \in astCache)

PassIsMeasured ==
    verdict.pass =>
        /\ change # {}
        /\ \E i \in DOMAIN statuses : statuses[i][2] # "skip"
        /\ "ast" \in policy.required =>
              \A f \in change : VouchedFor(f, readAs[f])

\* The walk stops where it fails: no stage after a failure is run, the verdict
\* names that stage, and a change that touches vendor/ never passes whatever
\* the other stages and the policy say.
FailureIsFirst ==
    /\ \A i \in DOMAIN statuses : statuses[i][2] = "fail" =>
          i = Len(statuses) /\ ~ verdict.pass /\ verdict.stage = statuses[i][1]
    /\ verdict.pass => change \intersect VendorFiles = {}

\* What the cache holds is the hash of a text of its file that parses, whatever
\* happened to the file.
CacheIsValid ==
    \A e \in astCache : \E f \in CheckedFiles, c \in Contents \ {"gone", "locked"} :
        e = CacheKey(f, c) /\ Parses(f, c)

VerifySound == PassIsMeasured /\ FailureIsFirst /\ CacheIsValid

\* Two texts of a file with one hash (cache.go:42-46 accepts them): without any, a
\* change whose files do not parse never passes; with one, this does not hold.
HashesApart == \A f \in CheckedFiles : \A c, d \in Contents : HashOf[f][c] = HashOf[f][d] => c = d

BrokenNeverPasses ==
    verdict.pass /\ "ast" \in policy.required => \A f \in change : Parses(f, readAs[f])
=============================================================================
