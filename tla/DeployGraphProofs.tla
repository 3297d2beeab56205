------------------------- MODULE DeployGraphProofs -------------------------
(* Theorems about the commands on the whole graph, for any graph, hooks and
   commands, whatever fails and whatever others do meanwhile: what mainnet is
   guarded by, what a single deploy knows of its wasm and its dependencies, and what
   a whole deploy leaves on chain. *)
EXTENDS DeployGraph, DeployOrderProofs

(* The steps between the answer and the last transaction, but for the build of a
   regression, which nobody may have been asked about. *)
Working == {"guard", "order", "graph", "verify", "contract", "wire", "hooks",
            "upload", "upgrade", "invoke"}
Asked == Working \cup {"record"}

Guarded == IsMainnet =>
  /\ run.sent \in {0, 1}
  /\ run.sent = 1 => run.consented
  /\ run.at \in {"idle", "confirm", "build"} => run.sent = 0
  /\ run.at = "build" => run.consented \/ "deploy" \in run.lapsed
  /\ run.at \in Asked => run.consented
  /\ run.at \in Working => run.sent = 0

GuardInv == /\ config \in Config
            /\ DOMAIN run = DOMAIN NoRun
            /\ run.tries \in Nat
            /\ run.at = "confirm" => cmd.kind \in Kind \ {"smoke"}
            /\ Guarded

LEMMA GuardInvInit == Init => GuardInv
  BY DEF Init, OrderInit, GuardInv, Guarded, NoRun, Asked, Working

(* Mainnet allows one attempt. *)
LEMMA NoRetry == GuardInv /\ IsMainnet => ~Retry
  BY DEF GuardInv, Retry, MaxAttempts

LEMMA ExitKeeps == GuardInv /\ Exit => GuardInv'
  BY DEF Exit, GuardInv, Guarded, NoRun, Asked, Working, IsMainnet

(* A step whose transactions are over, or that has none. *)
LEMMA RestKeeps ==
  ASSUME GuardInv, config' = config,
         DOMAIN run' = DOMAIN NoRun, run'.tries \in Nat,
         run'.at \notin {"idle", "confirm", "build"},
         run.consented => run'.consented,
         run'.sent \in {0, run.sent},
         run'.at \in Asked => run.at \in Asked,
         run'.at \in Working => run.at \in Working \/ run'.sent = 0
  PROVE  GuardInv'
<1>1. IsMainnet' <=> IsMainnet
  BY DEF IsMainnet
<1>2. Guarded'
  <2>1. SUFFICES ASSUME IsMainnet
                 PROVE  /\ run'.sent \in {0, 1}
                        /\ run'.sent = 1 => run'.consented
                        /\ run'.at \in Asked => run'.consented
                        /\ run'.at \in Working => run'.sent = 0
    BY <1>1 DEF Guarded
  <2>2. /\ run.sent \in {0, 1}
        /\ run.sent = 1 => run.consented
        /\ run.at \in Asked => run.consented
        /\ run.at \in Working => run.sent = 0
    BY <2>1 DEF GuardInv, Guarded
  <2> QED
    BY <2>1, <2>2
<1> QED
  BY <1>2 DEF GuardInv

LEMMA StartKeeps == GuardInv /\ Start => GuardInv'
<1> SUFFICES ASSUME GuardInv, Start PROVE GuardInv'
  OBVIOUS
<1>1. config' = config /\ config \in Config
  BY DEF Start, Select, GuardInv
<1>2. PICK c \in Commands[config] :
        /\ cmd' = c
        /\ Goto(IF c.kind = "smoke" THEN "smoke"
                ELSE IF c.kind = "wire" /\ Hooks = <<>> THEN "done"
                ELSE "confirm")
  BY DEF Start
<1>3. c.kind \in Kind
  BY <1>1, GraphAssumption DEF Command
<1>4. /\ run.at = "idle"
      /\ run' = [run EXCEPT !.at = run'.at]
      /\ run'.at \in {"smoke", "done", "confirm"}
      /\ run'.at = "confirm" => c.kind # "smoke"
  BY <1>2 DEF Start, At, Goto, GuardInv, NoRun
<1>5. DOMAIN run' = DOMAIN NoRun /\ run'.tries = run.tries /\ run'.sent = run.sent
  BY <1>4 DEF GuardInv, NoRun
<1> QED
  BY <1>1, <1>2, <1>3, <1>4, <1>5 DEF GuardInv, Guarded, Asked, Working, IsMainnet

LEMMA ConfirmKeeps == GuardInv /\ Confirm => GuardInv'
<1> SUFFICES ASSUME GuardInv, Confirm PROVE GuardInv'
  OBVIOUS
<1>1. config' = config /\ cmd' = cmd
  BY DEF Confirm, orderVars
<1>2. cmd.kind \in {"deploy", "wire", "upgrade", "invoke", "regression"}
  BY DEF Confirm, At, GuardInv, Kind
<1>3. FirstStep(cmd.kind) \in Working \cup {"build"}
  BY <1>2 DEF FirstStep, Working
<1>4. /\ run'.at = FirstStep(cmd.kind)
      /\ run'.consented = RequiresConfirmation
      /\ run'.sent = run.sent
      /\ run'.tries = run.tries
      /\ DOMAIN run' = DOMAIN NoRun
  BY DEF Confirm, GuardInv, NoRun
<1>5. IsMainnet => run.sent = 0
  BY DEF Confirm, At, GuardInv, Guarded
<1>6. IsMainnet' = IsMainnet /\ (IsMainnet => RequiresConfirmation)
  BY <1>1 DEF IsMainnet, RequiresConfirmation
<1> QED
  BY <1>1, <1>3, <1>4, <1>5, <1>6 DEF GuardInv, Guarded, Asked, Working

LEMMA BuildKeeps ==
  GuardInv /\ (SkipDeploy \/ Build \/ (SkipStep /\ At("build"))) => GuardInv'
<1> SUFFICES ASSUME GuardInv, config' = config, cmd' = cmd,
                    SkipDeploy \/ Build \/ (SkipStep /\ At("build"))
             PROVE  GuardInv'
  BY DEF SkipDeploy, Build, SkipStep, orderVars
<1>1. DOMAIN run = DOMAIN NoRun /\ run.tries \in Nat
  BY DEF GuardInv
<1>2. IsMainnet' <=> IsMainnet
  BY DEF IsMainnet
<1>3. CASE SkipDeploy
  <2>1. /\ DOMAIN run' = DOMAIN NoRun /\ run'.tries = run.tries /\ run'.sent = run.sent
        /\ run'.at = "build" /\ run'.lapsed = {"deploy"} /\ run.at = "confirm"
    BY <1>1, <1>3 DEF SkipDeploy, At, NoRun
  <2>2. Guarded'
    BY <1>2, <2>1 DEF GuardInv, Guarded, Asked, Working
  <2> QED
    BY <2>1, <2>2 DEF GuardInv
<1>4. CASE Build \/ (SkipStep /\ At("build"))
  <2>1. At("build") /\ run' = [run EXCEPT !.at = BuildLeadsTo]
    BY <1>4 DEF Build, SkipStep, Goto, At
  <2>2. /\ DOMAIN run' = DOMAIN NoRun /\ run'.tries = run.tries /\ run'.sent = run.sent
        /\ run'.consented = run.consented /\ run.at = "build"
        /\ run'.at = "generate" \/ (run'.at = "order" /\ "deploy" \notin run.lapsed)
    BY <1>1, <2>1 DEF BuildLeadsTo, At, NoRun
  <2>3. Guarded'
    BY <1>2, <2>2 DEF GuardInv, Guarded, Asked, Working
  <2> QED
    BY <2>2, <2>3 DEF GuardInv
<1> QED
  BY <1>3, <1>4

(* A step that submits a transaction is the last, or followed by a record. *)
LEMMA SendKeeps ==
  ASSUME GuardInv, config' = config, run.at \in Working,
         DOMAIN run' = DOMAIN NoRun, run'.tries \in Nat,
         run'.at \in {"record", "upgraded", "done"},
         run.consented => run'.consented,
         run'.sent = run.sent + 1
  PROVE  GuardInv'
<1>1. IsMainnet' <=> IsMainnet
  BY DEF IsMainnet
<1>2. IsMainnet => run.consented /\ run.sent = 0
  BY DEF GuardInv, Guarded, Asked
<1>3. Guarded'
  BY <1>1, <1>2 DEF Guarded, Working
<1> QED
  BY <1>3 DEF GuardInv

(* Off mainnet anything may be tried again. *)
LEMMA TestKeeps ==
  ASSUME GuardInv, ~IsMainnet, config' = config,
         DOMAIN run' = DOMAIN NoRun, run'.tries \in Nat, run'.at # "confirm"
  PROVE  GuardInv'
  BY DEF GuardInv, Guarded, IsMainnet

-----------------------------------------------------------------------------

LEMMA GraphKeeps ==
  GuardInv /\ (\/ PassGuard \/ Sorted \/ Skip \/ Iterate \/ Verify \/ HashWasm \/ Record
               \/ Deployed \/ LeaveOut \/ SkipStep)
    => GuardInv'
<1> SUFFICES ASSUME GuardInv, config' = config,
                    \/ PassGuard \/ Sorted \/ Skip \/ Iterate \/ Verify \/ HashWasm \/ Record
                    \/ Deployed \/ LeaveOut \/ SkipStep
             PROVE  GuardInv'
  BY DEF PassGuard, Sorted, Skip, Iterate, Verify, HashWasm, Record, Deployed, LeaveOut,
         SkipStep, orderVars
<1> USE DEF At, Goto, Continue, NoRun, Asked, Working
<1>1. DOMAIN run = DOMAIN NoRun /\ run.tries \in Nat
  BY DEF GuardInv
<1>2. CASE PassGuard \/ Sorted
  BY <1>1, <1>2, RestKeeps DEF PassGuard, Sorted
<1>7. CASE Skip
  BY <1>1, <1>7, RestKeeps DEF Skip
<1>8. CASE Iterate
  BY <1>1, <1>8, RestKeeps DEF Iterate
<1>9. CASE Verify
  BY <1>1, <1>9, RestKeeps DEF Verify
<1>3. CASE HashWasm
  <2>1. \/ run' = Continue
        \/ run' = [run EXCEPT !.at = "contract", !.rebuilt = FALSE, !.hashed = NewHash(Current)]
    BY <1>3 DEF HashWasm
  <2> QED
    BY <1>1, <1>3, <2>1, RestKeeps DEF HashWasm
<1>4. CASE Record
  BY <1>1, <1>4, RestKeeps DEF Record
<1>5. CASE Deployed
  <2>1. \/ run' = [run EXCEPT !.at = "wire"]
        \/ run' = [run EXCEPT !.at = "generate", !.lapsed = {"wire", "env"}]
    BY <1>5 DEF Deployed
  <2> QED
    BY <1>1, <1>5, <2>1, RestKeeps DEF Deployed
<1>6. CASE LeaveOut
  <2>1. \/ run' = [run EXCEPT !.at = "env", !.lapsed = {"wire"}]
        \/ run' = [run EXCEPT !.at = "generate", !.lapsed = @ \cup {"env"}]
        \/ run' = [run EXCEPT !.at = "done", !.lapsed = @ \cup {"bindings"}]
    BY <1>6 DEF LeaveOut
  <2>2. CASE run' = [run EXCEPT !.at = "env", !.lapsed = {"wire"}]
    BY <1>1, <2>2, RestKeeps
  <2>3. CASE run' = [run EXCEPT !.at = "generate", !.lapsed = @ \cup {"env"}]
    BY <1>1, <2>3, RestKeeps
  <2>4. CASE run' = [run EXCEPT !.at = "done", !.lapsed = @ \cup {"bindings"}]
    BY <1>1, <2>4, RestKeeps
  <2> QED
    BY <2>1, <2>2, <2>3, <2>4
<1>10. CASE SkipStep
  <2>1. \/ At("build")
        \/ run' = [run EXCEPT !.at = "smoke", !.lapsed = @ \cup {"bindings"}]
        \/ run' = [run EXCEPT !.at = "done"]
    BY <1>10 DEF SkipStep
  <2>2. CASE At("build")
    BY <1>10, <2>2, BuildKeeps
  <2>3. CASE run' = [run EXCEPT !.at = "smoke", !.lapsed = @ \cup {"bindings"}]
    BY <1>1, <2>3, RestKeeps
  <2>4. CASE run' = [run EXCEPT !.at = "done"]
    BY <1>1, <2>4, RestKeeps
  <2> QED
    BY <2>1, <2>2, <2>3, <2>4
<1> QED
  BY <1>2, <1>3, <1>4, <1>5, <1>6, <1>7, <1>8, <1>9, <1>10

LEMMA FrontendKeeps ==
  GuardInv /\ (\/ ReadHooks \/ HookReads \/ Wired \/ SyncEnv \/ GenerateAll \/ Generated
               \/ \E n \in Name : Generate(n) \/ GenerateFails(n))
    => GuardInv'
<1> SUFFICES ASSUME GuardInv,
                    \/ ReadHooks \/ HookReads \/ Wired \/ SyncEnv \/ GenerateAll \/ Generated
                    \/ \E n \in Name : Generate(n) \/ GenerateFails(n)
             PROVE  GuardInv'
  OBVIOUS
<1> USE DEF At, Goto, NoRun, Asked, Working, orderVars
<1>1. DOMAIN run = DOMAIN NoRun /\ run.tries \in Nat
  BY DEF GuardInv
<1>2. CASE ReadHooks
  BY <1>1, <1>2, RestKeeps DEF ReadHooks
<1>3. CASE HookReads
  BY <1>1, <1>3, RestKeeps DEF HookReads, HookDue, NextHook
<1>4. CASE Wired
  <2>1. run' = [run EXCEPT !.at = "done"] \/ run' = [run EXCEPT !.at = "env"]
    BY <1>4 DEF Wired
  <2> QED
    BY <1>1, <1>4, <2>1, RestKeeps DEF Wired
<1>5. CASE SyncEnv
  BY <1>1, <1>5, RestKeeps DEF SyncEnv
<1>6. CASE GenerateAll
  <2>1. \/ Exit
        \/ run' = [run EXCEPT !.at = "bindings", !.todo = Targets] /\ config' = config
    BY <1>6 DEF GenerateAll
  <2> QED
    BY <1>1, <2>1, RestKeeps, ExitKeeps
<1>7. CASE Generated
  <2>1. /\ config' = config
        /\ \/ run' = [run EXCEPT !.at = "done"]
           \/ run' = [run EXCEPT !.at = "failed"]
           \/ run' = [run EXCEPT !.at = "smoke"]
    BY <1>7 DEF Generated
  <2> QED
    BY <1>1, <2>1, RestKeeps
<1>8. ASSUME NEW n \in Name, Generate(n) \/ GenerateFails(n) PROVE GuardInv'
  BY <1>1, <1>8, RestKeeps DEF Generate, GenerateFails, Generating
<1> QED
  BY <1>2, <1>3, <1>4, <1>5, <1>6, <1>7, <1>8

LEMMA CommandsKeep ==
  GuardInv /\ (BuildOne \/ Upload \/ RecordUpgrade \/ Smoke \/ SmokeEnds) => GuardInv'
<1> SUFFICES ASSUME GuardInv,
                    BuildOne \/ Upload \/ RecordUpgrade \/ Smoke \/ SmokeEnds
             PROVE  GuardInv'
  OBVIOUS
<1> USE DEF At, Goto, NoRun, Asked, Working, orderVars
<1>1. DOMAIN run = DOMAIN NoRun /\ run.tries \in Nat
  BY DEF GuardInv
<1>2. CASE BuildOne
  BY <1>1, <1>2, RestKeeps DEF BuildOne
<1>3. CASE Upload
  <2>1. \/ run' = [run EXCEPT !.at = "done"]
        \/ run' = [run EXCEPT !.at = "upgrade", !.hashed = Wasm(cmd.target)]
    BY <1>3 DEF Upload
  <2> QED
    BY <1>1, <1>3, <2>1, RestKeeps DEF Upload
<1>4. CASE RecordUpgrade
  BY <1>1, <1>4, RestKeeps DEF RecordUpgrade
<1>6. CASE Smoke
  <2>1. PICK lapsed : run' = [run EXCEPT !.hook = @ + 1, !.lapsed = lapsed]
    BY <1>6 DEF Smoke
  <2> QED
    BY <1>1, <1>6, <2>1, RestKeeps DEF Smoke
<1>7. CASE SmokeEnds
  <2>1. Exit \/ (run' = [run EXCEPT !.at = "done"] /\ config' = config)
    BY <1>7 DEF SmokeEnds
  <2> QED
    BY <1>1, <2>1, RestKeeps, ExitKeeps
<1> QED
  BY <1>2, <1>3, <1>4, <1>6, <1>7

LEMMA HookFailsKeeps ==
  ASSUME GuardInv, At("hooks"), HookFails(run) \/ HookFails(Called) PROVE GuardInv'
<1>1. \/ Exit
      \/ /\ config' = config
         /\ \/ run' = [run EXCEPT !.at = "env", !.lapsed = @ \cup {"wire"},
                                  !.tries = 0, !.sent = 0]
            \/ run' = [Called EXCEPT !.at = "env", !.lapsed = @ \cup {"wire"},
                                     !.tries = 0, !.sent = 0]
  BY DEF HookFails, orderVars
<1>2. DOMAIN run = DOMAIN NoRun
  BY DEF GuardInv
<1>3. ASSUME run' = [run EXCEPT !.at = "env", !.lapsed = @ \cup {"wire"}, !.tries = 0, !.sent = 0],
             config' = config
      PROVE  GuardInv'
  BY <1>2, <1>3, RestKeeps DEF NoRun, Asked, Working
<1>4. ASSUME run' = [Called EXCEPT !.at = "env", !.lapsed = @ \cup {"wire"}, !.tries = 0, !.sent = 0],
             config' = config
      PROVE  GuardInv'
  <2>1. /\ DOMAIN Called = DOMAIN NoRun
        /\ Called.consented = run.consented
    BY <1>2 DEF Called, NoRun
  <2>2. /\ DOMAIN run' = DOMAIN NoRun
        /\ run'.at = "env"
        /\ run'.tries = 0
        /\ run'.sent = 0
        /\ run'.consented = run.consented
    BY <1>4, <2>1 DEF NoRun
  <2> QED
    BY <1>4, <2>2, RestKeeps DEF Asked, Working
<1> QED
  BY <1>1, <1>3, <1>4, ExitKeeps

LEMMA HooksKeep ==
  GuardInv /\ (HookLands \/ HookLandsUnseen \/ HookRetries \/ HookThrows) => GuardInv'
<1> SUFFICES ASSUME GuardInv, HookLands \/ HookLandsUnseen \/ HookRetries \/ HookThrows
             PROVE  GuardInv'
  OBVIOUS
<1>1. DOMAIN run = DOMAIN NoRun /\ run.tries \in Nat /\ At("hooks")
  BY DEF GuardInv, HookLands, HookLandsUnseen, HookRetries, HookThrows, HookDue
<1>2. CASE HookLands
  <2>1. HookFails(Called) \/ (run' = NextHook(Called) /\ config' = config)
    BY <1>2 DEF HookLands, orderVars
  <2>2. ASSUME run' = NextHook(Called), config' = config PROVE GuardInv'
    BY <1>1, <2>2, RestKeeps DEF At, NextHook, Called, NoRun, Asked, Working
  <2> QED
    BY <1>1, <2>1, <2>2, HookFailsKeeps
<1>3. CASE HookLandsUnseen
  <2>1. \/ HookFails(Called)
        \/ Retry /\ run' = [Called EXCEPT !.tries = @ + 1] /\ config' = config
    BY <1>3 DEF HookLandsUnseen, orderVars
  <2>2. ASSUME Retry, run' = [Called EXCEPT !.tries = @ + 1], config' = config PROVE GuardInv'
    BY <1>1, <2>2, NoRetry, TestKeeps DEF At, Called, NoRun
  <2> QED
    BY <1>1, <2>1, <2>2, HookFailsKeeps
<1>4. CASE HookRetries
  BY <1>1, <1>4, NoRetry, TestKeeps DEF HookRetries, At, NoRun, orderVars
<1>5. CASE HookThrows
  BY <1>1, <1>5, HookFailsKeeps DEF HookThrows
<1> QED
  BY <1>2, <1>3, <1>4, <1>5

LEMMA TransactionsKeep ==
  GuardInv /\ (Deploys \/ DeploysUnseen \/ DeployRetries \/ Upgrades \/ UpgradesUnseen \/ Invoke)
    => GuardInv'
<1> SUFFICES ASSUME GuardInv, \/ Deploys \/ DeploysUnseen \/ DeployRetries
                              \/ Upgrades \/ UpgradesUnseen \/ Invoke
             PROVE  GuardInv'
  OBVIOUS
<1> USE DEF At, NoRun, orderVars
<1>1. DOMAIN run = DOMAIN NoRun /\ run.tries \in Nat
  BY DEF GuardInv
<1>2. CASE Deploys
  BY <1>1, <1>2, SendKeeps DEF Deploys, Working
<1>3. CASE DeploysUnseen
  BY <1>1, <1>3, NoRetry, TestKeeps DEF DeploysUnseen
<1>4. CASE DeployRetries
  BY <1>1, <1>4, NoRetry, TestKeeps DEF DeployRetries
<1>5. CASE Upgrades
  BY <1>1, <1>5, SendKeeps DEF Upgrades, Working
<1>6. CASE UpgradesUnseen
  <2>1. \/ Exit
        \/ /\ Retry
           /\ config' = config
           /\ run' = [run EXCEPT !.tries = @ + 1, !.sent = @ + 1]
    BY <1>6 DEF UpgradesUnseen
  <2>2. ASSUME Retry, config' = config, run' = [run EXCEPT !.tries = @ + 1, !.sent = @ + 1]
        PROVE  GuardInv'
    BY <1>1, <1>6, <2>2, NoRetry, TestKeeps DEF UpgradesUnseen
  <2> QED
    BY <2>1, <2>2, ExitKeeps
<1>7. CASE Invoke
  <2>1. \/ Exit
        \/ config' = config /\ run' = [run EXCEPT !.at = "done", !.sent = @ + 1]
    BY <1>7 DEF Invoke
  <2> QED
    BY <1>1, <1>7, <2>1, SendKeeps, ExitKeeps DEF Invoke, Working
<1> QED
  BY <1>2, <1>3, <1>4, <1>5, <1>6, <1>7

LEMMA ExitsKeep == GuardInv /\ (Refuse \/ Fails \/ Ends) => GuardInv'
  BY ExitKeeps DEF Refuse, Fails, Ends

LEMMA UnchangedKeeps == GuardInv /\ UNCHANGED <<run, cmd, config>> => GuardInv'
  BY DEF GuardInv, Guarded, IsMainnet

LEMMA SortKeeps == GuardInv /\ Sort => GuardInv'
<1>1. Sort => UNCHANGED <<run, cmd, config>>
  BY DEF Sort, Search, VisitRoot, VisitDependency, Leave, Loaded, Resolved
<1> QED
  BY <1>1, UnchangedKeeps

(* What others do meanwhile leaves the command where it is. *)
LEMMA OthersKeep ==
  ASSUME GuardInv, \/ \E n \in Name : Redeploy(n) \/ Rebuild(n)
                   \/ Reset
  PROVE  GuardInv'
<1>1. /\ config' = config /\ cmd' = cmd
      /\ \/ run' = run
         \/ run' = [run EXCEPT !.disturbed = TRUE]
         \/ run' = [run EXCEPT !.disturbed = TRUE, !.rebuilt = TRUE]
         \/ run' = [run EXCEPT !.disturbed = TRUE, !.reset = TRUE]
  BY DEF Redeploy, Rebuild, Reset, Disturb, orderVars
<1>2. DOMAIN run = DOMAIN NoRun
  BY DEF GuardInv
<1>3. /\ DOMAIN run' = DOMAIN NoRun
      /\ run'.at = run.at
      /\ run'.tries = run.tries
      /\ run'.sent = run.sent
      /\ run'.consented = run.consented
      /\ run'.lapsed = run.lapsed
  BY <1>1, <1>2 DEF NoRun
<1>4. IsMainnet' <=> IsMainnet
  BY <1>1 DEF IsMainnet
<1>5. Guarded'
  BY <1>3, <1>4 DEF GuardInv, Guarded
<1> QED
  BY <1>1, <1>3, <1>5 DEF GuardInv

LEMMA GuardInvNext == GuardInv /\ [Next]_vars => GuardInv'
<1> SUFFICES ASSUME GuardInv, [Next]_vars PROVE GuardInv'
  OBVIOUS
<1>1. CASE UNCHANGED vars
  BY <1>1, UnchangedKeeps DEF vars, orderVars
<1>2. CASE Start \/ Refuse
  BY <1>2, StartKeeps, ExitsKeep
<1>3. CASE Step
  BY <1>3, ConfirmKeeps, BuildKeeps, SortKeeps, ExitsKeep, GraphKeeps, FrontendKeeps, CommandsKeep,
     HooksKeep, TransactionsKeep DEF Step
<1>4. CASE (\E n \in Name : Redeploy(n) \/ Rebuild(n)) \/ Reset
  BY <1>4, OthersKeep
<1> QED
  BY <1>1, <1>2, <1>3, <1>4 DEF Next

(* Whatever is deployed, wired, upgraded, invoked or tested, for any graph, hooks
   and configuration and whatever fails: on mainnet nothing is submitted before
   the user has agreed, and nothing twice. *)
THEOREM MainnetAsksOnce == Spec => []MainnetIsGuarded
<1>1. GuardInv => MainnetIsGuarded
  BY DEF GuardInv, Guarded, MainnetIsGuarded
<1> QED
  BY <1>1, GuardInvInit, GuardInvNext, PTL DEF Spec
-----------------------------------------------------------------------------
(* A deploy of one contract: from the ids it reads to the record it leaves. *)
Attempt == {"verify", "contract", "record"}

IsSequence(s) == \E S : s \in Seq(S)

(* With --verify-deps the dependencies that have had their check exist, unless
   the network was reset after. *)
Checked == cmd.verify /\ ~run.reset =>
  \A d \in Deps(Current) :
    (\E i \in 1..Len(run.check) : run.check[i] = d) \/ Exists(run.snap[d])

ArgsResolved == \A m \in refs[Current] :
  m \in Name /\ (m \in Deps(Current) /\ cmd.verify /\ ~run.reset => Exists(run.snap[m]))

AttemptOK ==
  /\ At("verify") => run.check \in Seq(AnyName) /\ Checked
  /\ At("contract") => ArgsResolved /\ (~run.rebuilt => run.hashed = Wasm(Current))
  /\ At("record") => /\ run.got \in 1..Len(inst)
                     /\ ~run.rebuilt => inst[run.got].hash = run.hashed
                     /\ cmd.verify /\ ~run.reset =>
                          \A m \in Declared(Current) : inst[run.got].args[m] \notin gone \cup {0}

AttemptInv == /\ GuardInv
              /\ OrderInv
              /\ IsSequence(inst)
              /\ run.rest \in Seq(Name)
              /\ run.at \in Attempt => run.rest # <<>>
              /\ AttemptOK

LEMMA AttemptInit == Init => AttemptInv
<1> SUFFICES ASSUME Init PROVE AttemptInv
  OBVIOUS
<1>1. GuardInv /\ OrderInv
  BY GuardInvInit, OrderInvInit DEF Init
<1>2. run.rest \in Seq(Name) /\ run.at = "idle" /\ phase = "load"
  BY DEF Init, NoRun, OrderInit
<1>3. IsSequence(inst)
  <2>1. inst \in Seq({})
    BY DEF Init
  <2> QED
    BY <2>1, Zenon DEF IsSequence
<1> QED
  BY <1>1, <1>2, <1>3 DEF AttemptInv, Attempt, AttemptOK, At

(* What the arguments name depends on nothing but the configuration. *)
LEMMA SameRefs ==
  ASSUME config' = config
  PROVE  /\ refs' = refs /\ dependsOn' = dependsOn
         /\ \A n : Deps(n)' = Deps(n) /\ Declared(n)' = Declared(n)
<1>1. refs' = refs /\ dependsOn' = dependsOn
  BY DEF refs, whole, dependsOn
<1> QED
  BY <1>1 DEF Deps, Declared

(* A step that ends elsewhere than in an attempt. *)
LEMMA Elsewhere ==
  ASSUME AttemptInv, GuardInv', OrderInv',
         IsSequence(inst'), run'.rest \in Seq(Name), run'.at \notin Attempt
  PROVE  AttemptInv'
<1>1. AttemptOK'
  BY DEF AttemptOK, At, Attempt
<1> QED
  BY <1>1 DEF AttemptInv

LEMMA StayElsewhere ==
  ASSUME AttemptInv, GuardInv', UNCHANGED orderVars, IsSequence(inst'), run.at # "idle",
         run'.rest = run.rest, run'.at \notin Attempt
  PROVE  AttemptInv'
<1>1. OrderInv'
  BY OrderInvNext DEF AttemptInv
<1>2. run'.rest \in Seq(Name) /\ config' = config
  BY DEF AttemptInv, orderVars
<1> QED
  BY <1>1, <1>2, Elsewhere

LEMMA ExitAttempt ==
  ASSUME AttemptInv, GuardInv', Exit, IsSequence(inst'), run.at # "idle"
  PROVE  AttemptInv'
<1>1. config' = config /\ config \in Config
  BY DEF Exit, AttemptInv, OrderInv, OrderTypeOK
<1>2. OrderInv'
  <2>1. /\ stack' = <<>> /\ order' = <<>> /\ visited' = {} /\ error' = None
        /\ phase' = "loaded" /\ selected' = None /\ deep' = TRUE /\ roots' = Name
    BY DEF Exit
  <2>2. OrderTypeOK'
    BY <1>1, <2>1 DEF OrderTypeOK, AnyName
  <2> QED
    BY <2>1, <2>2 DEF OrderInv, Marked, Open, Descended, Preceded, Rests
<1>3. run'.rest = <<>> /\ run'.at = "idle"
  BY DEF Exit, NoRun
<1> QED
  BY <1>1, <1>2, <1>3, Elsewhere DEF Attempt

LEMMA AppendedIsSequence ==
  ASSUME NEW s, IsSequence(s), NEW e
  PROVE  /\ IsSequence(Append(s, e))
         /\ Len(s) \in Nat
         /\ Len(Append(s, e)) = Len(s) + 1
         /\ \A i \in 1..Len(s) : Append(s, e)[i] = s[i]
         /\ Append(s, e)[Len(s) + 1] = e
<1>1. PICK S : s \in Seq(S)
  BY Zenon DEF IsSequence
<1>2. s \in Seq(S \cup {e})
  BY <1>1
<1>3. Append(s, e) \in Seq(S \cup {e})
  BY <1>2
<1>4. IsSequence(Append(s, e))
  BY <1>3, Zenon DEF IsSequence
<1> QED
  BY <1>2, <1>4

LEMMA ReplacedIsSequence ==
  ASSUME NEW s, IsSequence(s), NEW i, NEW e
  PROVE  IsSequence([s EXCEPT ![i] = e])
<1>1. PICK S : s \in Seq(S)
  BY Zenon DEF IsSequence
<1>2. s \in Seq(S \cup {e})
  BY <1>1
<1>3. [s EXCEPT ![i] = e] \in Seq(S \cup {e})
  <2>1. CASE i \in 1..Len(s)
    BY <1>2, <2>1, ExceptSeq
  <2>2. CASE i \notin 1..Len(s)
    <3>1. [s EXCEPT ![i] = e] = s
      BY <1>2, <2>2
    <3> QED
      BY <1>2, <3>1
  <2> QED
    BY <2>1, <2>2
<1> QED
  BY <1>3, Zenon DEF IsSequence

(* What stays where it is or moves on without deploying. *)
LEMMA QuietAttempt ==
  ASSUME AttemptInv, GuardInv',
         \/ Confirm \/ PassGuard \/ Deployed \/ LeaveOut
         \/ ReadHooks \/ HookReads \/ HookRetries \/ Wired \/ SyncEnv
         \/ \E n \in Name : Generate(n) \/ GenerateFails(n)
         \/ BuildOne \/ Upload \/ RecordUpgrade \/ Build \/ Smoke \/ Generated
         \/ SkipDeploy \/ SkipStep
  PROVE  AttemptInv'
<1> USE DEF At, Goto, NoRun, Attempt
<1>1. /\ DOMAIN run = DOMAIN NoRun
      /\ IsSequence(inst)
  BY DEF AttemptInv, GuardInv
<1>2. CASE Confirm
  <2>2. FirstStep(cmd.kind) \notin Attempt
    <3>1. cmd.kind \in {"deploy", "wire", "upgrade", "invoke", "regression"}
      BY <1>2 DEF Confirm, AttemptInv, GuardInv, Kind
    <3> QED
      BY <3>1 DEF FirstStep
  <2> QED
    BY <1>1, <1>2, <2>2, StayElsewhere DEF Confirm, world
<1>3. CASE PassGuard \/ ReadHooks \/ SyncEnv
  <2>1. CASE PassGuard \/ ReadHooks
    BY <1>1, <2>1, StayElsewhere DEF PassGuard, ReadHooks, world
  <2>2. CASE SyncEnv
    BY <1>1, <2>2, StayElsewhere DEF SyncEnv, world
  <2> QED
    BY <1>3, <2>1, <2>2
<1>4. CASE Deployed
  <2>1. \/ run' = [run EXCEPT !.at = "wire"]
        \/ run' = [run EXCEPT !.at = "generate", !.lapsed = {"wire", "env"}]
    BY <1>4 DEF Deployed
  <2> QED
    BY <1>1, <1>4, <2>1, StayElsewhere DEF Deployed, world
<1>5. CASE LeaveOut
  <2>1. /\ run.at \in {"wire", "env", "generate"}
        /\ UNCHANGED <<orderVars, inst>>
        /\ \/ run' = [run EXCEPT !.at = "env", !.lapsed = {"wire"}]
           \/ run' = [run EXCEPT !.at = "generate", !.lapsed = @ \cup {"env"}]
           \/ run' = [run EXCEPT !.at = "done", !.lapsed = @ \cup {"bindings"}]
    BY <1>5 DEF LeaveOut, world
  <2> QED
    BY <1>1, <2>1, StayElsewhere
<1>6. CASE HookReads \/ HookRetries
  BY <1>1, <1>6, StayElsewhere DEF HookReads, HookRetries, HookDue, NextHook, world
<1>7. CASE Wired
  <2>1. run' = [run EXCEPT !.at = "done"] \/ run' = [run EXCEPT !.at = "env"]
    BY <1>7 DEF Wired
  <2> QED
    BY <1>1, <1>7, <2>1, StayElsewhere DEF Wired, world
<1>8. ASSUME NEW n \in Name, Generate(n) \/ GenerateFails(n) PROVE AttemptInv'
  BY <1>1, <1>8, StayElsewhere DEF Generate, GenerateFails, Generating, world
<1>9. CASE BuildOne \/ RecordUpgrade \/ Build \/ SkipDeploy
  BY <1>1, <1>9, StayElsewhere DEF BuildOne, RecordUpgrade, Build, BuildLeadsTo, SkipDeploy, world
<1>10. CASE Upload
  <2>1. \/ run' = [run EXCEPT !.at = "done"]
        \/ run' = [run EXCEPT !.at = "upgrade", !.hashed = Wasm(cmd.target)]
    BY <1>10 DEF Upload
  <2> QED
    BY <1>1, <1>10, <2>1, StayElsewhere DEF Upload, world
<1>11. CASE Smoke
  <2>1. PICK lapsed : run' = [run EXCEPT !.hook = @ + 1, !.lapsed = lapsed]
    BY <1>11 DEF Smoke
  <2> QED
    BY <1>1, <1>11, <2>1, StayElsewhere DEF Smoke, world
<1>12. CASE Generated
  <2>1. /\ UNCHANGED <<orderVars, inst>>
        /\ run.at = "bindings"
        /\ \E step \in {"done", "failed", "smoke"} : run' = [run EXCEPT !.at = step]
    BY <1>12 DEF Generated, world
  <2> QED
    BY <1>1, <2>1, StayElsewhere
<1>13. CASE SkipStep
  <2>1. /\ UNCHANGED <<orderVars, inst>>
        /\ run.at \in {"build", "generate", "smoke"}
        /\ \/ \E step \in {"order", "generate", "done"} : run' = [run EXCEPT !.at = step]
           \/ run' = [run EXCEPT !.at = "smoke", !.lapsed = @ \cup {"bindings"}]
    BY <1>13 DEF SkipStep, BuildLeadsTo, world
  <2> QED
    BY <1>1, <2>1, StayElsewhere
<1> QED
  BY <1>2, <1>3, <1>4, <1>5, <1>6, <1>7, <1>8, <1>9, <1>10, <1>11, <1>12, <1>13

LEMMA HookFailsAttempt ==
  ASSUME AttemptInv, GuardInv', inst' = inst, At("hooks"), HookFails(run) \/ HookFails(Called)
  PROVE  AttemptInv'
<1>1. /\ DOMAIN run = DOMAIN NoRun
      /\ IsSequence(inst)
  BY DEF AttemptInv, GuardInv
<1>2. DOMAIN Called = DOMAIN NoRun /\ Called.rest = run.rest
  BY <1>1 DEF Called, NoRun
<1>3. ASSUME NEW r, DOMAIN r = DOMAIN NoRun, r.rest = run.rest, HookFails(r), ~Exit
      PROVE  AttemptInv'
  <2>1. /\ UNCHANGED orderVars
        /\ run' = [r EXCEPT !.at = "env", !.lapsed = @ \cup {"wire"}, !.tries = 0, !.sent = 0]
    BY <1>3 DEF HookFails
  <2>2. run'.rest = run.rest /\ run'.at = "env"
    BY <1>3, <2>1 DEF NoRun
  <2> QED
    BY <1>1, <2>1, <2>2, StayElsewhere DEF At, Attempt
<1> QED
  BY <1>1, <1>2, <1>3, ExitAttempt DEF At

(* The steps that may end the command, or submit something other than a deploy. *)
LEMMA EndingAttempt ==
  ASSUME AttemptInv, GuardInv',
         \/ Refuse \/ Fails \/ Ends \/ GenerateAll \/ SmokeEnds
         \/ HookLands \/ HookLandsUnseen \/ HookThrows
         \/ Upgrades \/ UpgradesUnseen \/ Invoke
  PROVE  AttemptInv'
<1> USE DEF At, Goto, NoRun, Attempt
<1>1. /\ DOMAIN run = DOMAIN NoRun
      /\ IsSequence(inst)
  BY DEF AttemptInv, GuardInv
<1>2. CASE Refuse \/ Fails \/ Ends
  BY <1>1, <1>2, ExitAttempt DEF Refuse, Fails, Ends, world
<1>3. CASE GenerateAll
  <2>1. \/ Exit
        \/ UNCHANGED orderVars /\ run' = [run EXCEPT !.at = "bindings", !.todo = Targets]
    BY <1>3 DEF GenerateAll
  <2> QED
    BY <1>1, <1>3, <2>1, ExitAttempt, StayElsewhere DEF GenerateAll, world
<1>4. CASE SmokeEnds
  <2>1. Exit \/ (UNCHANGED orderVars /\ run' = [run EXCEPT !.at = "done"])
    BY <1>4 DEF SmokeEnds
  <2> QED
    BY <1>1, <1>4, <2>1, ExitAttempt, StayElsewhere DEF SmokeEnds, world
<1>5. CASE HookLands
  <2>1. HookFails(Called) \/ (run' = NextHook(Called) /\ UNCHANGED orderVars)
    BY <1>5 DEF HookLands
  <2>2. inst' = inst /\ run.at = "hooks"
    BY <1>5 DEF HookLands, HookDue, world
  <2>3. ASSUME run' = NextHook(Called), UNCHANGED orderVars PROVE AttemptInv'
    BY <1>1, <2>2, <2>3, StayElsewhere DEF NextHook, Called
  <2> QED
    BY <2>1, <2>2, <2>3, HookFailsAttempt
<1>6. CASE HookLandsUnseen
  <2>1. HookFails(Called) \/ (run' = [Called EXCEPT !.tries = @ + 1] /\ UNCHANGED orderVars)
    BY <1>6 DEF HookLandsUnseen
  <2>2. inst' = inst /\ run.at = "hooks"
    BY <1>6 DEF HookLandsUnseen, HookDue, world
  <2>3. ASSUME run' = [Called EXCEPT !.tries = @ + 1], UNCHANGED orderVars PROVE AttemptInv'
    BY <1>1, <2>2, <2>3, StayElsewhere DEF Called
  <2> QED
    BY <2>1, <2>2, <2>3, HookFailsAttempt
<1>7. CASE HookThrows
  BY <1>7, HookFailsAttempt DEF HookThrows, world
<1>8. CASE Upgrades
  BY <1>1, <1>8, ReplacedIsSequence, StayElsewhere DEF Upgrades, Upgraded
<1>9. CASE UpgradesUnseen
  <2>1. IsSequence(inst') /\ run.at = "upgrade"
    BY <1>1, <1>9, ReplacedIsSequence DEF UpgradesUnseen, Upgraded
  <2>2. \/ Exit
        \/ UNCHANGED orderVars /\ run' = [run EXCEPT !.tries = @ + 1, !.sent = @ + 1]
    BY <1>9 DEF UpgradesUnseen
  <2> QED
    BY <1>1, <2>1, <2>2, ExitAttempt, StayElsewhere
<1>10. CASE Invoke
  <2>1. \/ Exit
        \/ UNCHANGED orderVars /\ run' = [run EXCEPT !.at = "done", !.sent = @ + 1]
    BY <1>10 DEF Invoke
  <2> QED
    BY <1>1, <1>10, <2>1, ExitAttempt, StayElsewhere DEF Invoke, world
<1> QED
  BY <1>2, <1>3, <1>4, <1>5, <1>6, <1>7, <1>8, <1>9, <1>10

LEMMA StartAttempt == AttemptInv /\ GuardInv' /\ Start => AttemptInv'
<1> SUFFICES ASSUME AttemptInv, GuardInv', Start PROVE AttemptInv'
  OBVIOUS
<1>1. PICK c \in Commands[config], s \in AnyName \cup {None}, d \in BOOLEAN :
        /\ Select(s, d)
        /\ Goto(IF c.kind = "smoke" THEN "smoke"
                ELSE IF c.kind = "wire" /\ Hooks = <<>> THEN "done"
                ELSE "confirm")
  BY DEF Start
<1>2. OrderInv'
  <2>1. OrderNext
    BY <1>1 DEF OrderNext
  <2> QED
    BY <2>1, OrderInvNext DEF AttemptInv
<1>3. IsSequence(inst) /\ run.rest \in Seq(Name)
  BY DEF AttemptInv
<1>4. run'.rest = run.rest /\ run'.at \in {"smoke", "done", "confirm"} /\ inst' = inst
  BY <1>1 DEF Start, Goto, AttemptInv, GuardInv, NoRun
<1> QED
  BY <1>2, <1>3, <1>4, Elsewhere DEF Attempt, AttemptInv

(* What is read as the wasm of the current contract, while nothing is built. *)
LEMMA SameWasm ==
  ASSUME UNCHANGED <<config, wasm, Current>>
  PROVE  Wasm(Current)' = Wasm(Current)
<1>1. Shadowed' <=> Shadowed
  BY DEF Shadowed, HasWasm, WasmPaths, Migrated, Alternates
<1> QED
  BY <1>1 DEF Wasm

(* The search does not run during an attempt. *)
LEMMA SortAttempt == AttemptInv /\ GuardInv' /\ Sort => AttemptInv'
<1> SUFFICES ASSUME AttemptInv, GuardInv', Sort PROVE AttemptInv'
  OBVIOUS
<1>1. OrderInv'
  BY OrderInvNext DEF AttemptInv, Sort, OrderNext
<1>2. /\ config' = config
      /\ UNCHANGED <<run, cmd, inst, gone, wasm>>
  BY DEF Sort, Search, VisitRoot, VisitDependency, Leave, Loaded, Resolved, world
<1>4. AttemptOK'
  <2>1. AttemptOK
    BY DEF AttemptInv
  <2>2. /\ Current' = Current /\ refs' = refs
        /\ Deps(Current)' = Deps(Current) /\ Declared(Current)' = Declared(Current)
    BY <1>2, SameRefs DEF Current
  <2>3. (Checked' <=> Checked) /\ (ArgsResolved' <=> ArgsResolved)
    BY <1>2, <2>2 DEF Checked, ArgsResolved, Exists
  <2>4. Wasm(Current)' = Wasm(Current)
    BY <1>2, <2>2, SameWasm
  <2> QED
    BY <1>2, <2>1, <2>2, <2>3, <2>4 DEF AttemptOK, At
<1> QED
  BY <1>1, <1>2, <1>4 DEF AttemptInv

(* On to the first, or the next, contract. *)
LEMMA NextAttempt ==
  AttemptInv /\ GuardInv' /\ (Sorted \/ Skip \/ Record) => AttemptInv'
<1> SUFFICES ASSUME AttemptInv, GuardInv', Sorted \/ Skip \/ Record PROVE AttemptInv'
  OBVIOUS
<1>1. /\ DOMAIN run = DOMAIN NoRun
      /\ IsSequence(inst)
      /\ run.rest \in Seq(Name)
  BY DEF AttemptInv, GuardInv
<1>2. /\ UNCHANGED orderVars
      /\ inst' = inst
      /\ run.at \in {"order", "graph", "record"}
  BY DEF Sorted, Skip, Record, At, world
<1>3. OrderInv' /\ config' = config
  BY <1>2, OrderInvNext DEF AttemptInv, orderVars
<1>4. run'.at = "graph" /\ run'.rest \in Seq(Name)
  <2>1. CASE Sorted
    BY <1>1, <2>1 DEF Sorted, NoRun, AttemptInv, OrderInv, OrderTypeOK
  <2>2. CASE Skip
    BY <1>1, <2>2 DEF Skip, Continue, NoRun
  <2>3. CASE Record
    <3>1. run.rest # <<>>
      BY <2>3 DEF Record, At, AttemptInv, Attempt
    <3> QED
      BY <1>1, <2>3, <3>1 DEF Record, Continue, NoRun
  <2> QED
    BY <2>1, <2>2, <2>3
<1> QED
  BY <1>1, <1>2, <1>3, <1>4, Elsewhere DEF Attempt

(* A step of an attempt changes only the command's own state and the instances. *)
LEMMA WithinAttempt ==
  ASSUME AttemptInv, GuardInv', UNCHANGED orderVars, IsSequence(inst'), run.at # "idle",
         run'.rest = run.rest, run.rest # <<>>, AttemptOK'
  PROVE  AttemptInv'
<1>1. OrderInv' /\ config' = config
  BY OrderInvNext DEF AttemptInv, orderVars
<1> QED
  BY <1>1 DEF AttemptInv

LEMMA IterateAttempt == AttemptInv /\ GuardInv' /\ Iterate => AttemptInv'
<1> SUFFICES ASSUME AttemptInv, GuardInv', Iterate PROVE AttemptInv'
  OBVIOUS
<1>1. /\ DOMAIN run = DOMAIN NoRun
      /\ IsSequence(inst)
      /\ run.at = "graph"
      /\ run.rest # <<>>
      /\ run.rest \in Seq(Name)
  BY DEF AttemptInv, GuardInv, Iterate, At
<1>2. /\ UNCHANGED <<inst, gone, cmd, config>>
      /\ UNCHANGED orderVars
  BY DEF Iterate, world, orderVars
<1>3. /\ run'.at = "verify"
      /\ run'.rest = run.rest
      /\ run'.check = IF cmd.verify THEN dependsOn[Current] ELSE <<>>
  BY <1>1 DEF Iterate, NoRun
<1>4. Current \in Name /\ Current' = Current
  BY <1>1, <1>3 DEF Current
<1>5. dependsOn[Current] \in Seq(AnyName) /\ Deps(Current)' = Deps(Current)
  BY <1>2, <1>4, Lists DEF AttemptInv, OrderInv, Deps, dependsOn
<1>6. run'.check \in Seq(AnyName)
  BY <1>3, <1>5
<1>7. Checked'
  BY <1>2, <1>3, <1>4, <1>5 DEF Checked, Deps
<1>8. AttemptOK'
  BY <1>3, <1>6, <1>7 DEF AttemptOK, At
<1> QED
  BY <1>1, <1>2, <1>3, <1>8, WithinAttempt

LEMMA VerifyAttempt == AttemptInv /\ GuardInv' /\ Verify => AttemptInv'
<1> SUFFICES ASSUME AttemptInv, GuardInv', Verify PROVE AttemptInv'
  OBVIOUS
<1>1. /\ DOMAIN run = DOMAIN NoRun
      /\ IsSequence(inst)
      /\ run.at = "verify"
      /\ run.rest # <<>>
      /\ run.check \in Seq(AnyName) /\ run.check # <<>>
      /\ Checked
  BY DEF AttemptInv, GuardInv, Verify, At, Attempt, AttemptOK
<1>2. /\ UNCHANGED <<inst, gone, cmd, config>>
      /\ UNCHANGED orderVars
      /\ Exists(run.snap[Head(run.check)])
  BY DEF Verify, world, orderVars
<1>3. /\ run'.at = "verify"
      /\ run'.rest = run.rest
      /\ run'.check = Tail(run.check)
      /\ run'.snap = run.snap
      /\ run'.reset = run.reset
  BY <1>1 DEF Verify, NoRun
<1>4. Current' = Current /\ Deps(Current)' = Deps(Current)
  BY <1>2, <1>3 DEF Current, Deps, dependsOn
<1>5. ASSUME NEW d, NEW i \in 1..Len(run.check), run.check[i] = d
      PROVE  (\E j \in 1..Len(run'.check) : run'.check[j] = d) \/ Exists(run.snap[d])
  <2>1. CASE i = 1
    BY <1>1, <1>2, <1>5, <2>1
  <2>2. CASE i # 1
    <3>1. i - 1 \in 1..Len(run'.check) /\ run'.check[i - 1] = d
      BY <1>1, <1>3, <1>5, <2>2
    <3> QED
      BY <3>1
  <2> QED
    BY <2>1, <2>2
<1>6. Checked'
  <2> SUFFICES ASSUME cmd.verify, ~run.reset, NEW d \in Deps(Current)
               PROVE  (\E j \in 1..Len(run'.check) : run'.check[j] = d) \/ Exists(run.snap[d])
    BY <1>2, <1>3, <1>4 DEF Checked, Exists
  <2>1. (\E i \in 1..Len(run.check) : run.check[i] = d) \/ Exists(run.snap[d])
    BY <1>1 DEF Checked
  <2> QED
    BY <1>5, <2>1
<1>7. AttemptOK'
  BY <1>1, <1>3, <1>6 DEF AttemptOK, At
<1> QED
  BY <1>1, <1>2, <1>3, <1>7, WithinAttempt

(* The ids of the attempt are those that were checked; the hash is of the wasm
   as it is. *)
LEMMA HashAttempt == AttemptInv /\ GuardInv' /\ HashWasm => AttemptInv'
<1> SUFFICES ASSUME AttemptInv, GuardInv', HashWasm PROVE AttemptInv'
  OBVIOUS
<1>1. /\ DOMAIN run = DOMAIN NoRun
      /\ IsSequence(inst)
      /\ run.at = "verify"
      /\ run.rest \in Seq(Name) /\ run.rest # <<>>
      /\ run.check = <<>>
      /\ Checked
      /\ config \in Config
  BY DEF AttemptInv, GuardInv, HashWasm, At, Attempt, AttemptOK
<1>2. /\ UNCHANGED <<inst, gone, cmd, config, wasm>>
      /\ UNCHANGED orderVars
      /\ Resolvable(refs[Current])
  BY DEF HashWasm, world, orderVars
<1>3. CASE run' = Continue
  <2>1. run'.at = "graph" /\ run'.rest \in Seq(Name)
    BY <1>1, <1>3 DEF Continue, NoRun
  <2> QED
    BY <1>1, <1>2, <2>1, OrderInvNext, Elsewhere DEF Attempt, AttemptInv
<1>4. CASE run' = [run EXCEPT !.at = "contract", !.rebuilt = FALSE, !.hashed = NewHash(Current)]
  <2>1. /\ run'.at = "contract"
        /\ run'.rest = run.rest
        /\ run'.snap = run.snap
        /\ run'.reset = run.reset
        /\ run'.hashed = Wasm(Current)
    BY <1>1, <1>4 DEF NoRun, NewHash
  <2>2. /\ Current' = Current /\ refs' = refs
        /\ Deps(Current)' = Deps(Current)
    BY <1>1, <1>2, <2>1, SameRefs DEF Current
  <2>3. Wasm(Current)' = Wasm(Current)
    BY <1>2, <2>2, SameWasm
  <2>4. ASSUME NEW m \in refs[Current]
        PROVE  /\ m \in Name
               /\ m \in Deps(Current) /\ cmd.verify /\ ~run.reset => Exists(run.snap[m])
    <3>1. m \in Name
      BY <1>2, <2>4 DEF Resolvable
    <3> QED
      BY <1>1, <3>1 DEF Checked
  <2>5. ArgsResolved'
    BY <1>2, <2>1, <2>2, <2>4 DEF ArgsResolved, Exists
  <2>6. AttemptOK'
    BY <2>1, <2>3, <2>5 DEF AttemptOK, At
  <2> QED
    BY <1>1, <1>2, <2>1, <2>6, WithinAttempt
<1> QED
  BY <1>3, <1>4 DEF HashWasm

LEMMA DeploysAttempt ==
  AttemptInv /\ GuardInv' /\ (Deploys \/ DeploysUnseen \/ DeployRetries) => AttemptInv'
<1> SUFFICES ASSUME AttemptInv, GuardInv', Deploys \/ DeploysUnseen \/ DeployRetries
             PROVE  AttemptInv'
  OBVIOUS
<1>1. /\ DOMAIN run = DOMAIN NoRun
      /\ IsSequence(inst)
      /\ run.at = "contract"
      /\ run.rest # <<>>
      /\ ArgsResolved
      /\ ~run.rebuilt => run.hashed = Wasm(Current)
  BY DEF AttemptInv, GuardInv, Deploys, DeploysUnseen, DeployRetries, At, Attempt, AttemptOK
<1>2. /\ UNCHANGED <<gone, cmd, config, wasm>>
      /\ UNCHANGED orderVars
  BY DEF Deploys, DeploysUnseen, DeployRetries, world, orderVars
<1>3. /\ run'.rest = run.rest
      /\ run'.snap = run.snap
      /\ run'.reset = run.reset
      /\ run'.rebuilt = run.rebuilt
      /\ run'.hashed = run.hashed
  BY <1>1 DEF Deploys, DeploysUnseen, DeployRetries, NoRun
<1>4. /\ Current' = Current /\ refs' = refs
      /\ Deps(Current)' = Deps(Current) /\ Declared(Current)' = Declared(Current)
  BY <1>2, <1>3, SameRefs DEF Current
<1>5. CASE Deploys
  <2> DEFINE new == [name |-> Current, hash |-> Wasm(Current), args |-> Args(Current, run.snap)]
  <2>1. /\ inst' = Append(inst, new)
        /\ run'.at = "record"
        /\ run'.got = Len(inst) + 1
    BY <1>1, <1>5 DEF Deploys, Instantiate, NoRun
  <2>2. new.hash = Wasm(Current) /\ new.args = Args(Current, run.snap)
    OBVIOUS
  <2> HIDE DEF new
  <2>3. /\ IsSequence(inst')
        /\ run'.got \in 1..Len(inst')
        /\ inst'[run'.got] = new
    BY <1>1, <2>1, AppendedIsSequence
  <2>4. ASSUME cmd.verify, ~run.reset, NEW m \in Declared(Current)
        PROVE  new.args[m] \notin gone \cup {0}
    <3>1. m \in Name /\ m \in refs[Current] /\ Exists(run.snap[m])
      BY <1>1, <2>4 DEF ArgsResolved, Declared
    <3>2. new.args[m] = run.snap[m]
      BY <2>2, <2>4, <3>1 DEF Args
    <3> QED
      BY <3>1, <3>2 DEF Exists
  <2>5. AttemptOK'
    BY <1>1, <1>2, <1>3, <1>4, <2>1, <2>2, <2>3, <2>4 DEF AttemptOK, At
  <2> QED
    BY <1>1, <1>2, <1>3, <2>3, <2>5, WithinAttempt
<1>6. CASE DeploysUnseen \/ DeployRetries
  <2>1. inst' = inst /\ run'.at = "contract"
    BY <1>1, <1>6 DEF DeploysUnseen, DeployRetries, world, NoRun
  <2>2. Wasm(Current)' = Wasm(Current)
    BY <1>2, <1>4, SameWasm
  <2>3. ArgsResolved'
    BY <1>1, <1>2, <1>3, <1>4 DEF ArgsResolved, Exists
  <2>4. AttemptOK'
    BY <1>1, <1>3, <2>1, <2>2, <2>3 DEF AttemptOK, At
  <2> QED
    BY <1>1, <1>2, <1>3, <2>1, <2>4, WithinAttempt
<1> QED
  BY <1>5, <1>6

(* Others build, which is noted, deploy, which changes no instance there is, and
   reset the network, which is noted. *)
LEMMA OthersAttempt ==
  ASSUME AttemptInv, GuardInv',
         (\E n \in Name : Redeploy(n) \/ Rebuild(n)) \/ Reset
  PROVE  AttemptInv'
<1>1. /\ DOMAIN run = DOMAIN NoRun
      /\ IsSequence(inst)
  BY DEF AttemptInv, GuardInv
<1>2. /\ UNCHANGED <<cmd, config>>
      /\ UNCHANGED orderVars
      /\ OrderInv'
  BY OrderInvNext DEF AttemptInv, Redeploy, Rebuild, Reset, orderVars
<1>3. /\ run'.at = run.at /\ run'.rest = run.rest /\ run'.snap = run.snap
      /\ run'.check = run.check /\ run'.hashed = run.hashed /\ run'.got = run.got
  BY <1>1 DEF Redeploy, Rebuild, Reset, Disturb, NoRun
<1>4. /\ IsSequence(inst')
      /\ \A i \in 1..Len(inst) : i \in 1..Len(inst') /\ inst'[i] = inst[i]
  <2>1. ASSUME NEW e, inst' = Append(inst, e)
        PROVE  /\ IsSequence(inst')
               /\ \A i \in 1..Len(inst) : i \in 1..Len(inst') /\ inst'[i] = inst[i]
    <3>1. /\ IsSequence(Append(inst, e))
          /\ Len(inst) \in Nat
          /\ Len(Append(inst, e)) = Len(inst) + 1
          /\ \A i \in 1..Len(inst) : Append(inst, e)[i] = inst[i]
      BY <1>1, AppendedIsSequence
    <3> QED
      BY <2>1, <3>1
  <2>2. ASSUME NEW n \in Name, Redeploy(n)
        PROVE  inst' = Append(inst, [name |-> n, hash |-> Wasm(n), args |-> Args(n, Ids)])
    BY <2>2 DEF Redeploy, Instantiate
  <2>3. CASE Reset \/ \E n \in Name : Rebuild(n)
    BY <1>1, <2>3 DEF Reset, Rebuild
  <2> QED
    BY <2>1, <2>2, <2>3
<1>6. /\ Current' = Current /\ refs' = refs
      /\ Deps(Current)' = Deps(Current) /\ Declared(Current)' = Declared(Current)
  BY <1>2, <1>3, SameRefs DEF Current
<1>7. CASE run.at \notin Attempt
  <2>1. AttemptOK'
    BY <1>3, <1>7 DEF AttemptOK, At, Attempt
  <2> QED
    BY <1>2, <1>3, <1>4, <1>7, <2>1 DEF AttemptInv
<1>8. CASE run.at \in Attempt
  <2>1. ~At("idle")
    BY <1>8 DEF At, Attempt
  <2>2. ~run'.reset => ~run.reset /\ gone' = gone
    BY <1>1, <2>1 DEF Redeploy, Rebuild, Reset, Disturb, NoRun
  <2>3. ~run'.rebuilt => ~run.rebuilt /\ wasm' = wasm
    BY <1>1, <2>1 DEF Redeploy, Rebuild, Reset, Disturb, NoRun
  <2>4. (Checked => Checked') /\ (ArgsResolved => ArgsResolved')
    BY <1>2, <1>3, <1>6, <2>2 DEF Checked, ArgsResolved, Exists
  <2>5. ~run'.rebuilt => Wasm(Current)' = Wasm(Current)
    BY <1>2, <1>6, <2>3, SameWasm
  <2>6. AttemptOK'
    <3>1. AttemptOK
      BY DEF AttemptInv
    <3>2. CASE run.at = "verify"
      BY <1>3, <2>4, <3>1, <3>2 DEF AttemptOK, At
    <3>3. CASE run.at = "contract"
      BY <1>3, <2>3, <2>4, <2>5, <3>1, <3>3 DEF AttemptOK, At
    <3>4. CASE run.at = "record"
      <4>1. run.got \in 1..Len(inst') /\ inst'[run.got] = inst[run.got]
        BY <1>4, <3>1, <3>4 DEF AttemptOK, At
      <4> QED
        BY <1>2, <1>3, <1>6, <2>2, <2>3, <3>1, <3>4, <4>1 DEF AttemptOK, At
    <3> QED
      BY <1>8, <3>2, <3>3, <3>4 DEF Attempt
  <2> QED
    BY <1>2, <1>3, <1>4, <2>6 DEF AttemptInv
<1> QED
  BY <1>7, <1>8

LEMMA StutterAttempt == AttemptInv /\ GuardInv' /\ UNCHANGED vars => AttemptInv'
<1> SUFFICES ASSUME AttemptInv, GuardInv', UNCHANGED vars PROVE AttemptInv'
  OBVIOUS
<1>1. /\ UNCHANGED <<run, cmd, config, inst, gone, wasm, phase>>
      /\ UNCHANGED orderVars
      /\ OrderInv'
  BY OrderInvNext DEF AttemptInv, vars, world, orderVars
<1>2. /\ Current' = Current /\ refs' = refs
      /\ Deps(Current)' = Deps(Current) /\ Declared(Current)' = Declared(Current)
  BY <1>1, SameRefs DEF Current
<1>3. (Checked' <=> Checked) /\ (ArgsResolved' <=> ArgsResolved)
  BY <1>1, <1>2 DEF Checked, ArgsResolved, Exists
<1>4. Wasm(Current)' = Wasm(Current)
  BY <1>1, <1>2, SameWasm
<1>5. AttemptOK'
  BY <1>1, <1>2, <1>3, <1>4 DEF AttemptInv, AttemptOK, At
<1> QED
  BY <1>1, <1>5 DEF AttemptInv

LEMMA AttemptNext == AttemptInv /\ [Next]_vars => AttemptInv'
<1> SUFFICES ASSUME AttemptInv, [Next]_vars PROVE AttemptInv'
  OBVIOUS
<1>1. GuardInv'
  BY GuardInvNext DEF AttemptInv
<1>2. CASE Step
  BY <1>1, <1>2, QuietAttempt, EndingAttempt, SortAttempt, NextAttempt, IterateAttempt,
     VerifyAttempt, HashAttempt, DeploysAttempt DEF Step
<1> QED
  BY <1>1, <1>2, StartAttempt, EndingAttempt, OthersAttempt, StutterAttempt DEF Next

(* Whatever the graph and whoever else is at work: the hash in the artifacts file
   is that of the wasm the instance runs, unless somebody built in between. *)
THEOREM HashIsRecorded == Spec => []RecordedHash
<1>1. AttemptInv => RecordedHash
  BY DEF AttemptInv, AttemptOK, RecordedHash
<1> QED
  BY <1>1, AttemptInit, AttemptNext, PTL DEF Spec

(* Whatever the graph: with --verify-deps nothing is constructed with an instance
   of a declared dependency that was already wiped out when they were checked: what
   is resolved is what was checked. A placeholder inside a text may name a contract
   that is not declared, and that nothing checks. *)
THEOREM DependenciesVerified == Spec => []DepsVerified
<1>1. AttemptInv => DepsVerified
  BY DEF AttemptInv, AttemptOK, DepsVerified
<1> QED
  BY <1>1, AttemptInit, AttemptNext, PTL DEF Spec

(* The commands keep the promise of the search: also after any number of them the
   order in progress has every contract after its dependencies. *)
THEOREM OrderHolds == Spec => []DependenciesPrecede
<1>1. AttemptInv => DependenciesPrecede
  BY DEF AttemptInv, OrderInv, Marked, Preceded, DependenciesPrecede
<1> QED
  BY <1>1, AttemptInit, AttemptNext, PTL DEF Spec

-----------------------------------------------------------------------------
(* The arguments of what is deployed follow what is recorded *)

Early == {"idle", "confirm", "guard", "build", "order"}
Deploying == {"graph"} \cup Attempt
Upgrading == {"upload", "upgrade", "upgraded"}

Followable == cmd.kind \in {"deploy", "regression"} /\ ~run.disturbed

(* What the command has deployed was constructed with what is recorded. *)
Followed == \A n \in run.done : /\ n \in Name
                                /\ IdOf(n) \in 1..Len(inst)
                                /\ \A m \in Declared(n) : inst[IdOf(n)].args[m] = IdOf(m)

(* How many contracts of the order have had their turn. *)
Turns == Len(order) - Len(run.rest)

(* What is left is the end of the order, what is deployed comes before it. *)
InOrder == /\ phase = "resolved"
           /\ Len(run.rest) <= Len(order)
           /\ \A i \in 1..Len(run.rest) : run.rest[i] = order[Turns + i]
           /\ \A n \in run.done : \E i \in 1..Turns : order[i] = n

FollowInv ==
  /\ ScopeInv
  /\ phase \in {"loaded", "resolve", "resolved"} \/ ~At("idle") => Loopless
  /\ DOMAIN art = Name
  /\ run.at \in Upgrading => cmd.kind = "upgrade"
  /\ run.at \in Early => run.done = {}
  /\ run.at \in Deploying => InOrder
  /\ Followable => /\ Followed
                   /\ run.at \in Attempt => run.snap = Ids
                   /\ At("record") => inst[run.got].args = Args(Current, run.snap)

LEMMA FollowInit == Init => FollowInv
<1> SUFFICES ASSUME Init PROVE FollowInv
  OBVIOUS
<1>1. ScopeInv /\ phase = "load" /\ run.at = "idle" /\ run.done = {} /\ DOMAIN art = Name
  BY ScopeInit DEF Init, OrderInit, NoRun
<1> QED
  BY <1>1 DEF FollowInv, At, Upgrading, Deploying, Attempt, Followed

LEMMA SameLoopless == config' = config => (Loopless' <=> Loopless)
  BY DEF Loopless, Deps, dependsOn

LEMMA BusyIsLoopless == FollowInv /\ run.at # "idle" => Loopless
  BY DEF FollowInv, At

(* What has been deployed stays as it is while the file and the instances do. *)
LEMMA FollowedStays ==
  ASSUME Followed, run'.done = run.done, config' = config, art' = art, inst' = inst
  PROVE  Followed'
<1>1. \A n : Declared(n)' = Declared(n)
  BY SameRefs
<1> QED
  BY <1>1 DEF Followed, IdOf

(* A step that leaves what is deployed and recorded alone, and ends outside the
   deploying of the graph. *)
LEMMA FollowStay ==
  ASSUME FollowInv, UNCHANGED orderVars, UNCHANGED <<art, inst, cmd>>, run.at # "idle",
         run'.done = run.done, run'.disturbed = run.disturbed, run'.at \notin Deploying,
         run'.at \in Early => run.at \in Early,
         run'.at \in Upgrading => cmd.kind = "upgrade"
  PROVE  FollowInv'
<1>1. ScopeInv' /\ config' = config
  BY DEF FollowInv, ScopeInv, Whole, Alone, Visiting, orderVars
<1>2. Loopless'
  BY <1>1, BusyIsLoopless, SameLoopless
<1>3. Followable' => Followable
  BY DEF Followable
<1>4. Followable' => Followed'
  BY <1>1, <1>3, FollowedStays DEF FollowInv
<1> QED
  BY <1>1, <1>2, <1>4 DEF FollowInv, Deploying, At, Attempt

LEMMA ExitFollow ==
  ASSUME FollowInv, Exit, DOMAIN art' = Name, run.at # "idle"
  PROVE  FollowInv'
<1>1. /\ config' = config /\ run'.at = "idle" /\ run'.done = {}
      /\ ScopeInv'
  BY DEF Exit, NoRun, ScopeInv, Whole, Alone
<1>2. Loopless'
  BY <1>1, BusyIsLoopless, SameLoopless
<1> QED
  BY <1>1, <1>2 DEF FollowInv, Deploying, Upgrading, At, Attempt, Followed

LEMMA QuietFollow ==
  ASSUME AttemptInv, FollowInv,
         \/ Confirm \/ PassGuard \/ Deployed \/ LeaveOut
         \/ ReadHooks \/ HookReads \/ HookRetries \/ Wired \/ SyncEnv
         \/ \E n \in Name : Generate(n) \/ GenerateFails(n)
         \/ BuildOne \/ Upload \/ Build \/ Smoke \/ Generated \/ SkipDeploy \/ SkipStep
  PROVE  FollowInv'
<1> USE DEF At, Goto, NoRun, Attempt, Early, Deploying, Upgrading
<1>1. /\ DOMAIN run = DOMAIN NoRun
      /\ run.at \in Upgrading => cmd.kind = "upgrade"
  BY DEF AttemptInv, GuardInv, FollowInv
<1>2. CASE Confirm
  <2>1. /\ FirstStep(cmd.kind) \in {"guard", "wire", "upload", "invoke", "build"}
        /\ FirstStep(cmd.kind) = "upload" => cmd.kind = "upgrade"
    <3>1. cmd.kind \in {"deploy", "wire", "upgrade", "invoke", "regression"}
      BY <1>2 DEF Confirm, AttemptInv, GuardInv, Kind
    <3> QED
      BY <3>1 DEF FirstStep
  <2> QED
    BY <1>1, <1>2, <2>1, FollowStay DEF Confirm, world, files
<1>3. CASE PassGuard \/ ReadHooks \/ SyncEnv
  <2>1. CASE PassGuard \/ ReadHooks
    BY <1>1, <2>1, FollowStay DEF PassGuard, ReadHooks, world, files
  <2>2. CASE SyncEnv
    BY <1>1, <2>2, FollowStay DEF SyncEnv, world, files
  <2> QED
    BY <1>3, <2>1, <2>2
<1>4. CASE Deployed
  <2>1. \/ run' = [run EXCEPT !.at = "wire"]
        \/ run' = [run EXCEPT !.at = "generate", !.lapsed = {"wire", "env"}]
    BY <1>4 DEF Deployed
  <2> QED
    BY <1>1, <1>4, <2>1, FollowStay DEF Deployed, world, files
<1>5. CASE LeaveOut
  <2>1. /\ run.at \in {"wire", "env", "generate"}
        /\ UNCHANGED orderVars /\ UNCHANGED <<art, inst, cmd>>
        /\ \/ run' = [run EXCEPT !.at = "env", !.lapsed = {"wire"}]
           \/ run' = [run EXCEPT !.at = "generate", !.lapsed = @ \cup {"env"}]
           \/ run' = [run EXCEPT !.at = "done", !.lapsed = @ \cup {"bindings"}]
    BY <1>5 DEF LeaveOut, world, files
  <2>2. CASE run' = [run EXCEPT !.at = "env", !.lapsed = {"wire"}]
    BY <1>1, <2>1, <2>2, FollowStay
  <2>3. CASE run' = [run EXCEPT !.at = "generate", !.lapsed = @ \cup {"env"}]
    BY <1>1, <2>1, <2>3, FollowStay
  <2>4. CASE run' = [run EXCEPT !.at = "done", !.lapsed = @ \cup {"bindings"}]
    BY <1>1, <2>1, <2>4, FollowStay
  <2> QED
    BY <2>1, <2>2, <2>3, <2>4
<1>6. CASE HookReads \/ HookRetries
  BY <1>1, <1>6, FollowStay DEF HookReads, HookRetries, HookDue, NextHook, world, files
<1>7. CASE Wired
  <2>1. run' = [run EXCEPT !.at = "done"] \/ run' = [run EXCEPT !.at = "env"]
    BY <1>7 DEF Wired
  <2> QED
    BY <1>1, <1>7, <2>1, FollowStay DEF Wired, world, files
<1>8. ASSUME NEW n \in Name, Generate(n) \/ GenerateFails(n) PROVE FollowInv'
  BY <1>1, <1>8, FollowStay DEF Generate, GenerateFails, Generating, world, files
<1>9. CASE BuildOne \/ Build \/ SkipDeploy
  <2>1. CASE BuildOne
    BY <1>1, <2>1, FollowStay DEF BuildOne, world, files
  <2>2. CASE Build
    <3>1. /\ UNCHANGED orderVars /\ UNCHANGED <<art, inst, cmd>>
          /\ run.at = "build"
          /\ \E step \in {"order", "generate"} : run' = [run EXCEPT !.at = step]
      BY <2>2 DEF Build, BuildLeadsTo, files
    <3> QED
      BY <1>1, <3>1, FollowStay
  <2>3. CASE SkipDeploy
    BY <1>1, <2>3, FollowStay DEF SkipDeploy, world, files
  <2> QED
    BY <1>9, <2>1, <2>2, <2>3
<1>10. CASE Upload
  <2>1. \/ run' = [run EXCEPT !.at = "done"]
        \/ run' = [run EXCEPT !.at = "upgrade", !.hashed = Wasm(cmd.target)]
    BY <1>10 DEF Upload
  <2>2. run.at = "upload" /\ UNCHANGED orderVars /\ UNCHANGED <<art, inst, cmd>>
    BY <1>10 DEF Upload, world, files
  <2>3. CASE run' = [run EXCEPT !.at = "done"]
    BY <1>1, <2>2, <2>3, FollowStay
  <2>4. CASE run' = [run EXCEPT !.at = "upgrade", !.hashed = Wasm(cmd.target)]
    BY <1>1, <2>2, <2>4, FollowStay
  <2> QED
    BY <2>1, <2>3, <2>4
<1>11. CASE Smoke
  <2>1. PICK lapsed : run' = [run EXCEPT !.hook = @ + 1, !.lapsed = lapsed]
    BY <1>11 DEF Smoke
  <2> QED
    BY <1>1, <1>11, <2>1, FollowStay DEF Smoke, world, files
<1>12. CASE Generated
  <2>1. /\ UNCHANGED orderVars /\ UNCHANGED <<art, inst, cmd>>
        /\ run.at = "bindings"
        /\ \E step \in {"done", "failed", "smoke"} : run' = [run EXCEPT !.at = step]
    BY <1>12 DEF Generated, world, files
  <2> QED
    BY <1>1, <2>1, FollowStay
<1>13. CASE SkipStep
  <2>1. /\ UNCHANGED orderVars /\ UNCHANGED <<art, inst, cmd>>
        /\ run.at \in {"build", "generate", "smoke"}
        /\ \/ run.at = "build" /\ run' = [run EXCEPT !.at = "order"]
           \/ \E step \in {"generate", "done"} : run' = [run EXCEPT !.at = step]
           \/ run' = [run EXCEPT !.at = "smoke", !.lapsed = @ \cup {"bindings"}]
    BY <1>13 DEF SkipStep, BuildLeadsTo, world, files
  <2>2. CASE run.at = "build" /\ run' = [run EXCEPT !.at = "order"]
    BY <1>1, <2>1, <2>2, FollowStay
  <2>3. CASE \E step \in {"generate", "done"} : run' = [run EXCEPT !.at = step]
    BY <1>1, <2>1, <2>3, FollowStay
  <2>4. CASE run' = [run EXCEPT !.at = "smoke", !.lapsed = @ \cup {"bindings"}]
    BY <1>1, <2>1, <2>4, FollowStay
  <2> QED
    BY <2>1, <2>2, <2>3, <2>4
<1> QED
  BY <1>2, <1>3, <1>4, <1>5, <1>6, <1>7, <1>8, <1>9, <1>10, <1>11, <1>12, <1>13

LEMMA HookFailsFollow ==
  ASSUME AttemptInv, FollowInv, UNCHANGED <<art, inst>>, At("hooks"),
         HookFails(run) \/ HookFails(Called)
  PROVE  FollowInv'
<1>1. /\ DOMAIN run = DOMAIN NoRun
      /\ DOMAIN art = Name
  BY DEF AttemptInv, GuardInv, FollowInv
<1>2. /\ DOMAIN Called = DOMAIN NoRun
      /\ Called.done = run.done
      /\ Called.disturbed = run.disturbed
  BY <1>1 DEF Called, NoRun
<1>3. ASSUME NEW r, DOMAIN r = DOMAIN NoRun, r.done = run.done, r.disturbed = run.disturbed,
             HookFails(r), ~Exit
      PROVE  FollowInv'
  <2>1. /\ UNCHANGED orderVars
        /\ cmd' = cmd
        /\ run' = [r EXCEPT !.at = "env", !.lapsed = @ \cup {"wire"}, !.tries = 0, !.sent = 0]
    BY <1>3 DEF HookFails
  <2>2. run'.done = run.done /\ run'.at = "env" /\ run'.disturbed = run.disturbed
    BY <1>3, <2>1 DEF NoRun
  <2> QED
    BY <2>1, <2>2, FollowStay DEF At, Attempt, Deploying, Early, Upgrading
<1> QED
  BY <1>1, <1>2, <1>3, ExitFollow DEF At

LEMMA EndingFollow ==
  ASSUME AttemptInv, FollowInv,
         \/ Refuse \/ Fails \/ Ends \/ GenerateAll \/ SmokeEnds
         \/ HookLands \/ HookLandsUnseen \/ HookThrows \/ Invoke
  PROVE  FollowInv'
<1> USE DEF At, Goto, NoRun, Attempt, Early, Deploying, Upgrading
<1>1. /\ DOMAIN run = DOMAIN NoRun
      /\ DOMAIN art = Name
  BY DEF AttemptInv, GuardInv, FollowInv
<1>2. CASE Refuse \/ Fails \/ Ends
  BY <1>1, <1>2, ExitFollow DEF Refuse, Fails, Ends, files
<1>3. CASE GenerateAll
  <2>1. \/ Exit
        \/ /\ UNCHANGED orderVars /\ cmd' = cmd
           /\ run' = [run EXCEPT !.at = "bindings", !.todo = Targets]
    BY <1>3 DEF GenerateAll
  <2> QED
    BY <1>1, <1>3, <2>1, ExitFollow, FollowStay DEF GenerateAll, world, files
<1>4. CASE SmokeEnds
  <2>1. Exit \/ (UNCHANGED orderVars /\ cmd' = cmd /\ run' = [run EXCEPT !.at = "done"])
    BY <1>4 DEF SmokeEnds
  <2> QED
    BY <1>1, <1>4, <2>1, ExitFollow, FollowStay DEF SmokeEnds, world, files
<1>5. CASE HookLands
  <2>1. HookFails(Called) \/ (run' = NextHook(Called) /\ UNCHANGED orderVars /\ cmd' = cmd)
    BY <1>5 DEF HookLands
  <2>2. UNCHANGED <<art, inst>> /\ run.at = "hooks"
    BY <1>5 DEF HookLands, HookDue, world, files
  <2>3. ASSUME run' = NextHook(Called), UNCHANGED orderVars, cmd' = cmd PROVE FollowInv'
    BY <1>1, <2>2, <2>3, FollowStay DEF NextHook, Called
  <2> QED
    BY <2>1, <2>2, <2>3, HookFailsFollow
<1>6. CASE HookLandsUnseen
  <2>1. \/ HookFails(Called)
        \/ run' = [Called EXCEPT !.tries = @ + 1] /\ UNCHANGED orderVars /\ cmd' = cmd
    BY <1>6 DEF HookLandsUnseen
  <2>2. UNCHANGED <<art, inst>> /\ run.at = "hooks"
    BY <1>6 DEF HookLandsUnseen, HookDue, world, files
  <2>3. ASSUME run' = [Called EXCEPT !.tries = @ + 1], UNCHANGED orderVars, cmd' = cmd
        PROVE  FollowInv'
    BY <1>1, <2>2, <2>3, FollowStay DEF Called
  <2> QED
    BY <2>1, <2>2, <2>3, HookFailsFollow
<1>7. CASE HookThrows
  BY <1>7, HookFailsFollow DEF HookThrows, world, files
<1>8. CASE Invoke
  <2>1. \/ Exit
        \/ UNCHANGED orderVars /\ cmd' = cmd /\ run' = [run EXCEPT !.at = "done", !.sent = @ + 1]
    BY <1>8 DEF Invoke
  <2> QED
    BY <1>1, <1>8, <2>1, ExitFollow, FollowStay DEF Invoke, world, files
<1> QED
  BY <1>2, <1>3, <1>4, <1>5, <1>6, <1>7, <1>8

LEMMA StartFollow == AttemptInv /\ FollowInv /\ Start => FollowInv'
<1> SUFFICES ASSUME AttemptInv, FollowInv, Start PROVE FollowInv'
  OBVIOUS
<1>1. PICK c \in Commands[config], s \in AnyName \cup {None}, d \in BOOLEAN :
        /\ Select(s, d)
        /\ Goto(IF c.kind = "smoke" THEN "smoke"
                ELSE IF c.kind = "wire" /\ Hooks = <<>> THEN "done"
                ELSE "confirm")
  BY DEF Start
<1>2. ScopeInv'
  BY <1>1, ScopeNext DEF OrderNext, AttemptInv, FollowInv
<1>3. config' = config /\ Loopless
  BY <1>1 DEF Select, FollowInv
<1>4. /\ run'.at \in {"smoke", "done", "confirm"}
      /\ run'.done = {}
      /\ art' = art
  BY <1>1 DEF Start, Goto, AttemptInv, GuardInv, NoRun, FollowInv, At, Early, files
<1> QED
  BY <1>2, <1>3, <1>4, SameLoopless
  DEF FollowInv, Followed, At, Attempt, Deploying, Upgrading

(* The load of the configuration finds what depends on itself; no search runs
   while a graph is deployed. *)
LEMMA SortFollow == AttemptInv /\ FollowInv /\ Sort => FollowInv'
<1> SUFFICES ASSUME AttemptInv, FollowInv, Sort PROVE FollowInv'
  OBVIOUS
<1>1. ScopeInv'
  BY ScopeNext DEF Sort, OrderNext, AttemptInv, FollowInv
<1>2. UNCHANGED <<config, run, cmd, inst, art>>
  BY DEF Sort, Search, VisitRoot, VisitDependency, Leave, Loaded, Resolved, world, files
<1>3. ASSUME phase' \in {"loaded", "resolve", "resolved"} \/ ~At("idle")
      PROVE  Loopless
  <2>1. CASE Loaded
    BY <2>1, LoadedIsLoopless DEF AttemptInv, FollowInv
  <2>2. CASE ~Loaded
    BY <1>3, <2>2 DEF Sort, Search, VisitRoot, VisitDependency, Leave, Resolved, Visit, Throw,
                      FollowInv, SearchEnds, Searching, At
  <2> QED
    BY <2>1, <2>2
<1>4. run.at \notin Deploying
  BY DEF Sort, At, FollowInv, InOrder, Deploying, Attempt
<1>5. Followed => Followed'
  BY <1>2, FollowedStays
<1> QED
  BY <1>1, <1>2, <1>3, <1>4, <1>5, SameLoopless
  DEF FollowInv, Followable, At, Deploying, Attempt

-----------------------------------------------------------------------------

LEMMA InOrderStays ==
  ASSUME InOrder, UNCHANGED <<phase, order>>, run'.rest = run.rest, run'.done = run.done
  PROVE  InOrder'
BY DEF InOrder, Turns

LEMMA CurrentTurn ==
  ASSUME InOrder, OrderTypeOK, run.rest \in Seq(Name), run.rest # <<>>
  PROVE  /\ Turns \in Nat
         /\ Turns + 1 \in 1..Len(order)
         /\ Current = order[Turns + 1]
         /\ Current \in Name
<1>1. Len(order) \in Nat /\ Len(run.rest) \in Nat \ {0} /\ Current = run.rest[1] /\ Current \in Name
  BY DEF OrderTypeOK, Current
<1>2. Turns \in Nat /\ Turns + 1 \in 1..Len(order)
  BY <1>1 DEF InOrder, Turns
<1>3. 1 \in 1..Len(run.rest)
  BY <1>1
<1>4. run.rest[1] = order[Turns + 1]
  BY <1>3 DEF InOrder
<1> QED
  BY <1>1, <1>2, <1>4

LEMMA InOrderNext ==
  ASSUME InOrder, OrderTypeOK, UNCHANGED <<phase, order>>,
         run.rest \in Seq(Name), run.rest # <<>>,
         run'.rest = Tail(run.rest),
         run'.done \subseteq run.done \cup {Current}
  PROVE  InOrder'
<1>1. /\ Turns \in Nat
      /\ Turns + 1 \in 1..Len(order)
      /\ Current = order[Turns + 1]
  BY CurrentTurn
<1>2. /\ Len(order) \in Nat
      /\ Len(run.rest) \in Nat \ {0}
      /\ Len(run'.rest) = Len(run.rest) - 1
      /\ \A i \in 1..(Len(run.rest) - 1) : run'.rest[i] = run.rest[i + 1]
  <2> DEFINE rest == run.rest
  <2>1. rest \in Seq(Name) /\ rest # <<>> /\ run'.rest = Tail(rest)
    OBVIOUS
  <2> HIDE DEF rest
  <2>2. /\ Len(rest) \in Nat \ {0}
        /\ Len(run'.rest) = Len(rest) - 1
        /\ \A i \in 1..(Len(rest) - 1) : run'.rest[i] = rest[i + 1]
    BY <2>1, Popped
  <2> QED
    BY <2>2 DEF rest, OrderTypeOK
<1>3. Turns' = Turns + 1
  <2>1. Turns' = Len(order) - Len(run'.rest) /\ Turns = Len(order) - Len(run.rest)
    BY ZenonT(20) DEF Turns
  <2> DEFINE l == Len(run'.rest)
             k == Len(run.rest)
  <2>2. l = k - 1 /\ k \in Nat /\ Turns' = Len(order) - l /\ Turns = Len(order) - k
    BY <1>2, <2>1
  <2> HIDE DEF l, k
  <2> QED
    BY <1>2, <2>2
<1>4. ASSUME NEW i \in 1..Len(run'.rest)
      PROVE  run'.rest[i] = order[Turns' + i]
  <2>1. /\ i \in 1..(Len(run.rest) - 1)
        /\ i + 1 \in 1..Len(run.rest)
        /\ Turns + (i + 1) = Turns' + i
    BY <1>1, <1>2, <1>3
  <2> QED
    BY <1>2, <2>1 DEF InOrder
<1>5. ASSUME NEW n \in run'.done
      PROVE  \E i \in 1..Turns' : order[i] = n
  <2>1. CASE n = Current
    BY <1>1, <1>3, <2>1
  <2>2. CASE n \in run.done
    BY <1>1, <1>3, <2>2 DEF InOrder
  <2> QED
    BY <1>5, <2>1, <2>2
<1> QED
  BY <1>2, <1>4, <1>5 DEF InOrder

(* Neither the contract whose turn it is nor any of those before it depends on it. *)
LEMMA Later ==
  ASSUME AttemptInv, FollowInv, run.at \in Attempt, NEW n \in run.done \cup {Current}
  PROVE  /\ Current \notin Deps(n)
         /\ n \in run.done => n # Current
<1>1. /\ run.rest \in Seq(Name) /\ run.rest # <<>>
      /\ OrderTypeOK /\ Marked /\ Preceded
  BY DEF AttemptInv, OrderInv, Attempt
<1>2. InOrder /\ Alone /\ Loopless
  BY DEF FollowInv, ScopeInv, Deploying, At, Attempt
<1>3. /\ Turns \in Nat
      /\ Turns + 1 \in 1..Len(order)
      /\ Current = order[Turns + 1]
      /\ Current \in Name
  BY <1>1, <1>2, CurrentTurn
<1>4. CASE n = Current
  <2>1. Current \notin Deps(Current)
    BY <1>2, <1>3 DEF Loopless
  <2>2. Current \notin run.done
    BY <1>1, <1>2, <1>3 DEF InOrder, Marked
  <2> QED
    BY <1>4, <2>1, <2>2
<1>5. CASE n \in run.done
  <2>1. Len(order) \in Nat
    BY <1>1 DEF OrderTypeOK
  <2>2. PICK i \in 1..Turns : order[i] = n
    BY <1>2, <1>5 DEF InOrder
  <2>3. i \in 1..Len(order) /\ i < Turns + 1 /\ i # Turns + 1 /\ n \in Name
    BY <1>1, <1>3, <2>1, <2>2 DEF OrderTypeOK
  <2>4. n # Current
    BY <1>1, <1>3, <2>2, <2>3 DEF Marked
  <2>5. ASSUME Current \in Deps(n) PROVE FALSE
    <3>2. CASE deep
      <4>1. PICK j \in 1..(i - 1) : order[j] = Current
        BY <1>1, <2>2, <2>3, <2>5, <3>2 DEF Preceded
      <4>2. j \in 1..Len(order) /\ j # Turns + 1
        BY <1>3, <2>1, <2>3, <4>1
      <4> QED
        BY <1>1, <1>3, <4>1, <4>2 DEF Marked
    <3>3. CASE ~deep
      BY <1>2, <1>3, <2>2, <2>3, <2>4, <3>3 DEF Alone
    <3> QED
      BY <3>2, <3>3
  <2> QED
    BY <2>4, <2>5
<1> QED
  BY <1>4, <1>5

(* A step of an attempt that changes no instance there is. *)
LEMMA WithinFollow ==
  ASSUME AttemptInv, FollowInv, run.at \in Deploying, run'.at \in Attempt,
         UNCHANGED orderVars, UNCHANGED <<art, cmd>>,
         run'.rest = run.rest, run'.done = run.done, run'.disturbed = run.disturbed,
         \A i \in 1..Len(inst) : i \in 1..Len(inst') /\ inst'[i] = inst[i],
         Followable => /\ run'.snap = Ids
                       /\ At("record")' => inst'[run'.got].args = Args(Current, run'.snap)
  PROVE  FollowInv'
<1>1. ScopeInv' /\ config' = config
  BY DEF FollowInv, ScopeInv, Whole, Alone, Visiting, orderVars
<1>2. Loopless'
  BY <1>1, BusyIsLoopless, SameLoopless DEF Deploying, Attempt
<1>3. InOrder'
  BY InOrderStays DEF FollowInv, orderVars
<1>4. /\ Current' = Current /\ refs' = refs /\ Ids' = Ids /\ \A n \in Name : IdOf(n)' = IdOf(n)
      /\ \A n : Declared(n)' = Declared(n)
  <2>1. refs' = refs /\ \A n : Declared(n)' = Declared(n)
    BY <1>1, SameRefs
  <2> QED
    BY <2>1 DEF Current, Ids, IdOf
<1>5. Followable' => Followable
  BY DEF Followable
<1>6. ASSUME Followable PROVE Followed'
  <2>1. Followed
    BY <1>6 DEF FollowInv
  <2>2. \A n \in Name : Declared(n) \subseteq Name
    BY DEF Declared
  <2> QED
    BY <1>4, <2>1, <2>2 DEF Followed
<1>7. Args(Current, run.snap)' = Args(Current, run'.snap)
  BY <1>4 DEF Args
<1>8. run'.at \notin Upgrading \cup Early /\ DOMAIN art' = Name
  BY DEF Upgrading, Early, Attempt, FollowInv
<1> QED
  BY <1>1, <1>2, <1>3, <1>4, <1>5, <1>6, <1>7, <1>8 DEF FollowInv, At

(* On to the next contract without having deployed this one. *)
LEMMA ContinueFollow ==
  ASSUME AttemptInv, FollowInv, run.at \in Deploying, run.rest # <<>>,
         UNCHANGED orderVars, UNCHANGED <<art, inst, cmd>>, run' = Continue
  PROVE  FollowInv'
<1>1. /\ DOMAIN run = DOMAIN NoRun
      /\ run.rest \in Seq(Name)
      /\ OrderTypeOK
  BY DEF AttemptInv, GuardInv, OrderInv
<1>2. /\ run'.at = "graph"
      /\ run'.rest = Tail(run.rest)
      /\ run'.done = run.done
      /\ run'.disturbed = run.disturbed
  BY <1>1 DEF Continue, NoRun
<1>3. ScopeInv' /\ config' = config
  BY DEF FollowInv, ScopeInv, Whole, Alone, Visiting, orderVars
<1>4. Loopless'
  BY <1>3, BusyIsLoopless, SameLoopless DEF Deploying, Attempt
<1>5. InOrder'
  BY <1>1, <1>2, InOrderNext DEF FollowInv, orderVars
<1>6. Followable' => Followed'
  BY <1>2, <1>3, FollowedStays DEF FollowInv, Followable
<1> QED
  BY <1>2, <1>3, <1>4, <1>5, <1>6 DEF FollowInv, At, Attempt, Upgrading, Early

LEMMA AttemptFollow ==
  ASSUME AttemptInv, FollowInv,
         Sorted \/ Skip \/ Iterate \/ Verify \/ HashWasm
           \/ Deploys \/ DeploysUnseen \/ DeployRetries
  PROVE  FollowInv'
<1> USE DEF At, NoRun, Attempt, Deploying
<1>1. /\ DOMAIN run = DOMAIN NoRun
      /\ run.rest \in Seq(Name)
      /\ run.at \in Attempt => run.rest # <<>>
      /\ OrderTypeOK
      /\ IsSequence(inst)
      /\ DOMAIN art = Name
  BY DEF AttemptInv, GuardInv, OrderInv, FollowInv
<1>2. CASE Sorted
  <2>1. /\ run'.at = "graph" /\ run'.rest = order
        /\ run'.done = {}
        /\ phase = "resolved"
        /\ UNCHANGED orderVars /\ DOMAIN art' = Name
    BY <1>1, <1>2 DEF Sorted, files, FollowInv, Early
  <2>2. Loopless'
    BY <1>2, <2>1, BusyIsLoopless, SameLoopless DEF Sorted, orderVars
  <2>3. ScopeInv'
    BY <2>1 DEF FollowInv, ScopeInv, Whole, Alone, Visiting, orderVars
  <2>4. InOrder'
    <3>1. Len(order) \in Nat /\ order' = order /\ phase' = phase
      BY <1>1, <2>1 DEF OrderTypeOK, orderVars
    <3>2. Turns' = 0
      BY <2>1, <3>1 DEF Turns
    <3>3. \A i \in 1..Len(order) : Turns' + i = i
      BY <3>1, <3>2
    <3> QED
      BY <2>1, <3>1, <3>2, <3>3 DEF InOrder
  <2> QED
    BY <2>1, <2>2, <2>3, <2>4 DEF FollowInv, Followed, Upgrading
<1>3. CASE Skip
  BY <1>3, ContinueFollow DEF Skip, world, files
<1>4. CASE Iterate
  BY <1>1, <1>4, WithinFollow DEF Iterate, ReadIds, world, files
<1>5. CASE Verify
  <2>1. Followable => run.snap = Ids
    BY <1>5 DEF Verify, FollowInv
  <2> QED
    BY <1>1, <1>5, <2>1, WithinFollow DEF Verify, world, files
<1>6. CASE HashWasm
  <2>1. Followable => run.snap = Ids
    BY <1>6 DEF HashWasm, FollowInv
  <2>2. CASE run' = Continue
    BY <1>1, <1>6, <2>2, ContinueFollow DEF HashWasm, world, files
  <2>3. CASE run' = [run EXCEPT !.at = "contract", !.rebuilt = FALSE, !.hashed = NewHash(Current)]
    <3>1. /\ run.at = "verify"
          /\ UNCHANGED orderVars
          /\ UNCHANGED <<art, inst, cmd>>
      BY <1>6 DEF HashWasm, world, files
    <3>2. /\ run'.at = "contract" /\ run'.rest = run.rest /\ run'.snap = run.snap
          /\ run'.done = run.done /\ run'.disturbed = run.disturbed
      BY <1>1, <2>3
    <3> QED
      BY <1>1, <2>1, <3>1, <3>2, WithinFollow
  <2> QED
    BY <1>6, <2>2, <2>3 DEF HashWasm
<1>7. CASE Deploys
  <2> DEFINE new == [name |-> Current, hash |-> Wasm(Current), args |-> Args(Current, run.snap)]
  <2>1. Followable => run.snap = Ids
    BY <1>7 DEF Deploys, FollowInv
  <2>2. /\ inst' = Append(inst, new)
        /\ run'.at = "record" /\ run'.got = Len(inst) + 1 /\ run'.snap = run.snap
        /\ run'.rest = run.rest /\ run'.done = run.done /\ run'.disturbed = run.disturbed
        /\ new.args = Args(Current, run.snap)
    BY <1>1, <1>7 DEF Deploys, Instantiate
  <2> HIDE DEF new
  <2>3. /\ \A i \in 1..Len(inst) : i \in 1..Len(inst') /\ inst'[i] = inst[i]
        /\ inst'[run'.got] = new
    <3>1. /\ Len(inst) \in Nat
          /\ Len(Append(inst, new)) = Len(inst) + 1
          /\ \A i \in 1..Len(inst) : Append(inst, new)[i] = inst[i]
          /\ Append(inst, new)[Len(inst) + 1] = new
      BY <1>1, AppendedIsSequence
    <3> QED
      BY <2>2, <3>1
  <2>4. /\ UNCHANGED orderVars
        /\ UNCHANGED <<art, cmd>>
        /\ run.at \in Deploying
    BY <1>7 DEF Deploys, files
  <2> QED
    BY <2>1, <2>2, <2>3, <2>4, WithinFollow
<1>8. CASE DeploysUnseen \/ DeployRetries
  <2>1. Followable => run.snap = Ids
    BY <1>8 DEF DeploysUnseen, DeployRetries, FollowInv
  <2> QED
    BY <1>1, <1>8, <2>1, WithinFollow DEF DeploysUnseen, DeployRetries, world, files
<1> QED
  BY <1>2, <1>3, <1>4, <1>5, <1>6, <1>7, <1>8

(* What is recorded is the instance that was just constructed with what is
   recorded; nothing deployed before it was constructed with its contract. *)
LEMMA RecordFollow == AttemptInv /\ FollowInv /\ Record => FollowInv'
<1> SUFFICES ASSUME AttemptInv, FollowInv, Record PROVE FollowInv'
  OBVIOUS
<1>1. /\ DOMAIN run = DOMAIN NoRun
      /\ run.at = "record"
      /\ run.rest \in Seq(Name) /\ run.rest # <<>>
      /\ run.got \in 1..Len(inst)
      /\ OrderTypeOK
      /\ DOMAIN art = Name
      /\ InOrder
  BY DEF AttemptInv, GuardInv, OrderInv, FollowInv, Record, At, Attempt, AttemptOK, Deploying
<1>2. /\ run'.at = "graph"
      /\ run'.rest = Tail(run.rest)
      /\ run'.done = run.done \cup {Current}
      /\ run'.disturbed = run.disturbed
  BY <1>1 DEF Record, Continue, NoRun
<1>3. /\ UNCHANGED orderVars
      /\ UNCHANGED <<inst, cmd>>
      /\ art' = [art EXCEPT ![Current] = [id |-> run.got, hash |-> run.hashed]]
  BY DEF Record, Enter, world
<1>4. /\ ScopeInv'
      /\ config' = config
      /\ \A n : Declared(n)' = Declared(n)
  <2>1. ScopeInv' /\ config' = config
    BY <1>3 DEF FollowInv, ScopeInv, Whole, Alone, Visiting, orderVars
  <2> QED
    BY <2>1, SameRefs
<1>5. Loopless'
  BY <1>1, <1>4, BusyIsLoopless, SameLoopless
<1>6. InOrder'
  BY <1>1, <1>2, <1>3, InOrderNext DEF orderVars
<1>7. ASSUME Followable' PROVE Followed'
  <2>1. /\ Followed
        /\ run.snap = Ids
        /\ inst[run.got].args = Args(Current, run.snap)
    BY <1>1, <1>2, <1>3, <1>7 DEF FollowInv, Followable, Attempt, At
  <2>2. Current \in Name
    BY <1>1, CurrentTurn
  <2>3. /\ art'[Current].id = run.got
        /\ \A m \in Name : m # Current => art'[m].id = IdOf(m)
    BY <1>1, <1>3, <2>2 DEF IdOf
  <2>4. ASSUME NEW n \in run.done \cup {Current}, NEW m \in Declared(n)
        PROVE  m \in Name /\ art'[m].id = IdOf(m)
    <3>1. m \in Name /\ m # Current
      BY <1>1, <2>4, Later DEF Attempt, Declared
    <3> QED
      BY <2>3, <3>1
  <2>5. ASSUME NEW n \in run.done \cup {Current}
        PROVE  /\ n \in Name
               /\ art'[n].id \in 1..Len(inst)
               /\ \A m \in Declared(n) : inst[art'[n].id].args[m] = IdOf(m)
    <3>1. CASE n = Current
      <4>1. ASSUME NEW m \in Declared(n)
            PROVE  inst[run.got].args[m] = IdOf(m)
        BY <2>1, <3>1, <4>1 DEF Declared, Args, Ids
      <4> QED
        BY <1>1, <2>2, <2>3, <3>1, <4>1
    <3>2. CASE n \in run.done /\ n # Current
      BY <2>1, <2>3, <3>2 DEF Followed
    <3> QED
      BY <3>1, <3>2
  <2> QED
    BY <1>2, <1>3, <1>4, <2>4, <2>5 DEF Followed, IdOf
<1>8. DOMAIN art' = Name
  BY <1>1, <1>3
<1> QED
  BY <1>2, <1>4, <1>5, <1>6, <1>7, <1>8 DEF FollowInv, At, Attempt, Upgrading, Early

(* An upgrade constructs nothing. *)
LEMMA UpgradeFollow ==
  ASSUME AttemptInv, FollowInv, Upgrades \/ UpgradesUnseen \/ RecordUpgrade
  PROVE  FollowInv'
<1> USE DEF At, NoRun, Attempt, Early, Deploying, Upgrading
<1>1. /\ DOMAIN run = DOMAIN NoRun
      /\ DOMAIN art = Name
      /\ run.at \in Upgrading
      /\ cmd.kind = "upgrade"
  BY DEF AttemptInv, GuardInv, FollowInv, Upgrades, UpgradesUnseen, RecordUpgrade
<1>2. DOMAIN art' = Name
  BY <1>1 DEF Upgrades, UpgradesUnseen, RecordUpgrade, Enter, files
<1>3. CASE Exit
  BY <1>1, <1>2, <1>3, ExitFollow
<1>4. CASE ~Exit
  <2>1. /\ UNCHANGED orderVars
        /\ cmd' = cmd
        /\ run'.at \in {"upgrade", "upgraded", "env"}
    BY <1>1, <1>4 DEF Upgrades, UpgradesUnseen, RecordUpgrade
  <2>2. ScopeInv' /\ Loopless' /\ ~Followable'
    BY <1>1, <2>1, BusyIsLoopless, SameLoopless
    DEF FollowInv, ScopeInv, Whole, Alone, Visiting, orderVars, Followable
  <2> QED
    BY <1>1, <1>2, <2>1, <2>2 DEF FollowInv
<1> QED
  BY <1>3, <1>4

(* Others disturb the command, if there is one. *)
LEMMA OthersFollow ==
  ASSUME AttemptInv, FollowInv, (\E n \in Name : Redeploy(n) \/ Rebuild(n)) \/ Reset
  PROVE  FollowInv'
<1>1. /\ DOMAIN run = DOMAIN NoRun
      /\ DOMAIN art = Name
  BY DEF AttemptInv, GuardInv, FollowInv
<1>2. /\ UNCHANGED orderVars
      /\ cmd' = cmd
      /\ DOMAIN art' = Name
  BY <1>1 DEF Redeploy, Rebuild, Reset, Enter, files
<1>3. /\ run'.at = run.at /\ run'.rest = run.rest /\ run'.done = run.done
      /\ ~At("idle") => run'.disturbed
  BY <1>1 DEF Redeploy, Rebuild, Reset, Disturb, NoRun
<1>4. ScopeInv' /\ config' = config /\ phase' = phase
  BY <1>2 DEF FollowInv, ScopeInv, Whole, Alone, Visiting, orderVars
<1>5. InOrder => InOrder'
  BY <1>2, <1>3, InOrderStays DEF orderVars
<1>6. Followable' => Followed' /\ run'.at = "idle"
  BY <1>3 DEF Followable, Followed, FollowInv, At, Early
<1> QED
  BY <1>2, <1>3, <1>4, <1>5, <1>6, SameLoopless DEF FollowInv, At, Attempt

LEMMA StutterFollow == FollowInv /\ UNCHANGED vars => FollowInv'
<1> SUFFICES ASSUME FollowInv, UNCHANGED vars PROVE FollowInv'
  OBVIOUS
<1>1. UNCHANGED orderVars /\ UNCHANGED <<run, cmd, inst, art>>
  BY DEF vars, world, files
<1>2. ScopeInv' /\ config' = config /\ phase' = phase
  BY <1>1 DEF FollowInv, ScopeInv, Whole, Alone, Visiting, orderVars
<1>3. (Followed => Followed') /\ (InOrder => InOrder')
  BY <1>1, <1>2, FollowedStays, InOrderStays DEF orderVars
<1>4. Ids' = Ids /\ Args(Current, run.snap)' = Args(Current, run.snap)
  <2>1. refs' = refs
    BY <1>2, SameRefs
  <2> QED
    BY <1>1, <2>1 DEF Ids, IdOf, Args, Current
<1> QED
  BY <1>1, <1>2, <1>3, <1>4, SameLoopless DEF FollowInv, Followable, At

LEMMA FollowNext == AttemptInv /\ FollowInv /\ [Next]_vars => FollowInv'
<1> SUFFICES ASSUME AttemptInv, FollowInv, [Next]_vars PROVE FollowInv'
  OBVIOUS
<1>1. CASE Step
  BY <1>1, QuietFollow, EndingFollow, SortFollow, AttemptFollow, RecordFollow, UpgradeFollow
  DEF Step
<1> QED
  BY <1>1, StartFollow, EndingFollow, OthersFollow, StutterFollow DEF Next

(* Whatever the graph and however often the network failed: an undisturbed deploy
   leaves no instance that was constructed with one of a declared dependency that it
   has itself replaced. *)
THEOREM ArgumentsFollow == Spec => []ArgsFollow
<1>1. AttemptInv /\ FollowInv => ArgsFollow
  BY DEF FollowInv, Followable, Followed, ArgsFollow
<1>2. Init => AttemptInv /\ FollowInv
  BY AttemptInit, FollowInit
<1>3. AttemptInv /\ FollowInv /\ [Next]_vars => (AttemptInv /\ FollowInv)'
  BY AttemptNext, FollowNext
<1> QED
  BY <1>1, <1>2, <1>3, PTL DEF Spec

-----------------------------------------------------------------------------
(* What the commands ask of the search *)

(* How a step touches the search: it is one of its own, a command that selects
   what is looked for, the end of one, or none of these. *)
LEMMA SearchKinds ==
  ASSUME [Next]_vars
  PROVE  \/ Sort
         \/ Exit /\ run.at # "idle"
         \/ \E s \in AnyName \cup {None}, d \in BOOLEAN : Select(s, d)
         \/ UNCHANGED orderVars /\ (run.at = "idle" => run'.at = "idle")
<1> USE DEF At
<1>1. CASE Start
  BY <1>1 DEF Start
<1>2. CASE Refuse \/ Fails \/ Ends
  BY <1>2 DEF Refuse, Fails, Ends
<1>3. CASE HookLands \/ HookLandsUnseen \/ HookThrows
  BY <1>3 DEF HookLands, HookLandsUnseen, HookThrows, HookDue, HookFails
<1>4. CASE GenerateAll \/ SmokeEnds \/ Invoke \/ UpgradesUnseen
  BY <1>4 DEF GenerateAll, SmokeEnds, Invoke, UpgradesUnseen
<1>5. CASE \/ Confirm \/ PassGuard \/ Sorted \/ Skip \/ Iterate \/ Verify \/ HashWasm
           \/ Deploys \/ DeploysUnseen \/ DeployRetries \/ Record \/ Deployed \/ LeaveOut
           \/ SkipDeploy \/ SkipStep
  BY <1>5 DEF SkipDeploy, SkipStep, Confirm, PassGuard, Sorted, Skip, Iterate, Verify, HashWasm, Deploys,
     DeploysUnseen, DeployRetries, Record, Deployed, LeaveOut
<1>6. CASE \/ ReadHooks \/ HookRetries \/ HookReads \/ Wired \/ SyncEnv \/ Generated
           \/ BuildOne \/ Upload \/ Upgrades \/ RecordUpgrade \/ Build \/ Smoke
           \/ \E n \in Name : Generate(n) \/ GenerateFails(n)
  BY <1>6 DEF ReadHooks, HookRetries, HookReads, HookDue, Wired, SyncEnv, Generated,
     BuildOne, Upload, Upgrades, RecordUpgrade, Build, Smoke, Generate, GenerateFails, Generating
<1>7. CASE (\E n \in Name : Redeploy(n) \/ Rebuild(n)) \/ Reset
  BY <1>7 DEF Redeploy, Rebuild, Reset, Disturb
<1>8. CASE UNCHANGED vars
  BY <1>8 DEF vars
<1> QED
  BY <1>1, <1>2, <1>3, <1>4, <1>5, <1>6, <1>7, <1>8 DEF Next, Step

(* A command is only at work on a configuration that was loaded. *)
DecidedInv == ExactInv /\ (run.at # "idle" => Well)

LEMMA DecidedInit == Init => DecidedInv
  BY ExactInit DEF Init, DecidedInv, NoRun

LEMMA DecidedNext ==
  AttemptInv /\ FollowInv /\ DecidedInv /\ [Next]_vars => DecidedInv'
<1> SUFFICES ASSUME AttemptInv, FollowInv, DecidedInv, [Next]_vars PROVE DecidedInv'
  OBVIOUS
<1>1. OrderInv /\ ScopeInv /\ ExactInv /\ (run.at # "idle" => Well)
  BY DEF AttemptInv, FollowInv, DecidedInv
<1>2. CASE Sort
  <2>1. run' = run /\ config' = config /\ [OrderNext]_orderVars
    BY <1>2 DEF Sort, Search, VisitRoot, VisitDependency, Leave, Loaded, Resolved, OrderNext
  <2> QED
    BY <1>1, <2>1, ExactNext, SameWell DEF DecidedInv
<1>3. CASE Exit /\ run.at # "idle"
  <2>1. /\ config' = config /\ selected' = None /\ phase' = "loaded" /\ roots' = Name
        /\ stack' = <<>> /\ visited' = {} /\ Well'
    BY <1>1, <1>3, SameWell DEF Exit
  <2>2. Visiting' = {} /\ Requested' = Name
    BY <2>1 DEF Visiting, Requested
  <2> QED
    BY <2>1, <2>2 DEF DecidedInv, ExactInv, Waiting, Covered, Confined, Decided
<1>4. ASSUME NEW s \in AnyName \cup {None}, NEW d \in BOOLEAN, Select(s, d)
      PROVE  DecidedInv'
  <2>1. Well /\ config' = config
    BY <1>1, <1>4 DEF Select, ExactInv, Decided
  <2>2. ExactInv'
    BY <1>1, <1>4, ExactNext DEF OrderNext
  <2> QED
    BY <2>1, <2>2, SameWell DEF DecidedInv
<1>5. CASE UNCHANGED orderVars /\ (run.at = "idle" => run'.at = "idle")
  <2>1. config' = config /\ [OrderNext]_orderVars
    BY <1>5 DEF orderVars
  <2> QED
    BY <1>1, <1>5, <2>1, ExactNext, SameWell DEF DecidedInv
<1> QED
  BY <1>2, <1>3, <1>4, <1>5, SearchKinds

(* Also after any number of commands, and of commands that failed: the configuration
   is refused exactly if it is invalid, and what a command is about to deploy is
   exactly what it was asked for and what that needs. *)
THEOREM SearchStaysRight == Spec => []SearchIsExact
<1>1. Init => AttemptInv /\ FollowInv /\ DecidedInv
  BY AttemptInit, FollowInit, DecidedInit
<1>2. AttemptInv /\ FollowInv /\ DecidedInv /\ [Next]_vars
        => (AttemptInv /\ FollowInv /\ DecidedInv)'
  BY AttemptNext, FollowNext, DecidedNext
<1>3. AttemptInv /\ FollowInv /\ DecidedInv => SearchIsExact
  BY ExactInvIsExact DEF AttemptInv, FollowInv, DecidedInv
<1> QED
  BY <1>1, <1>2, <1>3, PTL DEF Spec

-----------------------------------------------------------------------------
(* Which command is where *)

(* Where a command that neither begins nor ends gets to. *)
Moves(kind, at, next) ==
  \/ next = at
  \/ at = "confirm" /\ next = FirstStep(kind)
  \/ at = "confirm" /\ next = "build" /\ kind = "regression"
  \/ at \in {"guard", "build"} /\ next = "order"
  \/ at = "build" /\ next = "generate"
  \/ at = "order" /\ next = "graph"
  \/ at = "graph" /\ (next \in {"verify", "generate"} \/ (next = "wire" /\ kind = "deploy"))
  \/ at = "verify" /\ next \in {"contract", "graph"}
  \/ at = "contract" /\ next = "record"
  \/ at = "record" /\ next = "graph"
  \/ at = "wire" /\ (next = "hooks" \/ (next = "env" /\ kind \in {"deploy", "upgrade"}))
  \/ at = "hooks" /\ next = "env" /\ kind # "wire"
  \/ at = "hooks" /\ next = "done" /\ kind = "wire"
  \/ at = "env" /\ next = "generate"
  \/ at = "generate" /\ next = "bindings"
  \/ at = "generate" /\ next = "done" /\ kind \in {"deploy", "upgrade"}
  \/ at = "generate" /\ next = "smoke" /\ kind = "regression"
  \/ at = "bindings" /\ next = "done" /\ kind # "regression"
  \/ at = "bindings" /\ next \in {"smoke", "failed"} /\ kind = "regression"
  \/ at = "upload" /\ next \in {"done", "upgrade"}
  \/ at = "upgrade" /\ next = "upgraded"
  \/ at = "upgraded" /\ next = "env"
  \/ at \in {"invoke", "smoke"} /\ next = "done"

LEMMA StepMoves ==
  ASSUME DOMAIN run = DOMAIN NoRun, [Next]_vars
  PROVE  \/ Start
         \/ Exit /\ run.at # "idle"
         \/ UNCHANGED <<cmd, config, selected>> /\ Moves(cmd.kind, run.at, run'.at)
<1> DEFINE Same == UNCHANGED <<cmd, config, selected>>
<1> USE DEF At, Goto, orderVars
<1>0. DOMAIN run = {"at", "rest", "check", "snap", "hashed", "got", "done", "hook", "tries",
                    "todo", "missed", "consented", "sent", "landed", "lapsed", "disturbed",
                    "rebuilt", "reset"}
  BY DEF NoRun
<1>1. CASE Start
  BY <1>1
<1>2. CASE Refuse \/ Fails \/ Ends
  BY <1>2 DEF Refuse, Fails, Ends
<1>3. CASE Confirm \/ PassGuard \/ Sorted \/ Skip \/ Iterate \/ Verify
  <2>1. /\ Same
        /\ \/ run.at = "confirm" /\ run'.at = FirstStep(cmd.kind)
           \/ run.at = "guard" /\ run'.at = "order"
           \/ run.at = "order" /\ run'.at = "graph"
           \/ run.at = "graph" /\ run'.at \in {"graph", "verify"}
           \/ run.at = "verify" /\ run'.at = "verify"
    BY <1>0, <1>3 DEF Confirm, PassGuard, Sorted, Skip, Iterate, Verify, Continue
  <2> QED
    BY <2>1 DEF Moves
<1>4. CASE Sort
  BY <1>4 DEF Sort, Search, VisitRoot, VisitDependency, Leave, Loaded, Resolved, Visit, Throw, Moves
<1>5. CASE HashWasm
  <2>1. run' = Continue \/ \E h : run' = [run EXCEPT !.at = "contract", !.rebuilt = FALSE,
                                                     !.hashed = h]
    BY <1>5 DEF HashWasm
  <2>2. Same /\ run.at = "verify" /\ run'.at \in {"graph", "contract"}
    BY <1>0, <1>5, <2>1 DEF HashWasm, Continue
  <2> QED
    BY <2>2 DEF Moves
<1>6. CASE Deploys \/ DeploysUnseen \/ DeployRetries \/ Record
  <2>1. /\ Same
        /\ \/ run.at = "contract" /\ run'.at \in {"contract", "record"}
           \/ run.at = "record" /\ run'.at = "graph"
    BY <1>0, <1>6 DEF Deploys, DeploysUnseen, DeployRetries, Record, Continue
  <2> QED
    BY <2>1 DEF Moves
<1>7. CASE Deployed
  <2>1. \/ run' = [run EXCEPT !.at = "wire"] /\ cmd.kind = "deploy"
        \/ run' = [run EXCEPT !.at = "generate", !.lapsed = {"wire", "env"}]
    BY <1>7 DEF Deployed
  <2>2. /\ Same /\ run.at = "graph"
        /\ \/ run'.at = "wire" /\ cmd.kind = "deploy"
           \/ run'.at = "generate"
    BY <1>0, <1>7, <2>1 DEF Deployed
  <2> QED
    BY <2>2 DEF Moves
<1>8. CASE LeaveOut
  <2>1. /\ cmd.kind \in {"deploy", "upgrade"}
        /\ Same
        /\ \/ run.at = "wire" /\ run' = [run EXCEPT !.at = "env", !.lapsed = {"wire"}]
           \/ run.at = "env" /\ run' = [run EXCEPT !.at = "generate", !.lapsed = @ \cup {"env"}]
           \/ run.at = "generate" /\ run' = [run EXCEPT !.at = "done", !.lapsed = @ \cup {"bindings"}]
    BY <1>8 DEF LeaveOut
  <2>2. \/ run.at = "wire" /\ run'.at = "env"
        \/ run.at = "env" /\ run'.at = "generate"
        \/ run.at = "generate" /\ run'.at = "done"
    BY <1>0, <2>1
  <2> QED
    BY <2>1, <2>2 DEF Moves
<1>9. CASE ReadHooks \/ HookRetries \/ HookReads \/ SyncEnv \/ GenerateAll
  <2>1. CASE ReadHooks \/ HookRetries \/ HookReads \/ SyncEnv
    <3>1. /\ Same
          /\ \/ run.at = "wire" /\ run'.at = "hooks"
             \/ run.at = "hooks" /\ run'.at = "hooks"
             \/ run.at = "env" /\ run'.at = "generate"
      BY <1>0, <2>1 DEF ReadHooks, HookRetries, HookReads, HookDue, NextHook, SyncEnv
    <3> QED
      BY <3>1 DEF Moves
  <2>2. CASE GenerateAll
    <3>1. /\ run.at = "generate"
          /\ \/ Exit
             \/ /\ Same
                /\ run' = [run EXCEPT !.at = "bindings", !.todo = Targets]
      BY <2>2 DEF GenerateAll
    <3>2. Exit \/ (Same /\ run'.at = "bindings")
      BY <1>0, <3>1
    <3> QED
      BY <3>1, <3>2 DEF Moves
  <2> QED
    BY <1>9, <2>1, <2>2
<1>10. CASE Wired
  <2>1. \/ run' = [run EXCEPT !.at = "done"] /\ cmd.kind = "wire"
        \/ run' = [run EXCEPT !.at = "env"] /\ cmd.kind # "wire"
    BY <1>10 DEF Wired
  <2>2. /\ Same /\ run.at = "hooks"
        /\ \/ run'.at = "done" /\ cmd.kind = "wire"
           \/ run'.at = "env" /\ cmd.kind # "wire"
    BY <1>0, <1>10, <2>1 DEF Wired
  <2> QED
    BY <2>2 DEF Moves
<1>11. ASSUME NEW r, DOMAIN r = DOMAIN run, HookFails(r), run.at = "hooks", ~Exit
       PROVE  Same /\ Moves(cmd.kind, run.at, run'.at)
  <2>1. /\ cmd.kind # "wire" /\ Same
        /\ run' = [r EXCEPT !.at = "env", !.lapsed = @ \cup {"wire"}, !.tries = 0, !.sent = 0]
    BY <1>11 DEF HookFails
  <2>2. run'.at = "env"
    BY <1>0, <1>11, <2>1
  <2> QED
    BY <1>11, <2>1, <2>2 DEF Moves
<1>12. DOMAIN Called = DOMAIN run /\ Called.at = run.at
  BY <1>0 DEF Called
<1>13. CASE HookLands \/ HookLandsUnseen \/ HookThrows
  <2>1. /\ run.at = "hooks"
        /\ \/ HookFails(run) \/ HookFails(Called)
           \/ /\ Same
              /\ run' = NextHook(Called) \/ run' = [Called EXCEPT !.tries = @ + 1]
    BY <1>13 DEF HookLands, HookLandsUnseen, HookThrows, HookDue
  <2>2. CASE run' = NextHook(Called) \/ run' = [Called EXCEPT !.tries = @ + 1]
    <3>1. run'.at = run.at
      BY <1>0, <1>12, <2>2 DEF NextHook
    <3> QED
      BY <1>11, <1>12, <2>1, <3>1 DEF Moves
  <2> QED
    BY <1>11, <1>12, <2>1, <2>2
<1>14. CASE Generated
  <2>1. /\ Same /\ run.at = "bindings"
        /\ \/ cmd.kind # "regression" /\ run' = [run EXCEPT !.at = "done"]
           \/ cmd.kind = "regression" /\ run' = [run EXCEPT !.at = "smoke"]
           \/ cmd.kind = "regression" /\ run' = [run EXCEPT !.at = "failed"]
    BY <1>14 DEF Generated
  <2>2. \/ cmd.kind # "regression" /\ run'.at = "done"
        \/ cmd.kind = "regression" /\ run'.at \in {"smoke", "failed"}
    BY <1>0, <2>1
  <2> QED
    BY <2>1, <2>2 DEF Moves
<1>15. ASSUME NEW n \in Name, Generate(n) \/ GenerateFails(n)
       PROVE  Same /\ Moves(cmd.kind, run.at, run'.at)
  BY <1>0, <1>15 DEF Generate, GenerateFails, Moves
<1>16. CASE BuildOne \/ RecordUpgrade \/ Build
  <2>1. /\ Same
        /\ \/ run.at = "upload" /\ run'.at = "upload"
           \/ run.at = "upgraded" /\ run'.at = "env"
           \/ run.at = "build" /\ run'.at \in {"order", "generate"}
    BY <1>0, <1>16 DEF BuildOne, RecordUpgrade, Build, BuildLeadsTo
  <2> QED
    BY <2>1 DEF Moves
<1>22. CASE SkipDeploy \/ SkipStep
  <2>1. /\ Same /\ cmd.kind = "regression"
        /\ \/ run.at = "confirm" /\ run' = [run EXCEPT !.at = "build", !.lapsed = {"deploy"}]
           \/ /\ run.at = "build"
              /\ \E step \in {"order", "generate"} : run' = [run EXCEPT !.at = step]
           \/ /\ run.at = "generate"
              /\ run' = [run EXCEPT !.at = "smoke", !.lapsed = @ \cup {"bindings"}]
           \/ run.at = "smoke" /\ run' = [run EXCEPT !.at = "done"]
    BY <1>22 DEF SkipDeploy, SkipStep, BuildLeadsTo
  <2>2. \/ run.at = "confirm" /\ run'.at = "build"
        \/ run.at = "build" /\ run'.at \in {"order", "generate"}
        \/ run.at = "generate" /\ run'.at = "smoke"
        \/ run.at = "smoke" /\ run'.at = "done"
    BY <1>0, <2>1
  <2> QED
    BY <2>1, <2>2 DEF Moves
<1>17. CASE Upload
  <2>1. run' = [run EXCEPT !.at = "done"]
          \/ run' = [run EXCEPT !.at = "upgrade", !.hashed = Wasm(cmd.target)]
    BY <1>17 DEF Upload
  <2>2. Same /\ run.at = "upload" /\ run'.at \in {"done", "upgrade"}
    BY <1>0, <1>17, <2>1 DEF Upload
  <2> QED
    BY <2>2 DEF Moves
<1>18. CASE Upgrades \/ UpgradesUnseen \/ Invoke
  <2>1. \/ Exit
        \/ /\ Same
           /\ \/ run' = [run EXCEPT !.at = "upgraded", !.sent = @ + 1] /\ run.at = "upgrade"
              \/ run' = [run EXCEPT !.tries = @ + 1, !.sent = @ + 1] /\ run.at = "upgrade"
              \/ run' = [run EXCEPT !.at = "done", !.sent = @ + 1] /\ run.at = "invoke"
    BY <1>18 DEF Upgrades, UpgradesUnseen, Invoke
  <2>2. /\ run.at \in {"upgrade", "invoke"}
        /\ \/ Exit
           \/ Same /\ run.at = "upgrade" /\ run'.at \in {"upgrade", "upgraded"}
           \/ Same /\ run.at = "invoke" /\ run'.at = "done"
    BY <1>0, <1>18, <2>1 DEF Upgrades, UpgradesUnseen, Invoke
  <2> QED
    BY <2>2 DEF Moves
<1>19. CASE Smoke \/ SmokeEnds
  <2>1. \/ Exit
        \/ /\ Same
           /\ \/ \E l : run' = [run EXCEPT !.hook = @ + 1, !.lapsed = l]
              \/ run' = [run EXCEPT !.at = "done"]
    BY <1>19 DEF Smoke, SmokeEnds
  <2>2. /\ run.at = "smoke"
        /\ \/ Exit
           \/ Same /\ run'.at \in {"smoke", "done"}
    BY <1>0, <1>19, <2>1 DEF Smoke, SmokeEnds
  <2> QED
    BY <2>2 DEF Moves
<1>20. CASE (\E n \in Name : Redeploy(n) \/ Rebuild(n)) \/ Reset
  BY <1>0, <1>20 DEF Redeploy, Rebuild, Reset, Disturb, Moves
<1>21. CASE UNCHANGED vars
  BY <1>21 DEF vars, Moves
<1> QED
  BY <1>1, <1>2, <1>3, <1>4, <1>5, <1>6, <1>7, <1>8, <1>9, <1>10, <1>13, <1>14, <1>15, <1>16,
     <1>17, <1>18, <1>19, <1>20, <1>21, <1>22 DEF Next, Step

(* So where a command is tells what it is. *)
KindInv ==
  /\ run.at # "idle" => /\ cmd \in Commands[config]
                        /\ cmd.kind # "deploy" => selected = None
  /\ At("guard") => cmd.kind = "deploy"
  /\ At("build") => cmd.kind = "regression"
  /\ run.at \in {"order"} \cup Deploying => cmd.kind \in {"deploy", "regression"}
  /\ run.at \in {"wire", "hooks"} => cmd.kind \in {"deploy", "wire"}
  /\ At("env") => cmd.kind \in {"deploy", "upgrade"}
  /\ run.at \in {"generate", "bindings"} => cmd.kind \in {"deploy", "upgrade", "regression"}
  /\ At("invoke") => cmd.kind = "invoke"
  /\ At("smoke") => cmd.kind \in {"smoke", "regression"}

LEMMA KindInit == Init => KindInv
  BY DEF Init, KindInv, NoRun, At, Deploying, Attempt

LEMMA KindNext == AttemptInv /\ FollowInv /\ KindInv /\ [Next]_vars => KindInv'
<1> SUFFICES ASSUME AttemptInv, FollowInv, KindInv, [Next]_vars PROVE KindInv'
  OBVIOUS
<1> USE DEF At, Deploying, Attempt
<1>1. DOMAIN run = DOMAIN NoRun /\ config \in Config
  BY DEF AttemptInv, GuardInv
<1>2. CASE Start
  <2>1. PICK c \in Commands[config], s \in AnyName \cup {None}, d \in BOOLEAN :
          /\ cmd' = c
          /\ c.kind # "deploy" => s = None /\ d
          /\ Select(s, d)
          /\ Goto(IF c.kind = "smoke" THEN "smoke"
                  ELSE IF c.kind = "wire" /\ Hooks = <<>> THEN "done"
                  ELSE "confirm")
    BY <1>2 DEF Start
  <2>2. config' = config /\ selected' = s
    BY <2>1 DEF Select
  <2>3. \/ run'.at = "smoke" /\ c.kind = "smoke"
        \/ run'.at \in {"done", "confirm"}
    BY <1>1, <2>1 DEF Goto, NoRun
  <2> QED
    BY <2>1, <2>2, <2>3 DEF KindInv
<1>3. CASE Exit
  BY <1>3 DEF Exit, NoRun, KindInv
<1>4. CASE UNCHANGED <<cmd, config, selected>> /\ Moves(cmd.kind, run.at, run'.at)
  <2>1. CASE run.at = "confirm"
    <3>1. cmd.kind \in {"deploy", "wire", "upgrade", "invoke", "regression"}
      BY <2>1 DEF AttemptInv, GuardInv, Kind
    <3>2. run'.at # "confirm" =>
            /\ cmd.kind = "deploy" => run'.at = "guard"
            /\ cmd.kind = "wire" => run'.at = "wire"
            /\ cmd.kind = "upgrade" => run'.at = "upload"
            /\ cmd.kind = "invoke" => run'.at = "invoke"
            /\ cmd.kind = "regression" => run'.at = "build"
      BY <1>4, <2>1, <3>1 DEF Moves, FirstStep
    <3> QED
      BY <1>4, <2>1, <3>1, <3>2 DEF KindInv
  <2>2. CASE run.at # "confirm"
    <3>1. run.at = "upgraded" => cmd.kind = "upgrade"
      BY DEF FollowInv, Upgrading
    <3>2. run.at = "idle" => run'.at = "idle"
      BY <1>4, <2>2 DEF Moves
    <3> QED
      BY <1>4, <2>2, <3>1, <3>2 DEF KindInv, Moves
  <2> QED
    BY <2>1, <2>2
<1> QED
  BY <1>1, <1>2, <1>3, <1>4, StepMoves

-----------------------------------------------------------------------------
(* The hooks *)

(* Where no hook has had its turn. *)
Unhooked == {"idle", "confirm", "guard", "build", "order", "wire", "upload", "upgrade", "upgraded",
             "invoke"} \cup Deploying

Landed(i, landed) == \E k \in landed : k.hook = i

(* The call of hook i of what is recorded. *)
RecordedCall(i) == [hook |-> i, on |-> IdOf(Hooks[i].on), ids |-> {IdOf(m) : m \in Hooks[i].refs}]

WireInv ==
  /\ run.hook \in Nat \ {0}
  /\ run.at \in Unhooked => run.hook = 1 /\ run.landed = {}
  /\ \A l \in run.landed : \A i \in InvokeHooks(l.hook) : Landed(i, run.landed)
  /\ At("hooks") => \A i \in InvokeHooks(run.hook - 1) : Landed(i, run.landed)
  /\ ~run.disturbed /\ cmd.kind \in {"wire", "deploy"} =>
       /\ At("hooks") => run.snap = Ids
       /\ \A i \in InvokeHooks(run.hook - 1) : RecordedCall(i) \in run.landed

LEMMA NoHooksYet == InvokeHooks(1 - 1) = {}
  BY DEF InvokeHooks

LEMMA WireInit == Init => WireInv
  BY NoHooksYet DEF Init, NoRun, WireInv, At, Unhooked

LEMMA SameHooks ==
  ASSUME config' = config
  PROVE  Hooks' = Hooks /\ \A n \in Nat : InvokeHooks(n)' = InvokeHooks(n)
<1>1. Hooks' = Hooks
  BY DEF Hooks
<1> QED
  BY <1>1 DEF InvokeHooks

LEMMA SameCalls ==
  ASSUME config' = config, art' = art
  PROVE  Ids' = Ids /\ \A i : RecordedCall(i)' = RecordedCall(i)
  BY SameHooks DEF Ids, IdOf, RecordedCall

(* A step that runs no hook. *)
LEMMA WireStay ==
  ASSUME WireInv, UNCHANGED <<config, cmd>>,
         run'.hook = run.hook, run'.landed = run.landed, run.disturbed => run'.disturbed,
         run'.at \in Unhooked => run.at \in Unhooked,
         run'.at = "hooks" => \/ run.at = "hooks" /\ run'.snap = run.snap
                              \/ run.at \in Unhooked /\ run'.snap = Ids',
         ~run'.disturbed => art' = art \/ run.at \in Unhooked
  PROVE  WireInv'
<1>1. Hooks' = Hooks /\ \A n \in Nat : InvokeHooks(n)' = InvokeHooks(n)
  BY SameHooks
<1>2. run.hook - 1 \in Nat
  BY DEF WireInv
<1>3. InvokeHooks(run.hook - 1)' = InvokeHooks(run.hook - 1)
  BY <1>1 DEF InvokeHooks
<1>4. \A l \in run.landed : InvokeHooks(l.hook)' = InvokeHooks(l.hook)
  BY <1>1 DEF InvokeHooks
<1>5. CASE run.at \in Unhooked
  <2>1. run'.hook = 1 /\ run'.landed = {} /\ InvokeHooks(run.hook - 1)' = {}
    BY <1>3, <1>5, NoHooksYet DEF WireInv
  <2>2. run'.at = "hooks" => run'.snap = Ids'
    BY <1>5 DEF Unhooked, Deploying, Attempt
  <2> QED
    BY <2>1, <2>2 DEF WireInv, At
<1>6. CASE run.at \notin Unhooked
  <2>1. ASSUME ~run'.disturbed, cmd.kind \in {"wire", "deploy"}
        PROVE  /\ run'.at = "hooks" => run'.snap = Ids'
               /\ \A i \in InvokeHooks(run.hook - 1) : RecordedCall(i)' \in run.landed
    <3>1. ~run.disturbed /\ art' = art
      BY <1>6, <2>1
    <3>2. Ids' = Ids /\ \A i : RecordedCall(i)' = RecordedCall(i)
      BY <3>1, SameCalls
    <3> QED
      BY <1>6, <2>1, <3>1, <3>2 DEF WireInv, At
  <2>2. \A l \in run'.landed : \A i \in InvokeHooks(l.hook)' : Landed(i, run'.landed)
    BY <1>4 DEF WireInv
  <2>3. run'.at = "hooks" => \A i \in InvokeHooks(run.hook - 1)' : Landed(i, run'.landed)
    BY <1>3, <1>6 DEF WireInv, At
  <2>4. \A i \in InvokeHooks(run.hook - 1)' : i \in InvokeHooks(run.hook - 1)
    BY <1>3
  <2> QED
    BY <1>6, <2>1, <2>2, <2>3, <2>4 DEF WireInv, At, Landed
<1> QED
  BY <1>5, <1>6

LEMMA ExitWire == Exit => WireInv'
<1> SUFFICES ASSUME Exit PROVE WireInv'
  OBVIOUS
<1>1. /\ run'.hook = 1 /\ run'.landed = {} /\ run'.at = "idle"
      /\ InvokeHooks(1 - 1)' = {}
  BY DEF Exit, NoRun, InvokeHooks
<1> QED
  BY <1>1 DEF WireInv, At, Unhooked

(* What the call of the current hook adds. *)
LEMMA CalledLands ==
  ASSUME WireInv, KindInv, HookDue("invoke"), DOMAIN run = DOMAIN NoRun
  PROVE  /\ DOMAIN Called = DOMAIN run
         /\ Called.at = "hooks" /\ Called.hook = run.hook /\ Called.snap = run.snap
         /\ Called.disturbed = run.disturbed
         /\ \A l \in Called.landed : \A i \in InvokeHooks(l.hook) : Landed(i, Called.landed)
         /\ \A i \in InvokeHooks(run.hook) : Landed(i, Called.landed)
         /\ ~run.disturbed => \A i \in InvokeHooks(run.hook) : RecordedCall(i) \in Called.landed
<1> DEFINE call == [hook |-> run.hook, on |-> run.snap[Hook.on],
                    ids |-> {run.snap[m] : m \in Hook.refs}]
<1>1. /\ DOMAIN Called = DOMAIN run
      /\ Called.at = run.at /\ Called.hook = run.hook /\ Called.snap = run.snap
      /\ Called.disturbed = run.disturbed
      /\ Called.landed = run.landed \cup {call}
  BY DEF Called, NoRun
<1>2. run.at = "hooks" /\ run.hook \in Nat \ {0} /\ cmd.kind \in {"deploy", "wire"}
  BY DEF HookDue, At, WireInv, KindInv
<1>3. \A i \in InvokeHooks(run.hook) : i = run.hook \/ i \in InvokeHooks(run.hook - 1)
  BY <1>2 DEF InvokeHooks
<1>4. call.hook = run.hook
  OBVIOUS
<1>5. ~run.disturbed => call = RecordedCall(run.hook)
  <2>1. ASSUME ~run.disturbed PROVE run.snap = Ids
    BY <1>2, <2>1 DEF WireInv, At
  <2>2. {Hook.on} \cup Hook.refs \subseteq Name
    BY DEF HookDue, Resolvable
  <2>3. ASSUME ~run.disturbed PROVE \A m \in {Hook.on} \cup Hook.refs : run.snap[m] = IdOf(m)
    BY <2>1, <2>2, <2>3 DEF Ids
  <2>4. ASSUME ~run.disturbed
        PROVE  {run.snap[m] : m \in Hook.refs} = {IdOf(m) : m \in Hook.refs}
    BY <2>3, <2>4
  <2> QED
    BY <2>3, <2>4 DEF RecordedCall, Hook
<1> HIDE DEF call
<1>6. \A i \in InvokeHooks(run.hook) : Landed(i, Called.landed)
  BY <1>1, <1>2, <1>3, <1>4 DEF WireInv, At, Landed
<1>7. \A l \in Called.landed : \A i \in InvokeHooks(l.hook) : Landed(i, Called.landed)
  <2>1. ASSUME NEW l \in run.landed, NEW i \in InvokeHooks(l.hook) PROVE Landed(i, Called.landed)
    BY <1>1, <2>1 DEF WireInv, Landed
  <2> QED
    BY <1>1, <1>4, <1>6, <2>1
<1>8. ~run.disturbed => \A i \in InvokeHooks(run.hook) : RecordedCall(i) \in Called.landed
  BY <1>1, <1>2, <1>3, <1>5 DEF WireInv
<1> QED
  BY <1>1, <1>2, <1>6, <1>7, <1>8

(* The hook has been called, and is done with or not. *)
LEMMA CalledWire ==
  ASSUME WireInv, KindInv, HookDue("invoke"), DOMAIN run = DOMAIN NoRun,
         UNCHANGED <<config, cmd, art>>,
         run'.landed = Called.landed, run'.disturbed = run.disturbed,
         \/ run'.hook = run.hook /\ run'.at \in {"hooks", "env"}
         \/ run'.hook = run.hook + 1 /\ run'.at = "hooks",
         run'.snap = run.snap
  PROVE  WireInv'
<1>1. Hooks' = Hooks /\ Ids' = Ids /\ (\A i : RecordedCall(i)' = RecordedCall(i))
  BY SameHooks, SameCalls
<1> DEFINE now == InvokeHooks(run.hook - 1)'
<1>2. /\ now = InvokeHooks(run'.hook - 1)
      /\ \A n : InvokeHooks(n)' = InvokeHooks(n)
  BY <1>1 DEF InvokeHooks
<1> HIDE DEF now
<1>3. run.at = "hooks" /\ run.hook \in Nat \ {0} /\ cmd.kind \in {"deploy", "wire"}
  BY DEF HookDue, At, WireInv, KindInv
<1>4. InvokeHooks(run'.hook - 1) \subseteq InvokeHooks(run.hook)
  BY <1>3 DEF InvokeHooks
<1>5. run'.hook \in Nat \ {0} /\ run'.at \notin Unhooked
  BY <1>3 DEF Unhooked, Deploying, Attempt
<1>6. \A l \in run'.landed : \A i \in InvokeHooks(l.hook)' : Landed(i, run'.landed)
  BY <1>2, CalledLands
<1>7. \A i \in now : Landed(i, run'.landed)
  BY <1>2, <1>4, CalledLands
<1>8. ~run'.disturbed => /\ run'.snap = Ids'
                         /\ \A i \in now : RecordedCall(i)' \in run'.landed
  <2>1. ~run.disturbed => run.snap = Ids
    BY <1>3 DEF WireInv, At
  <2>2. ~run.disturbed => \A i \in InvokeHooks(run'.hook - 1) : RecordedCall(i) \in Called.landed
    BY <1>4, CalledLands
  <2> QED
    BY <1>1, <1>2, <2>1, <2>2
<1> QED
  BY <1>5, <1>6, <1>7, <1>8 DEF WireInv, At, Landed, now

HookStep == ReadHooks \/ HookLands \/ HookLandsUnseen \/ HookRetries \/ HookReads \/ HookThrows
              \/ Smoke

(* What a step leaves to the hooks that is neither one of theirs nor the first or
   the last of a command. *)
LEMMA HooksUntouched ==
  ASSUME DOMAIN run = DOMAIN NoRun, [Next]_vars, ~Start, ~Exit, ~HookStep
  PROVE  /\ run'.hook = run.hook /\ run'.landed = run.landed
         /\ run.disturbed => run'.disturbed
         /\ run.at = "hooks" => run'.snap = run.snap
         /\ run.at = "wire" => run'.at # "hooks"
         /\ run'.disturbed \/ art' = art \/ run.at \in {"idle", "record", "upgraded"}
<1> USE DEF At, Goto
<1>0. DOMAIN run = {"at", "rest", "check", "snap", "hashed", "got", "done", "hook", "tries",
                    "todo", "missed", "consented", "sent", "landed", "lapsed", "disturbed",
                    "rebuilt", "reset"}
  BY DEF NoRun
<1>1. ~(Refuse \/ Fails \/ Ends)
  BY DEF Refuse, Fails, Ends
<1>2. CASE Confirm \/ PassGuard \/ Sorted \/ Skip \/ Iterate \/ Verify
  BY <1>0, <1>2 DEF Confirm, PassGuard, Sorted, Skip, Iterate, Verify, Continue, files
<1>3. CASE Sort
  BY <1>3 DEF Sort, files
<1>4. CASE HashWasm
  <2>1. run' = Continue \/ \E h : run' = [run EXCEPT !.at = "contract", !.rebuilt = FALSE,
                                                     !.hashed = h]
    BY <1>4 DEF HashWasm
  <2> QED
    BY <1>0, <1>4, <2>1 DEF HashWasm, Continue, files
<1>5. CASE Deploys \/ DeploysUnseen \/ DeployRetries \/ Record
  BY <1>0, <1>5 DEF Deploys, DeploysUnseen, DeployRetries, Record, Continue, files
<1>6. CASE Deployed
  <2>1. \/ run' = [run EXCEPT !.at = "wire"]
        \/ run' = [run EXCEPT !.at = "generate", !.lapsed = {"wire", "env"}]
    BY <1>6 DEF Deployed
  <2> QED
    BY <1>0, <1>6, <2>1 DEF Deployed, files
<1>7. CASE LeaveOut
  <2>1. /\ art' = art /\ run.at # "hooks"
        /\ \/ run' = [run EXCEPT !.at = "env", !.lapsed = {"wire"}]
           \/ run' = [run EXCEPT !.at = "generate", !.lapsed = @ \cup {"env"}]
           \/ run' = [run EXCEPT !.at = "done", !.lapsed = @ \cup {"bindings"}]
    BY <1>7 DEF LeaveOut, files
  <2> QED
    BY <1>0, <2>1
<1>8. CASE SyncEnv \/ GenerateAll \/ Wired
  <2>1. \/ run' = [run EXCEPT !.at = "done"]
        \/ run' = [run EXCEPT !.at = "env"]
        \/ run' = [run EXCEPT !.at = "generate"]
        \/ run' = [run EXCEPT !.at = "bindings", !.todo = Targets]
    BY <1>8 DEF SyncEnv, GenerateAll, Wired
  <2>2. art' = art
    BY <1>8 DEF SyncEnv, GenerateAll, Wired, files
  <2> QED
    BY <1>0, <2>1, <2>2
<1>9. CASE Generated \/ SmokeEnds
  <2>1. \/ run' = [run EXCEPT !.at = "done"]
        \/ run' = [run EXCEPT !.at = "smoke"]
        \/ run' = [run EXCEPT !.at = "failed"]
    BY <1>9 DEF Generated, SmokeEnds
  <2> QED
    BY <1>0, <1>9, <2>1 DEF Generated, SmokeEnds, files
<1>10. ASSUME NEW n \in Name, Generate(n) \/ GenerateFails(n)
       PROVE  /\ run'.hook = run.hook /\ run'.landed = run.landed
              /\ run'.disturbed = run.disturbed /\ art' = art
              /\ run.at \notin {"hooks", "wire"}
  BY <1>0, <1>10 DEF Generate, GenerateFails, Generating, files
<1>11. CASE BuildOne \/ RecordUpgrade \/ Build
  BY <1>0, <1>11 DEF BuildOne, RecordUpgrade, Build, BuildLeadsTo, files
<1>12. CASE Upload
  <2>1. run' = [run EXCEPT !.at = "done"]
          \/ run' = [run EXCEPT !.at = "upgrade", !.hashed = Wasm(cmd.target)]
    BY <1>12 DEF Upload
  <2> QED
    BY <1>0, <1>12, <2>1 DEF Upload, files
<1>13. CASE Upgrades \/ UpgradesUnseen \/ Invoke
  <2>1. \/ run' = [run EXCEPT !.at = "upgraded", !.sent = @ + 1]
        \/ run' = [run EXCEPT !.tries = @ + 1, !.sent = @ + 1]
        \/ run' = [run EXCEPT !.at = "done", !.sent = @ + 1]
    BY <1>13 DEF Upgrades, UpgradesUnseen, Invoke
  <2> QED
    BY <1>0, <1>13, <2>1 DEF Upgrades, UpgradesUnseen, Invoke, files
<1>16. CASE SkipDeploy \/ SkipStep
  <2>1. /\ art' = art /\ run.at \notin {"hooks", "wire"}
        /\ \/ run' = [run EXCEPT !.at = "build", !.lapsed = {"deploy"}]
           \/ \E step \in {"order", "generate", "done"} : run' = [run EXCEPT !.at = step]
           \/ run' = [run EXCEPT !.at = "smoke", !.lapsed = @ \cup {"bindings"}]
    BY <1>16 DEF SkipDeploy, SkipStep, BuildLeadsTo, files
  <2> QED
    BY <1>0, <2>1
<1>14. CASE (\E n \in Name : Redeploy(n) \/ Rebuild(n)) \/ Reset
  BY <1>0, <1>14 DEF Redeploy, Rebuild, Reset, Disturb, files
<1>15. CASE UNCHANGED vars
  BY <1>15 DEF vars, files
<1> QED
  BY <1>1, <1>2, <1>3, <1>4, <1>5, <1>6, <1>7, <1>8, <1>9, <1>10, <1>11, <1>12, <1>13, <1>14,
     <1>15, <1>16 DEF Next, Step, HookStep

LEMMA HookStepWire ==
  ASSUME AttemptInv, WireInv, KindInv, HookStep, ~Exit PROVE WireInv'
<1> USE DEF At
<1>0. DOMAIN run = {"at", "rest", "check", "snap", "hashed", "got", "done", "hook", "tries",
                    "todo", "missed", "consented", "sent", "landed", "lapsed", "disturbed",
                    "rebuilt", "reset"}
  BY DEF AttemptInv, GuardInv, NoRun
<1>1. CASE ReadHooks
  <2>1. /\ UNCHANGED <<config, cmd, art>> /\ run.at = "wire" /\ run'.at = "hooks"
        /\ run'.hook = run.hook /\ run'.landed = run.landed
        /\ run'.disturbed = run.disturbed /\ run'.snap = Ids
    BY <1>0, <1>1 DEF ReadHooks, orderVars, files
  <2>2. Ids' = Ids
    BY <2>1, SameCalls
  <2> QED
    BY <2>1, <2>2, WireStay DEF Unhooked
<1>2. ASSUME NEW r, DOMAIN r = DOMAIN run, HookFails(r)
      PROVE  /\ UNCHANGED <<config, cmd>>
             /\ run'.at = "env" /\ run'.hook = r.hook /\ run'.landed = r.landed
             /\ run'.disturbed = r.disturbed /\ run'.snap = r.snap
  <2>1. /\ UNCHANGED <<config, cmd>>
        /\ run' = [r EXCEPT !.at = "env", !.lapsed = @ \cup {"wire"}, !.tries = 0, !.sent = 0]
    BY <1>2 DEF HookFails, orderVars
  <2> QED
    BY <1>0, <1>2, <2>1
<1>3. CASE HookLands \/ HookLandsUnseen
  <2>1. /\ HookDue("invoke") /\ art' = art /\ run.at = "hooks"
        /\ \/ HookFails(Called)
           \/ /\ UNCHANGED <<config, cmd>>
              /\ run' = NextHook(Called) \/ run' = [Called EXCEPT !.tries = @ + 1]
    BY <1>3 DEF HookLands, HookLandsUnseen, HookDue, files, orderVars
  <2>2. /\ DOMAIN Called = DOMAIN run
        /\ Called.at = "hooks" /\ Called.hook = run.hook /\ Called.snap = run.snap
        /\ Called.disturbed = run.disturbed
    BY <2>1, CalledLands DEF AttemptInv, GuardInv
  <2>3. /\ UNCHANGED <<config, cmd>>
        /\ run'.landed = Called.landed /\ run'.disturbed = run.disturbed /\ run'.snap = run.snap
        /\ \/ run'.hook = run.hook /\ run'.at \in {"hooks", "env"}
           \/ run'.hook = run.hook + 1 /\ run'.at = "hooks"
    <3>1. CASE HookFails(Called)
      BY <1>2, <2>2, <3>1
    <3>2. CASE run' = NextHook(Called) \/ run' = [Called EXCEPT !.tries = @ + 1]
      <4>1. /\ run'.landed = Called.landed /\ run'.disturbed = run.disturbed
            /\ run'.snap = run.snap /\ run'.at = "hooks"
            /\ run'.hook \in {run.hook, run.hook + 1}
        <5>1. CASE run' = NextHook(Called)
          BY <1>0, <2>2, <5>1 DEF NextHook
        <5>2. CASE run' = [Called EXCEPT !.tries = @ + 1]
          BY <1>0, <2>2, <5>2
        <5> QED
          BY <3>2, <5>1, <5>2
      <4> QED
        BY <1>2, <2>1, <2>2, <4>1
    <3> QED
      BY <2>1, <3>1, <3>2
  <2> QED
    BY <2>1, <2>3, CalledWire DEF AttemptInv, GuardInv
<1>4. CASE HookRetries \/ HookThrows
  <2>1. /\ art' = art /\ run.at = "hooks"
        /\ \/ HookFails(run)
           \/ UNCHANGED <<config, cmd>> /\ run' = [run EXCEPT !.tries = @ + 1]
    BY <1>4 DEF HookRetries, HookThrows, HookDue, files, orderVars
  <2>2. /\ UNCHANGED <<config, cmd>>
        /\ run'.hook = run.hook /\ run'.landed = run.landed
        /\ run'.disturbed = run.disturbed /\ run'.snap = run.snap
        /\ run'.at \in {"hooks", "env"}
    BY <1>0, <1>2, <2>1
  <2> QED
    BY <2>1, <2>2, WireStay DEF Unhooked, Deploying, Attempt
<1>5. CASE HookReads
  <2>1. /\ UNCHANGED <<config, cmd, art>> /\ run.at = "hooks" /\ Hook.kind = "read"
        /\ run' = NextHook(run)
    BY <1>5 DEF HookReads, HookDue, files, orderVars
  <2>2. /\ run'.hook = run.hook + 1 /\ run'.landed = run.landed /\ run'.at = "hooks"
        /\ run'.disturbed = run.disturbed /\ run'.snap = run.snap
    BY <1>0, <2>1 DEF NextHook
  <2>3. Hooks' = Hooks /\ Ids' = Ids /\ (\A i : RecordedCall(i)' = RecordedCall(i))
    BY <2>1, SameHooks, SameCalls
  <2> DEFINE now == InvokeHooks(run.hook - 1)'
  <2>4. run.hook \in Nat \ {0}
    BY DEF WireInv
  <2>5. now = InvokeHooks(run.hook - 1) /\ \A n : InvokeHooks(n)' = InvokeHooks(n)
    BY <2>1, <2>2, <2>3, <2>4 DEF InvokeHooks, Hook
  <2> HIDE DEF now
  <2> QED
    BY <2>1, <2>2, <2>3, <2>4, <2>5 DEF WireInv, Unhooked, Deploying, Attempt, now, Landed
<1>6. CASE Smoke
  <2>1. PICK l : run' = [run EXCEPT !.hook = @ + 1, !.lapsed = l]
    BY <1>6 DEF Smoke
  <2>2. /\ run'.hook = run.hook + 1 /\ run'.landed = run.landed /\ run'.at = "smoke"
        /\ UNCHANGED <<config, cmd>>
    BY <1>0, <1>6, <2>1 DEF Smoke, orderVars
  <2>3. cmd.kind \notin {"wire", "deploy"}
    BY <1>6 DEF Smoke, KindInv
  <2>4. \A n : InvokeHooks(n)' = InvokeHooks(n)
    BY <2>2, SameHooks DEF InvokeHooks
  <2> QED
    BY <2>2, <2>3, <2>4 DEF WireInv, Unhooked, Deploying, Attempt, Landed
<1> QED
  BY <1>1, <1>3, <1>4, <1>5, <1>6 DEF HookStep

LEMMA WireNext == AttemptInv /\ WireInv /\ KindInv /\ [Next]_vars => WireInv'
<1> SUFFICES ASSUME AttemptInv, WireInv, KindInv, [Next]_vars PROVE WireInv'
  OBVIOUS
<1>1. DOMAIN run = DOMAIN NoRun
  BY DEF AttemptInv, GuardInv
<1>2. CASE Start
  <2>1. /\ config' = config /\ art' = art /\ run.at = "idle"
        /\ run' = [run EXCEPT !.at = run'.at]
    BY <1>1, <1>2 DEF Start, Select, Goto, files, At, NoRun
  <2>2. run'.at \in {"smoke", "done", "confirm"}
    BY <1>1, <1>2 DEF Start, Goto, NoRun
  <2>3. run'.hook = 1 /\ run'.landed = {}
    BY <1>1, <2>1 DEF WireInv, Unhooked, NoRun
  <2>4. InvokeHooks(run.hook - 1)' = {}
    BY <2>3 DEF InvokeHooks
  <2> QED
    BY <2>2, <2>3, <2>4 DEF WireInv, At
<1>3. CASE Exit
  BY <1>3, ExitWire
<1>4. CASE ~Start /\ ~Exit /\ HookStep
  BY <1>4, HookStepWire
<1>5. CASE ~Start /\ ~Exit /\ ~HookStep
  <2>1. UNCHANGED <<cmd, config>> /\ Moves(cmd.kind, run.at, run'.at)
    BY <1>1, <1>5, StepMoves
  <2>2. /\ run'.hook = run.hook /\ run'.landed = run.landed
        /\ run.disturbed => run'.disturbed
        /\ run.at = "hooks" => run'.snap = run.snap
        /\ run.at = "wire" => run'.at # "hooks"
        /\ run'.disturbed \/ art' = art \/ run.at \in {"idle", "record", "upgraded"}
    BY <1>1, <1>5, HooksUntouched
  <2>3. run.at = "confirm" =>
          cmd.kind \in {"deploy", "wire", "upgrade", "invoke", "regression"}
    BY DEF AttemptInv, GuardInv, Kind
  <2>4. /\ run'.at \in Unhooked => run.at \in Unhooked
        /\ run'.at = "hooks" => run.at = "hooks"
    <3>1. CASE run.at = "confirm"
      <4>1. FirstStep(cmd.kind) # "hooks"
        BY <2>3, <3>1 DEF FirstStep
      <4> QED
        BY <2>1, <3>1, <4>1 DEF Moves, Unhooked
    <3>2. CASE run.at # "confirm"
      BY <2>1, <2>2, <3>2 DEF Moves, Unhooked, Deploying, Attempt
    <3> QED
      BY <3>1, <3>2
  <2> QED
    BY <2>1, <2>2, <2>4, WireStay DEF Unhooked, Deploying, Attempt
<1> QED
  BY <1>2, <1>3, <1>4, <1>5

LEMMA HooksAreMany == config \in Config => Len(Hooks) \in Nat
<1> SUFFICES ASSUME config \in Config PROVE Len(Hooks) \in Nat
  OBVIOUS
<1>1. config.postDeploy \in Seq(HookLine) /\ config.postDeployRead \in Seq(HookLine)
  BY GraphAssumption
<1> DEFINE read == [i \in 1..Len(config.postDeployRead) |->
                      [config.postDeployRead[i] EXCEPT !.kind = "read"]]
<1>2. read \in Seq({read[i] : i \in 1..Len(config.postDeployRead)})
  <2>1. Len(config.postDeployRead) \in Nat
    BY <1>1
  <2> HIDE DEF read
  <2>2. DOMAIN read = 1..Len(config.postDeployRead)
        /\ read = [i \in 1..Len(config.postDeployRead) |-> read[i]]
    BY DEF read
  <2> QED
    BY <2>1, <2>2, SeqDef
<1> HIDE DEF read
<1>3. config.postDeploy \o read \in Seq(HookLine \cup {read[i] : i \in 1..Len(config.postDeployRead)})
  BY <1>1, <1>2
<1> QED
  BY <1>3 DEF Hooks, read

(* `ctg wire` and the hooks of a deploy: in order, none after one that failed, and
   when all are through they have called what is recorded with what is recorded,
   however often the network lost an answer. *)
THEOREM HooksRunInOrder == Spec => []WireIsComplete
<1>1. AttemptInv /\ WireInv => WireIsComplete
  <2> SUFFICES ASSUME AttemptInv, WireInv PROVE WireIsComplete
    OBVIOUS
  <2>1. Len(Hooks) \in Nat /\ run.hook \in Nat
    BY HooksAreMany DEF AttemptInv, GuardInv, WireInv
  <2>2. run.hook > Len(Hooks) => InvokeHooks(Len(Hooks)) \subseteq InvokeHooks(run.hook - 1)
    BY <2>1 DEF InvokeHooks
  <2> QED
    BY <2>2 DEF WireInv, WireIsComplete, Landed, RecordedCall
<1>2. Init => AttemptInv /\ FollowInv /\ KindInv /\ WireInv
  BY AttemptInit, FollowInit, KindInit, WireInit
<1>3. AttemptInv /\ FollowInv /\ KindInv /\ WireInv /\ [Next]_vars
        => (AttemptInv /\ FollowInv /\ KindInv /\ WireInv)'
  BY AttemptNext, FollowNext, KindNext, WireNext
<1> QED
  BY <1>1, <1>2, <1>3, PTL DEF Spec

-----------------------------------------------------------------------------
(* What the frontend is given *)

Following == {"generate", "bindings", "done"}

(* From the env file on, what has not lapsed has been done, or is being done. *)
FrontInv == cmd.kind = "deploy" /\ ~run.disturbed =>
  /\ run.at \in Following /\ "env" \notin run.lapsed => env = Name
  /\ run.at \in {"bindings", "done"} /\ "bindings" \notin run.lapsed
       => run.done \ run.missed \subseteq bound \cup run.todo

LEMMA FrontInit == Init => FrontInv
  BY DEF Init, FrontInv, NoCommand

(* Which steps of a deploy come to where the frontend follows. *)
LEMMA FollowingSteps ==
  ASSUME AttemptInv, FollowInv, KindInv, [Next]_vars, cmd.kind = "deploy", run'.at \in Following
  PROVE  \/ Start
         \/ Exit /\ run.at # "idle"
         \/ Deployed \/ LeaveOut \/ SyncEnv \/ GenerateAll \/ Generated
         \/ \E n \in Name : Generate(n) \/ GenerateFails(n)
         \/ UNCHANGED <<run, cmd, files>>
         \/ run'.disturbed
<1>0. DOMAIN run = {"at", "rest", "check", "snap", "hashed", "got", "done", "hook", "tries",
                    "todo", "missed", "consented", "sent", "landed", "lapsed", "disturbed",
                    "rebuilt", "reset"}
  BY DEF AttemptInv, GuardInv, NoRun
<1> USE DEF At, Goto
<1>1. CASE Start \/ (Exit /\ run.at # "idle")
  BY <1>1
<1>2. ASSUME ~Start, ~(Exit /\ run.at # "idle")
      PROVE  Moves(cmd.kind, run.at, run'.at)
  BY <1>2, StepMoves DEF AttemptInv, GuardInv
<1>3. ASSUME ~Start, ~(Exit /\ run.at # "idle")
      PROVE  run.at \in {"graph", "env"} \cup Following
  <2>1. run.at = "confirm" => FirstStep(cmd.kind) = "guard"
    BY DEF FirstStep
  <2>2. run.at \notin {"build", "upload", "invoke", "smoke"}
    BY DEF FollowInv, Upgrading, KindInv
  <2> QED
    BY <1>2, <1>3, <2>1, <2>2 DEF Moves, Following
<1>4. ASSUME ~Start, ~(Exit /\ run.at # "idle"),
             \/ Confirm \/ PassGuard \/ Sorted \/ Verify \/ HashWasm
             \/ Deploys \/ DeploysUnseen \/ DeployRetries \/ Record
             \/ ReadHooks \/ HookLands \/ HookLandsUnseen \/ HookRetries \/ HookReads
             \/ HookThrows \/ Wired
             \/ BuildOne \/ Upload \/ Upgrades \/ UpgradesUnseen \/ RecordUpgrade \/ Invoke
             \/ Build \/ Smoke \/ SmokeEnds \/ SkipDeploy \/ SkipStep
      PROVE  FALSE
  BY <1>3, <1>4
  DEF Following, Confirm, PassGuard, Sorted, Verify, HashWasm, Deploys, DeploysUnseen,
      DeployRetries, Record, ReadHooks, HookLands, HookLandsUnseen, HookRetries, HookReads, HookDue,
      HookThrows, Wired, BuildOne, Upload, Upgrades, UpgradesUnseen, RecordUpgrade, Invoke,
      Build, Smoke, SmokeEnds, SkipDeploy, SkipStep
<1>5. CASE Sort \/ UNCHANGED vars
  BY <1>5 DEF Sort, vars
<1>8. ASSUME ~Start, ~(Exit /\ run.at # "idle"), Skip \/ Iterate PROVE FALSE
  BY <1>0, <1>8 DEF Skip, Iterate, Continue, Following
<1>6. CASE (\E n \in Name : Redeploy(n) \/ Rebuild(n)) \/ Reset
  BY <1>0, <1>6 DEF Redeploy, Rebuild, Reset, Disturb, Following
<1>7. CASE Refuse \/ Fails \/ Ends
  BY <1>7 DEF Refuse, Fails, Ends
<1> QED
  BY <1>1, <1>4, <1>5, <1>6, <1>7, <1>8 DEF Next, Step

LEMMA FrontNext ==
  AttemptInv /\ FollowInv /\ KindInv /\ FrontInv /\ [Next]_vars => FrontInv'
<1> SUFFICES ASSUME AttemptInv, FollowInv, KindInv, FrontInv, [Next]_vars,
                    cmd'.kind = "deploy", ~run'.disturbed, run'.at \in Following
             PROVE  /\ "env" \notin run'.lapsed => env' = Name
                    /\ run'.at \in {"bindings", "done"} /\ "bindings" \notin run'.lapsed
                         => run'.done \ run'.missed \subseteq bound' \cup run'.todo
  BY DEF FrontInv, At, Following
<1>0. DOMAIN run = {"at", "rest", "check", "snap", "hashed", "got", "done", "hook", "tries",
                    "todo", "missed", "consented", "sent", "landed", "lapsed", "disturbed",
                    "rebuilt", "reset"}
  BY DEF AttemptInv, GuardInv, NoRun
<1> USE DEF At, Goto
<1>1. ~Start
  BY <1>0 DEF Start, Following
<1>2. ~Exit
  BY DEF Exit, NoRun, Following
<1>3. cmd' = cmd /\ cmd.kind = "deploy"
  BY <1>1, <1>2, StepMoves DEF AttemptInv, GuardInv
<1>4. CASE UNCHANGED <<run, cmd, files>>
  BY <1>3, <1>4 DEF FrontInv, files
<1>5. CASE Deployed
  <2>1. \/ run' = [run EXCEPT !.at = "wire"]
        \/ run' = [run EXCEPT !.at = "generate", !.lapsed = {"wire", "env"}]
    BY <1>5 DEF Deployed
  <2>2. run'.at = "generate" /\ run'.lapsed = {"wire", "env"}
    BY <1>0, <2>1 DEF Following
  <2> QED
    BY <2>2
<1>6. CASE LeaveOut
  <2>1. /\ env' = env
        /\ \/ run.at = "wire" /\ run'.at = "env"
           \/ run.at = "env" /\ run'.at = "generate" /\ run'.lapsed = run.lapsed \cup {"env"}
           \/ /\ run.at = "generate" /\ run'.at = "done"
              /\ run'.lapsed = run.lapsed \cup {"bindings"}
              /\ run'.disturbed = run.disturbed
    BY <1>0, <1>6 DEF LeaveOut, files
  <2> QED
    BY <1>3, <2>1 DEF FrontInv, Following
<1>7. CASE SyncEnv
  BY <1>0, <1>7 DEF SyncEnv
<1>8. CASE GenerateAll
  <2>1. /\ env' = env /\ run.at = "generate" /\ run'.at = "bindings"
        /\ run'.todo = run.done /\ run'.done = run.done
        /\ run'.lapsed = run.lapsed /\ run'.disturbed = run.disturbed
    BY <1>0, <1>3, <1>8 DEF GenerateAll, Targets, files
  <2> QED
    BY <1>3, <2>1 DEF FrontInv, Following
<1>9. CASE Generated
  <2>1. /\ UNCHANGED <<env, bound>> /\ run.at = "bindings"
        /\ run' = [run EXCEPT !.at = "done"]
    BY <1>3, <1>9 DEF Generated, files
  <2>2. /\ run'.at = "done" /\ run'.done = run.done
        /\ run'.todo = run.todo /\ run'.missed = run.missed
        /\ run'.lapsed = run.lapsed /\ run'.disturbed = run.disturbed
    BY <1>0, <2>1
  <2> QED
    BY <1>3, <2>1, <2>2 DEF FrontInv, Following
<1>10. ASSUME NEW n \in Name, Generate(n) \/ GenerateFails(n)
       PROVE  /\ "env" \notin run'.lapsed => env' = Name
              /\ "bindings" \notin run'.lapsed
                   => run'.done \ run'.missed \subseteq bound' \cup run'.todo
  <2>1. /\ env' = env /\ run.at \in {"bindings", "done", "failed"} /\ run'.at = run.at
        /\ run'.done = run.done /\ run'.disturbed = run.disturbed /\ run'.lapsed = run.lapsed
        /\ run'.todo = run.todo \ {n}
        /\ \/ bound' = bound \cup {n} /\ run'.missed = run.missed
           \/ bound' = bound /\ run'.missed = run.missed \cup {n}
    BY <1>0, <1>10 DEF Generate, GenerateFails, Generating, files
  <2> QED
    BY <1>3, <2>1 DEF FrontInv, Following
<1> QED
  BY <1>1, <1>2, <1>3, <1>4, <1>5, <1>6, <1>7, <1>8, <1>9, <1>10, FollowingSteps

(* What a deploy leaves of the frontend, when nobody interfered and it has not
   warned: an env file with every recorded id, and bindings of everything it has
   deployed, dependencies included, but for those whose generator failed: the others
   are there or still on the way, also when the failure has been reported. *)
THEOREM FrontendStaysTrue == Spec => []FrontendFollows
<1>1. FrontInv => FrontendFollows
  BY DEF FrontInv, FrontendFollows, At, Following
<1>2. Init => AttemptInv /\ FollowInv /\ KindInv /\ FrontInv
  BY AttemptInit, FollowInit, KindInit, FrontInit
<1>3. AttemptInv /\ FollowInv /\ KindInv /\ FrontInv /\ [Next]_vars
        => (AttemptInv /\ FollowInv /\ KindInv /\ FrontInv)'
  BY AttemptNext, FollowNext, KindNext, FrontNext
<1> QED
  BY <1>1, <1>2, <1>3, PTL DEF Spec

-----------------------------------------------------------------------------
(* What a regression leaves *)

UpToDate(n) == IdOf(n) # 0 /\ art[n].hash = Wasm(n)
Bound(n) == n \in bound /\ Exists(IdOf(n))
WithAddress == {n \in Name : IdOf(n) # 0}

(* What has had its turn is of the wasm that was built, then all is, then the
   bindings follow it: as far as that was not skipped. *)
CurrentInv ==
  cmd.kind = "regression" /\ ~run.disturbed =>
    /\ run.at \in Deploying => \A i \in 1..Turns : UpToDate(order[i])
    /\ run.at \in {"contract", "record"} => run.hashed = Wasm(Current)
    /\ run.at \in {"generate", "bindings", "smoke", "done"} /\ "deploy" \notin run.lapsed
         => \A n \in Name : UpToDate(n)
    /\ At("bindings") => \A n \in WithAddress : n \in run.todo \cup run.missed \/ Bound(n)
    /\ run.at \in {"smoke", "done"} /\ "bindings" \notin run.lapsed => \A n \in WithAddress : Bound(n)

LEMMA CurrentInit == Init => CurrentInv
  BY DEF Init, CurrentInv, NoCommand, NoRun

LEMMA WasmStays ==
  ASSUME config' = config, wasm' = wasm
  PROVE  \A n : Wasm(n)' = Wasm(n)
<1>1. Shadowed' <=> Shadowed
  BY DEF Shadowed, HasWasm, WasmPaths, Migrated, Alternates
<1> QED
  BY <1>1 DEF Wasm

(* The file and the wasm stay, and so does what is up to date. *)
LEMMA UpToDateStays ==
  ASSUME config' = config, wasm' = wasm, art' = art, gone' = gone, bound' = bound
  PROVE  /\ \A n : UpToDate(n)' = UpToDate(n) /\ Bound(n)' = Bound(n)
         /\ WithAddress' = WithAddress
  BY WasmStays DEF UpToDate, Bound, Exists, IdOf, WithAddress

(* A regression is at work between its build and its end in these steps. *)
RegressionStep ==
  \/ Sorted \/ Skip \/ Iterate \/ Verify \/ HashWasm \/ Deploys \/ DeploysUnseen \/ DeployRetries
  \/ Record \/ Deployed \/ GenerateAll \/ Generated \/ Smoke \/ SmokeEnds
  \/ \E n \in Name : Generate(n) \/ GenerateFails(n)
  \/ SkipStep /\ ~At("build")

LEMMA RegressionSteps ==
  ASSUME AttemptInv, FollowInv, KindInv, [Next]_vars, cmd.kind = "regression"
  PROVE  \/ Start
         \/ Exit
         \/ RegressionStep
         \/ run'.at \in {"build", "order", "confirm", "idle"}
         \/ run'.at = "generate" /\ "deploy" \in run'.lapsed
         \/ /\ UNCHANGED <<run, cmd, config, files, wasm, gone>>
            /\ run.at \in Deploying => order' = order
         \/ run'.disturbed
<1>0. DOMAIN run = {"at", "rest", "check", "snap", "hashed", "got", "done", "hook", "tries",
                    "todo", "missed", "consented", "sent", "landed", "lapsed", "disturbed",
                    "rebuilt", "reset"}
  BY DEF AttemptInv, GuardInv, NoRun
<1> USE DEF At, Goto
<1>1. run.at \notin {"guard", "wire", "hooks", "env", "upload", "upgrade", "upgraded", "invoke"}
  BY DEF FollowInv, Upgrading, KindInv
<1>2. CASE Refuse \/ Fails \/ Ends
  BY <1>2 DEF Refuse, Fails, Ends
<1>3. CASE \/ PassGuard \/ LeaveOut \/ ReadHooks \/ HookLands \/ HookLandsUnseen \/ HookRetries
           \/ HookReads \/ HookThrows \/ Wired \/ SyncEnv
           \/ BuildOne \/ Upload \/ Upgrades \/ UpgradesUnseen \/ RecordUpgrade \/ Invoke
  <2>1. FALSE
    BY <1>1, <1>3
    DEF PassGuard, LeaveOut, ReadHooks, HookLands, HookLandsUnseen, HookRetries, HookReads, HookDue,
        HookThrows, Wired, SyncEnv, BuildOne, Upload, Upgrades, UpgradesUnseen, RecordUpgrade, Invoke
  <2> QED
    BY <2>1
<1>4. CASE Confirm
  <2>1. FirstStep(cmd.kind) = "build"
    BY DEF FirstStep
  <2>2. run' = [run EXCEPT !.at = "build", !.consented = RequiresConfirmation]
    BY <1>4, <2>1 DEF Confirm
  <2> QED
    BY <1>0, <2>2
<1>5. CASE Build \/ (SkipStep /\ run.at = "build")
  <2>1. /\ run' = [run EXCEPT !.at = BuildLeadsTo]
        /\ BuildLeadsTo = "order" \/ (BuildLeadsTo = "generate" /\ "deploy" \in run.lapsed)
    BY <1>5 DEF Build, SkipStep, BuildLeadsTo
  <2> HIDE DEF BuildLeadsTo
  <2> QED
    BY <1>0, <2>1
<1>9. CASE SkipDeploy
  BY <1>0, <1>9 DEF SkipDeploy
<1>6. CASE Sort
  <2>1. /\ run' = run /\ phase \in {"load", "resolve"}
        /\ UNCHANGED <<cmd, config, files, world>>
    BY <1>6 DEF Sort, Search, VisitRoot, VisitDependency, Leave, Loaded, Resolved, Searching,
                SearchEnds
  <2>2. run.at \notin Deploying
    BY <2>1 DEF FollowInv, InOrder
  <2> QED
    BY <2>1, <2>2 DEF world
<1>7. CASE UNCHANGED vars
  BY <1>7 DEF vars, orderVars, world, files
<1>8. CASE (\E n \in Name : Redeploy(n) \/ Rebuild(n)) \/ Reset
  BY <1>0, <1>8 DEF Redeploy, Rebuild, Reset, Disturb
<1> QED
  BY <1>2, <1>3, <1>4, <1>5, <1>6, <1>7, <1>8, <1>9 DEF Next, Step, RegressionStep

(* What has been recorded of the contracts before stays when the next is done. *)
LEMMA TurnNext ==
  ASSUME AttemptInv, FollowInv, CurrentInv, UNCHANGED <<phase, order, config, wasm>>,
         run.at \in Deploying, run.rest # <<>>, cmd.kind = "regression", ~run.disturbed,
         run'.rest = Tail(run.rest), run'.done \subseteq run.done \cup {Current},
         art'[Current].id # 0, art'[Current].hash = Wasm(Current),
         \A n \in Name \ {Current} : art'[n] = art[n]
  PROVE  \A i \in 1..Turns' : UpToDate(order[i])'
<1>1. /\ run.rest \in Seq(Name) /\ OrderTypeOK
  BY DEF AttemptInv, OrderInv
<1>2. InOrder
  BY DEF FollowInv
<1>3. /\ Turns \in Nat /\ Turns + 1 \in 1..Len(order)
      /\ Current = order[Turns + 1] /\ Current \in Name
  BY <1>1, <1>2, CurrentTurn
<1>4. Turns' = Turns + 1
  <2> DEFINE rest == run.rest
             next == run'.rest
  <2>1. rest \in Seq(Name) /\ rest # <<>> /\ next = Tail(rest)
    BY <1>1
  <2>2. Turns' = Len(order) - Len(next) /\ Turns = Len(order) - Len(rest)
    BY ZenonT(20) DEF Turns
  <2> HIDE DEF rest, next
  <2>3. Len(next) = Len(rest) - 1 /\ Len(rest) \in Nat
    BY <2>1, Popped
  <2>4. Len(order) \in Nat
    BY <1>1 DEF OrderTypeOK
  <2> QED
    BY <2>2, <2>3, <2>4
<1>5. ASSUME NEW i \in 1..Turns' PROVE UpToDate(order[i])'
  <2>1. order[i] \in Name
    BY <1>1, <1>3, <1>4 DEF OrderTypeOK
  <2>2. order'[i] = order[i] /\ \A n : Wasm(n)' = Wasm(n)
    BY WasmStays
  <2>3. CASE order[i] = Current
    BY <2>2, <2>3 DEF UpToDate, IdOf
  <2>4. CASE order[i] # Current
    <3>1. i \in 1..Turns
      BY <1>3, <1>4, <2>4
    <3>2. UpToDate(order[i])
      BY <3>1 DEF CurrentInv
    <3> QED
      BY <2>1, <2>2, <2>4, <3>2 DEF UpToDate, IdOf
  <2> QED
    BY <2>3, <2>4
<1> QED
  BY <1>5

LEMMA DeployingNext ==
  ASSUME AttemptInv, FollowInv, DecidedInv, KindInv, CurrentInv,
         cmd.kind = "regression", ~run.disturbed,
         \/ Sorted \/ Skip \/ Iterate \/ Verify \/ HashWasm \/ Deploys \/ DeploysUnseen \/ DeployRetries
         \/ Record \/ Deployed
  PROVE  CurrentInv'
<1>0. DOMAIN run = {"at", "rest", "check", "snap", "hashed", "got", "done", "hook", "tries",
                    "todo", "missed", "consented", "sent", "landed", "lapsed", "disturbed",
                    "rebuilt", "reset"}
  BY DEF AttemptInv, GuardInv, NoRun
<1>1. cmd' = cmd /\ UNCHANGED orderVars /\ wasm' = wasm
  BY DEF Sorted, Skip, Iterate, Verify, HashWasm, Deploys, DeploysUnseen, DeployRetries, Record,
         Deployed, world
<1>2. /\ UNCHANGED <<config, phase, order>> /\ \A n : Wasm(n)' = Wasm(n)
  BY <1>1, WasmStays DEF orderVars
<1>4. (cmd.ifChanged /\ selected = None) \/ run.at = "idle"
  <2> SUFFICES ASSUME run.at # "idle" PROVE cmd.ifChanged /\ selected = None
    OBVIOUS
  <2>1. cmd \in Commands[config] /\ selected = None
    BY DEF KindInv
  <2>2. config \in Config
    BY DEF AttemptInv, GuardInv
  <2>3. Parses(cmd)
    BY <2>1, <2>2, GraphAssumption
  <2> QED
    BY <2>1, <2>3 DEF Parses
<1>5. OrderTypeOK /\ run.rest \in Seq(Name)
  BY DEF AttemptInv, OrderInv
<1>6. DOMAIN art = Name
  BY DEF FollowInv
<1> USE DEF At
<1>7. CASE Sorted
  <2>1. run'.at = "graph" /\ run'.rest = order
    BY <1>0, <1>7 DEF Sorted
  <2>2. Turns' = 0
    BY <1>2, <1>5, <2>1 DEF Turns, OrderTypeOK
  <2> QED
    BY <2>1, <2>2 DEF CurrentInv
<1>8. CASE Skip
  BY <1>4, <1>8 DEF Skip, Skips
<1>9. ASSUME run.at \in Deploying, run'.at \in Deploying, run'.rest = run.rest,
             run'.at \in {"contract", "record"} => run'.hashed = Wasm(Current),
             art' = art
      PROVE  CurrentInv'
  <2>1. Turns' = Turns /\ Current' = Current
    BY <1>2, <1>9 DEF Turns, Current
  <2>2. \A n : UpToDate(n)' = UpToDate(n)
    BY <1>2, <1>9 DEF UpToDate, IdOf
  <2>3. \A i \in 1..Turns : UpToDate(order[i])'
    BY <1>2, <1>9, <2>2 DEF CurrentInv
  <2>4. Wasm(Current)' = Wasm(Current)
    BY <1>2, <2>1
  <2>5. \A i \in 1..Turns' : UpToDate(order[i])'
    BY <2>1, <2>3
  <2>6. run'.at \in {"contract", "record"} => run'.hashed = Wasm(Current)'
    BY <1>9, <2>4
  <2>7. run'.at \notin {"generate", "bindings", "smoke", "done"}
    BY <1>9 DEF Deploying, Attempt
  <2> HIDE DEF At
  <2>8. ~At("bindings")'
    BY <1>9 DEF Deploying, Attempt, At
  <2> QED
    BY <1>9, <2>5, <2>6, <2>7, <2>8 DEF CurrentInv
<1>10. CASE Iterate \/ Verify \/ DeploysUnseen \/ DeployRetries
  <2>1. /\ run'.rest = run.rest /\ run'.hashed = run.hashed
        /\ run.at \in Deploying
        /\ (run.at = "graph" /\ run'.at = "verify") \/ run'.at = run.at
        /\ art' = art
    BY <1>0, <1>10 DEF Iterate, Verify, DeploysUnseen, DeployRetries, Deploying, Attempt, files
  <2>2. run'.at \in {"contract", "record"} => run.at = run'.at
    BY <2>1
  <2> QED
    BY <1>9, <2>1, <2>2 DEF CurrentInv, Deploying, Attempt
<1>11. CASE HashWasm
  <2>1. run.at = "verify" /\ art' = art
    BY <1>11 DEF HashWasm, files
  <2>2. run.rest # <<>> /\ Current \in Name
    BY <1>5, <2>1 DEF AttemptInv, Attempt, Current
  <2>3. \/ run' = Continue /\ UpToDate(Current)
        \/ run' = [run EXCEPT !.at = "contract", !.rebuilt = FALSE, !.hashed = Wasm(Current)]
    <3> DEFINE same == IdOf(Current) # 0 /\ art[Current].hash = Wasm(Current)
    <3>1. cmd.ifChanged
      BY <1>4, <2>1
    <3>2. CASE same /\ ~cmd.force
      BY <1>11, <3>2 DEF HashWasm, UpToDate
    <3>3. CASE ~same \/ cmd.force
      BY <1>11, <3>1, <3>3 DEF HashWasm, NewHash
    <3> QED
      BY <3>2, <3>3
  <2>4. CASE run' = Continue /\ UpToDate(Current)
    <3>1. /\ run'.at = "graph" /\ run'.rest = Tail(run.rest) /\ run'.done = run.done

      BY <1>0, <2>4 DEF Continue
    <3>2. \A i \in 1..Turns' : UpToDate(order[i])'
      BY <1>1, <1>2, <2>1, <2>2, <2>4, <3>1, TurnNext DEF Deploying, Attempt, UpToDate, IdOf
    <3> QED
      BY <3>1, <3>2 DEF CurrentInv
  <2>5. CASE run' = [run EXCEPT !.at = "contract", !.rebuilt = FALSE, !.hashed = Wasm(Current)]
    <3>1. run'.at = "contract" /\ run'.rest = run.rest /\ run'.hashed = Wasm(Current)
      BY <1>0, <2>5
    <3> QED
      BY <1>9, <2>1, <3>1 DEF Deploying, Attempt
  <2> QED
    BY <2>3, <2>4, <2>5
<1>12. CASE Deploys
  <2>1. /\ run.at = "contract" /\ run'.at = "record" /\ run'.rest = run.rest
        /\ run'.hashed = run.hashed /\ art' = art
    BY <1>0, <1>12 DEF Deploys, files
  <2> QED
    BY <1>9, <2>1 DEF CurrentInv, Deploying, Attempt
<1>13. CASE Record
  <2>1. run.at = "record" /\ run' = [Continue EXCEPT !.done = @ \cup {Current}]
    BY <1>13 DEF Record
  <2>2. /\ run'.at = "graph" /\ run'.rest = Tail(run.rest) /\ run'.done = run.done \cup {Current}

    BY <1>0, <2>1 DEF Continue
  <2>3. run.rest # <<>> /\ Current \in Name /\ run.got \in 1..Len(inst) /\ run.hashed = Wasm(Current)
    BY <1>5, <2>1 DEF AttemptInv, Attempt, Current, AttemptOK, CurrentInv
  <2>4. /\ art'[Current].id = run.got /\ art'[Current].hash = Wasm(Current)
        /\ \A n \in Name \ {Current} : art'[n] = art[n]
    BY <1>6, <1>13, <2>3 DEF Record, Enter
  <2>5. run.got # 0
    <3>1. PICK S : inst \in Seq(S)
      BY Zenon DEF AttemptInv, IsSequence
    <3>2. Len(inst) \in Nat
      BY <3>1
    <3> QED
      BY <2>3, <3>2
  <2>6. \A i \in 1..Turns' : UpToDate(order[i])'
    BY <1>1, <1>2, <2>1, <2>2, <2>3, <2>4, <2>5, TurnNext DEF Deploying, Attempt
  <2> QED
    BY <2>2, <2>6 DEF CurrentInv
<1>14. CASE Deployed
  <2>1. /\ run.at = "graph" /\ run.rest = <<>> /\ art' = art
        /\ run' = [run EXCEPT !.at = "generate", !.lapsed = {"wire", "env"}]
    BY <1>14 DEF Deployed, files
  <2>2. run'.at = "generate"
    BY <1>0, <2>1
  <2>3. phase = "resolved" /\ selected = None
    BY <1>4, <2>1 DEF FollowInv, InOrder, Deploying
  <2>4. {order[i] : i \in 1..Len(order)} = Name
    BY <2>3, ExactInvIsExact DEF SearchIsExact, AttemptInv, FollowInv, DecidedInv
  <2>5. Turns = Len(order)
    BY <1>5, <2>1 DEF Turns, OrderTypeOK
  <2>6. \A i \in 1..Len(order) : UpToDate(order[i])
    BY <2>1, <2>5 DEF CurrentInv, Deploying
  <2>7. \A n \in Name : UpToDate(n)
    <3>1. ASSUME NEW n \in Name PROVE UpToDate(n)
      <4>1. PICK i \in 1..Len(order) : order[i] = n
        BY <2>4
      <4> QED
        BY <2>6, <4>1
    <3> QED
      BY <3>1
  <2>8. \A n \in Name : UpToDate(n)'
    BY <1>2, <2>1, <2>7 DEF UpToDate, IdOf
  <2> QED
    BY <2>2, <2>8 DEF CurrentInv, Deploying, Attempt
<1> QED
  BY <1>7, <1>8, <1>9, <1>10, <1>11, <1>12, <1>13, <1>14

(* From the bindings to the smoke reads, and to the end. *)
LEMMA BindingsNext ==
  ASSUME AttemptInv, FollowInv, KindInv, CurrentInv, cmd.kind = "regression", ~run.disturbed,
         \/ GenerateAll \/ Generated \/ Smoke \/ SmokeEnds \/ (SkipStep /\ ~At("build"))
         \/ \E n \in Name : Generate(n) \/ GenerateFails(n),
         ~Exit
  PROVE  CurrentInv'
<1>0. DOMAIN run = {"at", "rest", "check", "snap", "hashed", "got", "done", "hook", "tries",
                    "todo", "missed", "consented", "sent", "landed", "lapsed", "disturbed",
                    "rebuilt", "reset"}
  BY DEF AttemptInv, GuardInv, NoRun
<1> USE DEF At, Goto
<1>1. /\ cmd' = cmd /\ config' = config /\ UNCHANGED <<wasm, art, gone>>
      /\ run.at \in {"generate", "bindings", "smoke", "done", "failed"}
  BY DEF GenerateAll, Generated, Smoke, SmokeEnds, SkipStep, Generate, GenerateFails, Generating,
         orderVars, world, files
<1>2. run.at # "failed" /\ "deploy" \notin run.lapsed => \A n \in Name : UpToDate(n)
  BY <1>1 DEF CurrentInv
<1>3. \A n : UpToDate(n)' = UpToDate(n)
  BY <1>1, WasmStays DEF UpToDate, IdOf
<1>4. WithAddress' = WithAddress /\ \A n : Exists(IdOf(n))' = Exists(IdOf(n))
  BY <1>1 DEF Exists, IdOf, WithAddress
<1> SUFFICES /\ run'.at \in {"generate", "bindings", "smoke", "done", "failed"}
             /\ run.at = "failed" => run'.at = "failed"
             /\ "deploy" \in run.lapsed => "deploy" \in run'.lapsed
             /\ run'.at = "bindings"
                  => \A n \in WithAddress : n \in run'.todo \cup run'.missed \/ Bound(n)'
             /\ run'.at \in {"smoke", "done"} /\ "bindings" \notin run'.lapsed
                  => \A n \in WithAddress : Bound(n)'
  BY <1>2, <1>3, <1>4 DEF CurrentInv, Deploying, Attempt
<1>6. CASE GenerateAll
  <2>1. run' = [run EXCEPT !.at = "bindings", !.todo = WithAddress]
    BY <1>6 DEF GenerateAll, Targets, WithAddress
  <2>2. run.at = "generate"
    BY <1>6 DEF GenerateAll
  <2> QED
    BY <1>0, <2>1, <2>2
<1>7. CASE Generated
  <2>1. /\ run.at = "bindings" /\ bound' = bound
        /\ \/ run' = [run EXCEPT !.at = "smoke"] /\ run.todo = {} /\ run.missed = {}
           \/ run' = [run EXCEPT !.at = "failed"]
    BY <1>7 DEF Generated, files
  <2>2. /\ run'.lapsed = run.lapsed
        /\ (run'.at = "smoke" /\ run.todo = {} /\ run.missed = {}) \/ run'.at = "failed"
    BY <1>0, <2>1
  <2> QED
    BY <1>4, <2>1, <2>2 DEF CurrentInv, Bound
<1>8. CASE Smoke \/ SmokeEnds
  <2>1. \/ \E l : run' = [run EXCEPT !.hook = @ + 1, !.lapsed = @ \cup l]
        \/ run' = [run EXCEPT !.at = "done"]
    BY <1>8 DEF Smoke, SmokeEnds
  <2>2. run.at = "smoke" /\ bound' = bound
    BY <1>8 DEF Smoke, SmokeEnds, files
  <2>3. /\ run'.at \in {"smoke", "done"}
        /\ \A what \in run.lapsed : what \in run'.lapsed
    BY <1>0, <2>1, <2>2
  <2> QED
    BY <1>4, <2>2, <2>3 DEF CurrentInv, Bound
<1>10. CASE SkipStep /\ ~At("build")
  <2>1. /\ bound' = bound
        /\ \/ /\ run.at = "generate"
              /\ run' = [run EXCEPT !.at = "smoke", !.lapsed = @ \cup {"bindings"}]
           \/ run.at = "smoke" /\ run' = [run EXCEPT !.at = "done"]
    BY <1>10 DEF SkipStep, files
  <2>2. \/ /\ run.at = "generate" /\ run'.at = "smoke"
           /\ run'.lapsed = run.lapsed \cup {"bindings"}
        \/ run.at = "smoke" /\ run'.at = "done" /\ run'.lapsed = run.lapsed
    BY <1>0, <2>1
  <2> QED
    BY <1>4, <2>1, <2>2 DEF CurrentInv, Bound
<1>9. CASE \E n \in Name : Generate(n) \/ GenerateFails(n)
  <2>1. PICK n \in Name : Generate(n) \/ GenerateFails(n)
    BY <1>9
  <2>2. /\ run.at \in {"bindings", "done", "failed"} /\ run'.at = run.at
        /\ run'.lapsed = run.lapsed /\ run'.todo = run.todo \ {n}
        /\ \/ Exists(IdOf(n)) /\ bound' = bound \cup {n} /\ run'.missed = run.missed
           \/ bound' = bound /\ run'.missed = run.missed \cup {n}
    BY <1>0, <2>1 DEF Generate, GenerateFails, Generating, files
  <2> QED
    BY <1>4, <2>2 DEF CurrentInv, Bound
<1> QED
  BY <1>6, <1>7, <1>8, <1>9, <1>10

LEMMA CurrentNext ==
  AttemptInv /\ FollowInv /\ DecidedInv /\ KindInv /\ CurrentInv /\ [Next]_vars => CurrentInv'
<1> SUFFICES ASSUME AttemptInv, FollowInv, DecidedInv, KindInv, CurrentInv, [Next]_vars,
                    cmd'.kind = "regression", ~run'.disturbed
             PROVE  CurrentInv'
  BY DEF CurrentInv
<1>0. DOMAIN run = DOMAIN NoRun
  BY DEF AttemptInv, GuardInv
<1>1. CASE Start
  <2>1. PICK c \in Commands[config] :
          /\ cmd' = c
          /\ Goto(IF c.kind = "smoke" THEN "smoke"
                  ELSE IF c.kind = "wire" /\ Hooks = <<>> THEN "done"
                  ELSE "confirm")
    BY <1>1 DEF Start
  <2>2. run'.at = "confirm"
    BY <1>0, <2>1 DEF Goto, NoRun
  <2> QED
    BY <2>2 DEF CurrentInv, Deploying, Attempt, At
<1>2. ~Exit
  BY DEF Exit, NoCommand
<1>3. CASE ~Start
  <2>1. cmd' = cmd /\ cmd.kind = "regression"
    BY <1>0, <1>2, <1>3, StepMoves
  <2>2. CASE RegressionStep
    <3>1. ASSUME ~HookStep PROVE ~run.disturbed
      BY <1>0, <1>2, <1>3, <3>1, HooksUntouched
    <3>2. ASSUME HookStep PROVE ~run.disturbed
      <4>1. PICK output \in Outputs :
              run' = [run EXCEPT !.hook = @ + 1, !.lapsed = @ \cup
                        IF output \in Accepts(SmokeExpects(Reads[run.hook]))
                          THEN {} ELSE {"smoke"}]
        BY <2>1, <3>2 DEF HookStep, ReadHooks, HookLands, HookLandsUnseen, HookRetries, HookReads,
                          HookDue, HookThrows, KindInv, At, Smoke
      <4> QED
        BY <1>0, <4>1 DEF NoRun
    <3>3. ~run.disturbed
      BY <3>1, <3>2
    <3> QED
      BY <1>2, <2>1, <2>2, <3>3, DeployingNext, BindingsNext DEF RegressionStep
  <2>3. CASE run'.at \in {"build", "order", "confirm", "idle"}
    BY <2>3 DEF CurrentInv, Deploying, Attempt, At
  <2>5. CASE run'.at = "generate" /\ "deploy" \in run'.lapsed
    BY <2>5 DEF CurrentInv, Deploying, Attempt, At
  <2>4. CASE /\ UNCHANGED <<run, cmd, config, files, wasm, gone>>
             /\ run.at \in Deploying => order' = order
    <3>1. \A n : UpToDate(n)' = UpToDate(n) /\ Bound(n)' = Bound(n) /\ Wasm(n)' = Wasm(n)
      BY <2>4, UpToDateStays, WasmStays DEF files
    <3>2. Current' = Current /\ WithAddress' = WithAddress
      BY <2>4, UpToDateStays DEF Current, files
    <3> QED
      BY <2>1, <2>4, <3>1, <3>2 DEF CurrentInv, Deploying, Attempt, At, Turns
  <2> QED
    BY <1>2, <1>3, <2>1, <2>2, <2>3, <2>4, <2>5, RegressionSteps
<1> QED
  BY <1>1, <1>3

(* A regression nobody disturbed that passes has deployed everything that had
   drifted, and has bindings of everything that is recorded, but for what it was
   told to skip: whatever was recorded before, whatever failed and was tried again. *)
THEOREM RegressionLeavesNoDrift == Spec => []RegressionIsCurrent
<1>1. KindInv /\ CurrentInv => RegressionIsCurrent
  BY DEF CurrentInv, RegressionIsCurrent, At, UpToDate, Bound, WithAddress, Drifts, Wasm
<1>2. Init => AttemptInv /\ FollowInv /\ DecidedInv /\ KindInv /\ CurrentInv
  BY AttemptInit, FollowInit, DecidedInit, KindInit, CurrentInit
<1>3. AttemptInv /\ FollowInv /\ DecidedInv /\ KindInv /\ CurrentInv /\ [Next]_vars
        => (AttemptInv /\ FollowInv /\ DecidedInv /\ KindInv /\ CurrentInv)'
  BY AttemptNext, FollowNext, DecidedNext, KindNext, CurrentNext
<1> QED
  BY <1>1, <1>2, <1>3, PTL DEF Spec

-----------------------------------------------------------------------------
(* What the variables are *)

Instance == [name : Name, hash : Nat, args : [Name -> Nat]]

WorldTyped ==
  /\ wasm \in [Name -> Nat]
  /\ inst \in Seq(Instance)
  /\ gone \subseteq 1..Len(inst)
  /\ art \in [Name -> [id : 0..Len(inst), hash : Nat]]
  /\ env \subseteq Name
  /\ bound \subseteq Name

RunTyped ==
  /\ run.snap \in [Name -> Nat]
  /\ run.hashed \in Nat
  /\ run.got \in 0..Len(inst)
  /\ run.hook \in 1..Len(Hooks) + 1
  /\ run.tries \in 0..2

CmdTyped == cmd \in Commands[config] \cup {NoCommand}

TypeInv == WorldTyped /\ RunTyped /\ CmdTyped

LEMMA TypeInit == Init => TypeInv
<1> SUFFICES ASSUME Init PROVE TypeInv
  OBVIOUS
<1>1. config \in Config /\ Len(Hooks) \in Nat
  BY HooksAreMany DEF Init, OrderInit
<1> QED
  BY <1>1 DEF Init, TypeInv, WorldTyped, RunTyped, CmdTyped, NoRun, NoIds

LEMMA InstTyped ==
  ASSUME WorldTyped
  PROVE  /\ Len(inst) \in Nat
         /\ \A n \in Name : Wasm(n) \in Nat /\ IdOf(n) \in 0..Len(inst)
         /\ Ids \in [Name -> Nat]
<1>1. Len(inst) \in Nat
  BY DEF WorldTyped
<1>2. \A n \in Name : wasm[n] \in Nat /\ IdOf(n) \in 0..Len(inst)
  BY DEF WorldTyped, IdOf
<1>3. \A n \in Name : Wasm(n) \in Nat
  BY <1>2 DEF Wasm
<1> QED
  BY <1>1, <1>2, <1>3 DEF Ids

(* A new instance. *)
LEMMA InstantiateTyped ==
  ASSUME WorldTyped, NEW n \in Name, NEW ids \in [Name -> Nat], Instantiate(n, ids)
  PROVE  inst' \in Seq(Instance) /\ Len(inst') = Len(inst) + 1
<1> DEFINE new == [name |-> n, hash |-> Wasm(n), args |-> Args(n, ids)]
<1>1. Args(n, ids) \in [Name -> Nat]
  BY DEF Args
<1>2. new \in Instance
  BY <1>1, InstTyped DEF Instance
<1>3. inst' = Append(inst, new) /\ inst \in Seq(Instance)
  BY DEF Instantiate, WorldTyped
<1> HIDE DEF new
<1> QED
  BY <1>2, <1>3

LEMMA EnterTyped ==
  ASSUME WorldTyped, NEW n \in Name, NEW id \in 0..Len(inst'), NEW hash \in Nat, Enter(n, id, hash),
         inst' \in Seq(Instance), Len(inst') >= Len(inst)
  PROVE  /\ art' \in [Name -> [id : 0..Len(inst'), hash : Nat]]
         /\ env' \subseteq Name /\ bound' \subseteq Name
<1> DEFINE entry == [id |-> id, hash |-> hash]
           now == Len(inst')
           was == Len(inst)
<1>1. now \in Nat /\ was \in Nat /\ now >= was
  BY DEF WorldTyped
<1> HIDE DEF now, was
<1>2. 0..was \subseteq 0..now
  BY <1>1
<1>3. entry \in [id : 0..now, hash : Nat]
  BY DEF now
<1>4. art \in [Name -> [id : 0..was, hash : Nat]] /\ art' = [art EXCEPT ![n] = entry]
  BY DEF WorldTyped, Enter, was
<1>5. art \in [Name -> [id : 0..now, hash : Nat]]
  BY <1>2, <1>4
<1> HIDE DEF entry
<1>6. art' \in [Name -> [id : 0..now, hash : Nat]]
  BY <1>3, <1>4, <1>5
<1> QED
  BY <1>6 DEF Enter, WorldTyped, now

(* The target of an upgrade is configured. *)
LEMMA UpgradeTarget ==
  ASSUME AttemptInv, FollowInv, KindInv, run.at \in Upgrading
  PROVE  cmd.target \in Name
<1>1. cmd \in Commands[config] /\ cmd.kind = "upgrade"
  BY DEF KindInv, FollowInv, Upgrading
<1>2. config \in Config
  BY DEF AttemptInv, GuardInv
<1>3. cmd \in Command /\ Parses(cmd)
  BY <1>1, <1>2, GraphAssumption
<1> QED
  BY <1>1, <1>3 DEF Command, Parses

LEMMA UpgradedTyped ==
  ASSUME WorldTyped, RunTyped
  PROVE  Upgraded \in Seq(Instance) /\ Len(Upgraded) = Len(inst)
<1>1. inst \in Seq(Instance) /\ run.got \in 0..Len(inst) /\ run.hashed \in Nat /\ Len(inst) \in Nat
  BY InstTyped DEF WorldTyped, RunTyped
<1>2. CASE run.got = 0
  <2>1. Upgraded = inst
    BY <1>1, <1>2 DEF Upgraded
  <2> QED
    BY <1>1, <2>1
<1>3. CASE run.got # 0
  <2> DEFINE got == run.got
             new == [inst[got] EXCEPT !.hash = run.hashed]
  <2>1. got \in 1..Len(inst)
    BY <1>1, <1>3
  <2>2. inst[got] \in Instance
    BY <1>1, <2>1
  <2>3. new \in Instance
    BY <1>1, <2>2 DEF Instance
  <2>4. Upgraded = [inst EXCEPT ![got] = new]
    BY DEF Upgraded
  <2> HIDE DEF got, new
  <2> QED
    BY <1>1, <2>1, <2>3, <2>4, ExceptSeq
<1> QED
  BY <1>2, <1>3

LEMMA WorldNext ==
  ASSUME AttemptInv, FollowInv, KindInv, WorldTyped, RunTyped, [Next]_vars
  PROVE  WorldTyped' /\ Len(inst') \in Nat /\ Len(inst') >= Len(inst)
<1>1. Len(inst) \in Nat /\ inst \in Seq(Instance)
  BY InstTyped DEF WorldTyped
<1>2. \A n \in Name : Wasm(n) \in Nat /\ IdOf(n) \in 0..Len(inst)
  BY InstTyped
<1> USE DEF At
<1>3. CASE UNCHANGED <<wasm, inst, gone, files>>
  BY <1>1, <1>3 DEF WorldTyped, files
<1>4. CASE \/ Start \/ Refuse \/ Confirm \/ PassGuard \/ Sort \/ Sorted \/ Fails \/ Ends
           \/ Skip \/ Iterate \/ Verify \/ HashWasm \/ DeploysUnseen \/ DeployRetries
           \/ Deployed \/ LeaveOut \/ ReadHooks \/ HookLands \/ HookLandsUnseen \/ HookRetries
           \/ HookReads \/ HookThrows \/ Wired \/ GenerateAll \/ Generated
           \/ Upload \/ Invoke \/ Smoke \/ SmokeEnds \/ SkipDeploy \/ SkipStep
           \/ (\E n \in Name : GenerateFails(n)) \/ UNCHANGED vars
  <2>1. UNCHANGED <<wasm, inst, gone, files>>
    BY <1>4
    DEF Start, Refuse, Confirm, PassGuard, Sort, Sorted, Fails, Ends, Skip, Iterate, Verify, HashWasm,
        DeploysUnseen, DeployRetries, Deployed, LeaveOut, ReadHooks, HookLands, HookLandsUnseen,
        HookRetries, HookReads, HookThrows, Wired, GenerateAll, Generated, Upload, Invoke, Smoke,
        SmokeEnds, SkipDeploy, SkipStep, GenerateFails, vars, world
  <2> QED
    BY <1>3, <2>1
<1>5. CASE Deploys
  <2>1. Current \in Name
    BY <1>5 DEF Deploys, AttemptInv, Attempt, Current
  <2>2. inst' \in Seq(Instance) /\ Len(inst') = Len(inst) + 1
    BY <1>5, <2>1, InstantiateTyped DEF Deploys, RunTyped
  <2>3. UNCHANGED <<wasm, gone, art, env, bound>>
    BY <1>5 DEF Deploys, files
  <2> QED
    BY <1>1, <2>2, <2>3 DEF WorldTyped
<1>6. CASE Record
  <2>1. Current \in Name /\ run.got \in 0..Len(inst') /\ run.hashed \in Nat /\ inst' = inst
    BY <1>6 DEF Record, AttemptInv, Attempt, Current, RunTyped, world
  <2>2. Enter(Current, run.got, run.hashed) /\ UNCHANGED <<wasm, gone>>
    BY <1>6 DEF Record, world
  <2>3. inst' \in Seq(Instance) /\ Len(inst') >= Len(inst) /\ gone' \subseteq 1..Len(inst')
    BY <1>1, <2>1, <2>2 DEF WorldTyped
  <2>4. /\ art' \in [Name -> [id : 0..Len(inst'), hash : Nat]]
        /\ env' \subseteq Name /\ bound' \subseteq Name
    BY <2>1, <2>2, <2>3, EnterTyped
  <2>5. wasm' \in [Name -> Nat]
    BY <2>2 DEF WorldTyped
  <2> QED
    BY <2>1, <2>3, <2>4, <2>5 DEF WorldTyped
<1>7. CASE RecordUpgrade
  <2>1. cmd.target \in Name /\ run.got \in 0..Len(inst') /\ run.hashed \in Nat /\ inst' = inst
    BY <1>7, UpgradeTarget DEF RecordUpgrade, Upgrading, RunTyped, world
  <2>2. Enter(cmd.target, run.got, run.hashed) /\ UNCHANGED <<wasm, gone>>
    BY <1>7 DEF RecordUpgrade, world
  <2>3. inst' \in Seq(Instance) /\ Len(inst') >= Len(inst) /\ gone' \subseteq 1..Len(inst')
    BY <1>1, <2>1, <2>2 DEF WorldTyped
  <2>4. /\ art' \in [Name -> [id : 0..Len(inst'), hash : Nat]]
        /\ env' \subseteq Name /\ bound' \subseteq Name
    BY <2>1, <2>2, <2>3, EnterTyped
  <2>5. wasm' \in [Name -> Nat]
    BY <2>2 DEF WorldTyped
  <2> QED
    BY <2>1, <2>3, <2>4, <2>5 DEF WorldTyped
<1>8. CASE Upgrades \/ UpgradesUnseen
  <2>1. inst' = Upgraded /\ UNCHANGED <<wasm, gone, art, env, bound>>
    BY <1>8 DEF Upgrades, UpgradesUnseen, files
  <2>2. inst' \in Seq(Instance) /\ Len(inst') = Len(inst)
    BY <2>1, UpgradedTyped
  <2> QED
    BY <1>1, <2>1, <2>2 DEF WorldTyped
<1>9. CASE SyncEnv
  BY <1>1, <1>9 DEF SyncEnv, WorldTyped, world
<1>10. ASSUME NEW n \in Name, Generate(n)
       PROVE  WorldTyped' /\ inst' = inst
  BY <1>10 DEF Generate, WorldTyped, world
<1>11. CASE BuildOne
  <2>1. cmd.target \in Name
    BY <1>11, UpgradeTarget DEF BuildOne, Upgrading
  <2>2. wasm' \in [Name -> Nat]
    <3>1. wasm' = wasm \/ wasm' = [wasm EXCEPT ![cmd.target] = @ + 1]
      BY <1>11 DEF BuildOne
    <3> QED
      BY <2>1, <3>1 DEF WorldTyped
  <2> QED
    <3>1. UNCHANGED <<inst, gone, art, env, bound>>
      BY <1>11 DEF BuildOne, files
    <3> QED
      BY <1>1, <2>2, <3>1 DEF WorldTyped
<1>12. CASE Build
  <2>1. wasm' \in [Name -> Nat]
    BY <1>12 DEF Build, WorldTyped
  <2> QED
    BY <1>1, <1>12, <2>1 DEF Build, WorldTyped, files
<1>13. ASSUME NEW n \in Name, Redeploy(n)
       PROVE  WorldTyped' /\ Len(inst') = Len(inst) + 1
  <2>1. Instantiate(n, Ids) /\ Enter(n, Len(inst) + 1, Wasm(n)) /\ UNCHANGED <<wasm, gone>>
    BY <1>13 DEF Redeploy
  <2>2. inst' \in Seq(Instance) /\ Len(inst') = Len(inst) + 1
    BY <2>1, InstTyped, InstantiateTyped
  <2>3. Len(inst) + 1 \in 0..Len(inst') /\ Wasm(n) \in Nat /\ Len(inst') >= Len(inst)
    BY <1>1, <1>2, <2>2
  <2> DEFINE id == Len(inst) + 1
             hash == Wasm(n)
  <2>4. id \in 0..Len(inst') /\ hash \in Nat /\ Enter(n, id, hash)
    BY <2>1, <2>3
  <2> HIDE DEF id, hash
  <2>5. /\ art' \in [Name -> [id : 0..Len(inst'), hash : Nat]]
        /\ env' \subseteq Name /\ bound' \subseteq Name
    BY <2>2, <2>3, <2>4, EnterTyped
  <2> QED
    BY <1>1, <2>1, <2>2, <2>5 DEF WorldTyped
<1>14. ASSUME NEW n \in Name, Rebuild(n)
       PROVE  WorldTyped' /\ inst' = inst
  BY <1>14 DEF Rebuild, WorldTyped, files
<1>15. CASE Reset
  BY <1>1, <1>15 DEF Reset, WorldTyped, files
<1> QED
  BY <1>1, <1>4, <1>5, <1>6, <1>7, <1>8, <1>9, <1>10, <1>11, <1>12, <1>13, <1>14, <1>15 DEF Next, Step

LEMMA ReadsAreHooks ==
  config \in Config => Len(Reads) \in Nat /\ Len(Reads) <= Len(Hooks)
<1> SUFFICES ASSUME config \in Config PROVE Len(Reads) \in Nat /\ Len(Reads) <= Len(Hooks)
  OBVIOUS
<1>1. config.postDeploy \in Seq(HookLine) /\ config.postDeployRead \in Seq(HookLine)
  BY GraphAssumption
<1> DEFINE read == [i \in 1..Len(config.postDeployRead) |->
                      [config.postDeployRead[i] EXCEPT !.kind = "read"]]
           lines == {read[i] : i \in 1..Len(config.postDeployRead)}
<1>2. Len(config.postDeployRead) \in Nat
  BY <1>1
<1>3. read \in [1..Len(config.postDeployRead) -> lines]
  OBVIOUS
<1> HIDE DEF read, lines
<1>4. read \in Seq(lines) /\ Len(read) = Len(config.postDeployRead)
  BY <1>2, <1>3, SeqDef, LenProperties
<1>5. Len(config.postDeploy \o read) = Len(config.postDeploy) + Len(read)
  <2>1. config.postDeploy \in Seq(HookLine \cup lines) /\ read \in Seq(HookLine \cup lines)
    BY <1>1, <1>4
  <2> QED
    BY <2>1, ConcatProperties
<1> QED
  BY <1>1, <1>2, <1>4, <1>5 DEF Hooks, Reads, read

(* What most steps leave to the run as it was. *)
LEMMA RunStay ==
  ASSUME RunTyped, Len(inst) \in Nat, Len(inst') \in Nat, Len(inst') >= Len(inst), config' = config,
         config \in Config,
         run'.snap \in {run.snap, Ids}, Ids \in [Name -> Nat],
         run'.hashed \in Nat, run'.got \in 0..Len(inst'),
         run'.hook = run.hook \/ (run'.hook = run.hook + 1 /\ run.hook <= Len(Hooks)),
         run'.tries \in 0..2
  PROVE  RunTyped'
<1>1. Len(Hooks) \in Nat /\ Hooks' = Hooks
  BY HooksAreMany, SameHooks
<1>2. run'.hook \in 1..Len(Hooks) + 1
  BY <1>1 DEF RunTyped
<1> QED
  BY <1>1, <1>2 DEF RunTyped

(* Nothing a step does not state changes in the run. *)
Kept == /\ run'.snap = run.snap /\ run'.hashed = run.hashed /\ run'.got = run.got
        /\ run'.hook = run.hook /\ run'.tries \in {run.tries, 0}

LEMMA RunKept ==
  ASSUME DOMAIN run = DOMAIN NoRun, ~Exit,
         \/ Start \/ Refuse \/ Confirm \/ PassGuard \/ Sort \/ Sorted \/ Fails \/ Ends
         \/ Skip \/ Verify \/ Record \/ Deployed \/ LeaveOut \/ HookThrows \/ Wired \/ SyncEnv
         \/ GenerateAll \/ Generated \/ RecordUpgrade \/ Build \/ Invoke \/ SmokeEnds
         \/ SkipDeploy \/ SkipStep
         \/ (\E n \in Name : Generate(n) \/ GenerateFails(n) \/ Redeploy(n) \/ Rebuild(n))
         \/ Reset \/ UNCHANGED vars
  PROVE  Kept
<1>0. DOMAIN run = {"at", "rest", "check", "snap", "hashed", "got", "done", "hook", "tries",
                    "todo", "missed", "consented", "sent", "landed", "lapsed", "disturbed",
                    "rebuilt", "reset"}
  BY DEF NoRun
<1> USE DEF At, Goto
<1>1. CASE Refuse \/ Fails \/ Ends
  BY <1>1 DEF Refuse, Fails, Ends
<1>2. CASE Start
  <2>1. PICK at : run' = [run EXCEPT !.at = at]
    BY <1>2 DEF Start
  <2> QED
    BY <1>0, <2>1 DEF Kept
<1>3. CASE Confirm \/ PassGuard \/ Sorted \/ Skip \/ Verify
  <2>1. \/ \E at, c : run' = [run EXCEPT !.at = at, !.consented = c]
        \/ run' = [run EXCEPT !.at = "order"]
        \/ run' = [run EXCEPT !.at = "graph", !.rest = order]
        \/ run' = Continue
        \/ run' = [run EXCEPT !.check = Tail(@)]
    BY <1>3 DEF Confirm, PassGuard, Sorted, Skip, Verify
  <2> QED
    BY <1>0, <2>1 DEF Kept, Continue
<1>4. CASE Sort \/ UNCHANGED vars
  BY <1>4 DEF Sort, vars, Kept
<1>5. CASE Record \/ RecordUpgrade \/ Build
  <2>1. CASE Record \/ RecordUpgrade
    BY <1>0, <2>1 DEF Record, RecordUpgrade, Continue, Kept
  <2>2. CASE Build
    <3>1. \E step \in {"order", "generate"} : run' = [run EXCEPT !.at = step]
      BY <2>2 DEF Build, BuildLeadsTo
    <3> QED
      BY <1>0, <3>1 DEF Kept
  <2> QED
    BY <1>5, <2>1, <2>2
<1>12. CASE SkipDeploy \/ SkipStep
  <2>1. \/ run' = [run EXCEPT !.at = "build", !.lapsed = {"deploy"}]
        \/ \E step \in {"order", "generate", "done"} : run' = [run EXCEPT !.at = step]
        \/ run' = [run EXCEPT !.at = "smoke", !.lapsed = @ \cup {"bindings"}]
    BY <1>12 DEF SkipDeploy, SkipStep, BuildLeadsTo
  <2> QED
    BY <1>0, <2>1 DEF Kept
<1>6. CASE Deployed \/ LeaveOut
  <2>1. \/ run' = [run EXCEPT !.at = "wire"]
        \/ run' = [run EXCEPT !.at = "generate", !.lapsed = {"wire", "env"}]
        \/ run' = [run EXCEPT !.at = "env", !.lapsed = {"wire"}]
        \/ run' = [run EXCEPT !.at = "generate", !.lapsed = @ \cup {"env"}]
        \/ run' = [run EXCEPT !.at = "done", !.lapsed = @ \cup {"bindings"}]
    BY <1>6 DEF Deployed, LeaveOut
  <2> QED
    BY <1>0, <2>1 DEF Kept
<1>7. CASE HookThrows
  <2>1. run' = [run EXCEPT !.at = "env", !.lapsed = @ \cup {"wire"}, !.tries = 0, !.sent = 0]
    BY <1>7 DEF HookThrows, HookFails
  <2> QED
    BY <1>0, <2>1 DEF Kept
<1>8. CASE Wired \/ SyncEnv \/ GenerateAll \/ Generated \/ SmokeEnds
  <2>1. \/ run' = [run EXCEPT !.at = "done"]
        \/ run' = [run EXCEPT !.at = "env"]
        \/ run' = [run EXCEPT !.at = "generate"]
        \/ run' = [run EXCEPT !.at = "smoke"]
        \/ run' = [run EXCEPT !.at = "failed"]
        \/ run' = [run EXCEPT !.at = "bindings", !.todo = Targets]
    BY <1>8 DEF Wired, SyncEnv, GenerateAll, Generated, SmokeEnds
  <2> QED
    BY <1>0, <2>1 DEF Kept
<1>9. CASE Invoke
  BY <1>0, <1>9 DEF Invoke, Kept
<1>10. ASSUME NEW n \in Name, Generate(n) \/ GenerateFails(n) PROVE Kept
  BY <1>0, <1>10 DEF Generate, GenerateFails, Kept
<1>11. CASE (\E n \in Name : Redeploy(n) \/ Rebuild(n)) \/ Reset
  BY <1>0, <1>11 DEF Redeploy, Rebuild, Reset, Disturb, Kept
<1> QED
  BY <1>1, <1>2, <1>3, <1>4, <1>5, <1>6, <1>7, <1>8, <1>9, <1>10, <1>11, <1>12

LEMMA RunNext ==
  ASSUME AttemptInv, FollowInv, KindInv, WorldTyped, RunTyped, [Next]_vars
  PROVE  RunTyped'
<1>0. DOMAIN run = {"at", "rest", "check", "snap", "hashed", "got", "done", "hook", "tries",
                    "todo", "missed", "consented", "sent", "landed", "lapsed", "disturbed",
                    "rebuilt", "reset"}
  BY DEF AttemptInv, GuardInv, NoRun
<1>1. /\ config' = config /\ config \in Config
      /\ Len(inst) \in Nat /\ Len(inst') \in Nat /\ Len(inst') >= Len(inst)
      /\ Ids \in [Name -> Nat]
      /\ \A n \in Name : Wasm(n) \in Nat /\ IdOf(n) \in 0..Len(inst')
  <2>1. config' = config /\ config \in Config
    BY <1>0, StepMoves DEF AttemptInv, GuardInv, Start, Select, Exit, NoRun
  <2> QED
    BY <2>1, InstTyped, WorldNext
<1>2. CASE Exit
  <2>1. Len(Hooks') \in Nat
    BY <1>1, HooksAreMany, SameHooks
  <2>2. run' = NoRun
    BY <1>2 DEF Exit
  <2> QED
    BY <1>1, <2>1, <2>2 DEF RunTyped, NoRun, NoIds
<1>3. /\ run.snap \in [Name -> Nat] /\ run.hashed \in Nat /\ run.got \in 0..Len(inst)
      /\ run.hook \in Nat /\ run.tries \in 0..2
  BY <1>1, HooksAreMany DEF RunTyped
<1>4. run.got \in 0..Len(inst')
  BY <1>1, <1>3
<1>5. ASSUME run'.snap \in {run.snap, Ids}, run'.hashed \in Nat, run'.got \in 0..Len(inst'),
             run'.hook = run.hook \/ (run'.hook = run.hook + 1 /\ run.hook <= Len(Hooks)),
             run'.tries \in 0..2
      PROVE  RunTyped'
  BY <1>1, <1>5, RunStay
<1>6. CASE Kept
  BY <1>3, <1>4, <1>5, <1>6 DEF Kept
<1> USE DEF At
<1>7. CASE Iterate \/ ReadHooks
  <2>1. /\ run'.snap = Ids /\ run'.hashed = run.hashed /\ run'.got = run.got
        /\ run'.hook = run.hook /\ run'.tries = run.tries
    BY <1>0, <1>7 DEF Iterate, ReadHooks, ReadIds
  <2> QED
    BY <1>3, <1>4, <1>5, <2>1
<1>8. CASE HashWasm
  <2>1. Current \in Name
    BY <1>8 DEF HashWasm, AttemptInv, Attempt, Current
  <2>2. \/ run' = Continue
        \/ run' = [run EXCEPT !.at = "contract", !.rebuilt = FALSE, !.hashed = Wasm(Current)]
    BY <1>8 DEF HashWasm, NewHash
  <2>3. /\ run'.snap = run.snap /\ run'.hashed \in {run.hashed, Wasm(Current)}
        /\ run'.got = run.got /\ run'.hook = run.hook /\ run'.tries \in {run.tries, 0}
    BY <1>0, <2>2 DEF Continue
  <2> QED
    BY <1>1, <1>3, <1>4, <1>5, <2>1, <2>3
<1>9. CASE Deploys
  <2>1. Current \in Name
    BY <1>9 DEF Deploys, AttemptInv, Attempt, Current
  <2>2. Len(inst') = Len(inst) + 1
    BY <1>9, <2>1, InstantiateTyped DEF Deploys, RunTyped
  <2>3. /\ run'.snap = run.snap /\ run'.hashed = run.hashed /\ run'.got = Len(inst) + 1
        /\ run'.hook = run.hook /\ run'.tries = run.tries
    BY <1>0, <1>9 DEF Deploys
  <2> QED
    BY <1>1, <1>3, <1>5, <2>2, <2>3
<1>10. ASSUME Retry PROVE run.tries + 1 \in 0..2
  BY <1>3, <1>10 DEF Retry, MaxAttempts
<1>11. CASE DeploysUnseen \/ DeployRetries \/ HookRetries
  <2>1. /\ Retry
        /\ run'.snap = run.snap /\ run'.hashed = run.hashed /\ run'.got = run.got
        /\ run'.hook = run.hook /\ run'.tries = run.tries + 1
    BY <1>0, <1>11 DEF DeploysUnseen, DeployRetries, HookRetries
  <2> QED
    BY <1>3, <1>4, <1>5, <1>10, <2>1
<1>12. CASE UpgradesUnseen
  <2>1. Exit \/ (Retry /\ run' = [run EXCEPT !.tries = @ + 1, !.sent = @ + 1])
    BY <1>12 DEF UpgradesUnseen
  <2>2. Exit \/ (/\ Retry
                 /\ run'.snap = run.snap /\ run'.hashed = run.hashed /\ run'.got = run.got
                 /\ run'.hook = run.hook /\ run'.tries = run.tries + 1)
    BY <1>0, <2>1
  <2> QED
    BY <1>2, <1>3, <1>4, <1>5, <1>10, <2>2
<1>13. CASE Upgrades
  <2>1. Kept
    BY <1>0, <1>13 DEF Upgrades, Kept
  <2> QED
    BY <1>6, <2>1
<1>14. CASE Upload
  <2>1. \/ run' = [run EXCEPT !.at = "done"]
        \/ run' = [run EXCEPT !.at = "upgrade", !.hashed = Wasm(cmd.target)]
    BY <1>14 DEF Upload, Goto
  <2>2. Wasm(cmd.target) \in Nat
    BY <1>1, <1>14, UpgradeTarget DEF Upload, Upgrading
  <2>3. /\ run'.snap = run.snap /\ run'.hashed \in {run.hashed, Wasm(cmd.target)}
        /\ run'.got = run.got /\ run'.hook = run.hook /\ run'.tries = run.tries
    BY <1>0, <2>1
  <2> QED
    BY <1>3, <1>4, <1>5, <2>2, <2>3
<1>15. CASE BuildOne
  <2>1. IdOf(cmd.target) \in 0..Len(inst')
    BY <1>1, <1>15, UpgradeTarget DEF BuildOne, Upgrading
  <2>2. /\ run'.snap = run.snap /\ run'.hashed = run.hashed /\ run'.got = IdOf(cmd.target)
        /\ run'.hook = run.hook /\ run'.tries = run.tries
    BY <1>0, <1>15 DEF BuildOne
  <2> QED
    BY <1>3, <1>5, <2>1, <2>2
<1>16. CASE Smoke
  <2>1. /\ run.hook <= Len(Reads)
        /\ \E l : run' = [run EXCEPT !.hook = @ + 1, !.lapsed = l]
    BY <1>16 DEF Smoke
  <2>2. /\ run'.snap = run.snap /\ run'.hashed = run.hashed /\ run'.got = run.got
        /\ run'.hook = run.hook + 1 /\ run'.tries = run.tries
    BY <1>0, <2>1
  <2>3. Len(Reads) <= Len(Hooks)
    BY <1>1, ReadsAreHooks
  <2>4. run.hook <= Len(Hooks)
    BY <1>1, <1>3, <2>1, <2>3, HooksAreMany, ReadsAreHooks
  <2> QED
    BY <1>3, <1>4, <1>5, <2>2, <2>4
<1>17. CASE HookLands \/ HookLandsUnseen \/ HookReads
  <2>1. \/ Exit
        \/ \E r \in {run, Called} : run' = NextHook(r) /\ run.hook <= Len(Hooks)
        \/ run' = [Called EXCEPT !.at = "env", !.lapsed = @ \cup {"wire"}, !.tries = 0, !.sent = 0]
        \/ run' = [Called EXCEPT !.tries = @ + 1] /\ Retry
    BY <1>17 DEF HookLands, HookLandsUnseen, HookReads, HookDue, HookFails
  <2>2. /\ DOMAIN Called = DOMAIN run
        /\ Called.snap = run.snap /\ Called.hashed = run.hashed /\ Called.got = run.got
        /\ Called.hook = run.hook /\ Called.tries = run.tries
    BY <1>0 DEF Called
  <2>3. CASE \E r \in {run, Called} : run' = NextHook(r) /\ run.hook <= Len(Hooks)
    <3>1. /\ run'.snap = run.snap /\ run'.hashed = run.hashed /\ run'.got = run.got
          /\ run'.hook = run.hook + 1 /\ run'.tries = 0
      BY <1>0, <2>2, <2>3 DEF NextHook
    <3> QED
      BY <1>3, <1>4, <1>5, <2>3, <3>1
  <2>4. CASE run' = [Called EXCEPT !.at = "env", !.lapsed = @ \cup {"wire"}, !.tries = 0, !.sent = 0]
    <3>1. Kept
      BY <1>0, <2>2, <2>4 DEF Kept
    <3> QED
      BY <1>6, <3>1
  <2>5. CASE run' = [Called EXCEPT !.tries = @ + 1] /\ Retry
    <3>1. /\ run'.snap = run.snap /\ run'.hashed = run.hashed /\ run'.got = run.got
          /\ run'.hook = run.hook /\ run'.tries = run.tries + 1
      BY <1>0, <2>2, <2>5
    <3> QED
      BY <1>3, <1>4, <1>5, <1>10, <2>5, <3>1
  <2> QED
    BY <1>2, <2>1, <2>3, <2>4, <2>5
<1> QED
  BY <1>0, <1>2, <1>6, <1>7, <1>8, <1>9, <1>11, <1>12, <1>13, <1>14, <1>15, <1>16, <1>17, RunKept
  DEF Next, Step, NoRun

LEMMA TypeNext ==
  AttemptInv /\ FollowInv /\ KindInv /\ TypeInv /\ [Next]_vars => TypeInv'
<1> SUFFICES ASSUME AttemptInv, FollowInv, KindInv, TypeInv, [Next]_vars PROVE TypeInv'
  OBVIOUS
<1>1. WorldTyped' /\ RunTyped'
  BY WorldNext, RunNext DEF TypeInv
<1>2. DOMAIN run = DOMAIN NoRun
  BY DEF AttemptInv, GuardInv
<1>3. CmdTyped'
  BY <1>2, StepMoves DEF Start, Select, Exit, CmdTyped, TypeInv
<1> QED
  BY <1>1, <1>3 DEF TypeInv

(* Every variable is what it is said to be; no instance, contract or hook is named
   that is not there, and nothing is tried a fourth time. *)
THEOREM GraphTypeCorrect == Spec => []TypeOK
<1>1. AttemptInv /\ TypeInv => TypeOK
  <2> SUFFICES ASSUME AttemptInv, TypeInv PROVE TypeOK
    OBVIOUS
  <2>1. OrderTypeOK /\ DOMAIN run = DOMAIN NoRun
    BY DEF AttemptInv, GuardInv, OrderInv
  <2> QED
    BY <2>1 DEF TypeInv, WorldTyped, RunTyped, CmdTyped, TypeOK, Instance
<1>2. Init => AttemptInv /\ FollowInv /\ KindInv /\ TypeInv
  BY AttemptInit, FollowInit, KindInit, TypeInit
<1>3. AttemptInv /\ FollowInv /\ KindInv /\ TypeInv /\ [Next]_vars
        => (AttemptInv /\ FollowInv /\ KindInv /\ TypeInv)'
  BY AttemptNext, FollowNext, KindNext, TypeNext
<1> QED
  BY <1>1, <1>2, <1>3, PTL DEF Spec

=============================================================================
