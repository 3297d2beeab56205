------------------------------ MODULE ZkProofs ------------------------------
(***************************************************************************)
(* Theorems about a project with a verifier: what the graph commands keep  *)
(* beside the `ctg zk` commands, what a manifest says of the keys, what a  *)
(* status says of the proof, and what is in the cache of tools, for any    *)
(* number of commands at a time.                                           *)
(***************************************************************************)
EXTENDS ZkProject, DeployGraphProofs

-----------------------------------------------------------------------------
(* The graph commands *)

LEMMA ProjectStep == [ProjectNext]_projectVars => [Next]_vars
  BY DEF ProjectNext, GraphStep, projectVars

(* Beside the `ctg zk` commands, and with the guard of the ceremony in their way,
   the commands on the graph do nothing that they would not do alone. *)
THEOREM ProjectIsGraph == ProjectSpec => Spec
<1>1. ProjectInit => Init
  BY DEF ProjectInit
<1> QED
  BY <1>1, ProjectStep, PTL DEF ProjectSpec, Spec

(* So everything that holds of the graph commands holds in the project. *)
THEOREM ProjectKeepsGraph ==
  ProjectSpec => [](/\ DependenciesPrecede
                    /\ SearchIsExact
                    /\ ArgsFollow
                    /\ DepsVerified
                    /\ RecordedHash
                    /\ MainnetIsGuarded
                    /\ WireIsComplete
                    /\ FrontendFollows
                    /\ RegressionIsCurrent)
  BY ProjectIsGraph, OrderHolds, SearchStaysRight, ArgumentsFollow, DependenciesVerified,
     HashIsRecorded, MainnetAsksOnce, HooksRunInOrder, FrontendStaysTrue, RegressionLeavesNoDrift, PTL

-----------------------------------------------------------------------------
(* The cache of tools *)

InstallStep == {"circom", "compile", "download", "downloading", "checksum", "chmod",
                "snarkjs", "ptau", "setup"} \cup NpmSteps \cup PtauSteps

Cache == [circom : Content, exec : BOOLEAN, snarkjs : Content, pot : Content, ptau : Content,
          cut : BOOLEAN, shared : BOOLEAN]

ToolsTyped ==
  /\ tools \in Cache
  /\ DOMAIN tp \subseteq User
  /\ \A u \in DOMAIN tp : tp[u] \in [at : InstallStep, late : BOOLEAN]

(* What a command has found or installed is still there... *)
Fetched == \A u \in DOMAIN tp :
  /\ tp[u].at \in {"chmod", "compile"} /\ ~tp[u].late => tools.circom = "good"
  /\ tp[u].at \in {"linking", "ptau", "setup"} \cup PtauSteps => tools.snarkjs # "none"
  /\ tp[u].at \in {"prepare", "setup"} => tools.ptau # "none"

(* ...what is not whole is being written, or that was cut short... *)
Partial ==
  /\ tools.snarkjs = "partial" => tools.cut \/ \E u \in DOMAIN tp : tp[u].at = "linking"
  /\ tools.ptau = "partial" => tools.cut \/ \E u \in DOMAIN tp : tp[u].at = "prepare"

(* ...and as long as no two commands have made the same thing side by side, the one
   that is at it has its files to itself. *)
Mine(u, c) == /\ tp[u].at = "linking" => c.snarkjs = "partial"
              /\ tp[u].at = "contribute" => c.pot = "partial"
              /\ tp[u].at \in {"phase2", "prepare"} => c.pot = "good"
              /\ tp[u].at = "prepare" => c.ptau = "partial"

Lonely ==
  ~tools.shared =>
    /\ {tools.snarkjs, tools.pot, tools.ptau} \cap {"mixed", "bad"} = {}
    /\ \A u \in DOMAIN tp : /\ tp[u].at \in NpmSteps => ~Beside(u, NpmSteps)
                            /\ tp[u].at \in PtauSteps => ~Beside(u, PtauSteps)
                            /\ Mine(u, tools)

ToolsInv == ToolsTyped /\ Fetched /\ Partial /\ Lonely

LEMMA ToolsInvInit == ASSUME NEW most, ToolsInit(most) PROVE ToolsInv
<1>1. DOMAIN tp = {}
  BY DEF ToolsInit
<1> QED
  BY <1>1 DEF ToolsInit, ToolsInv, ToolsTyped, Fetched, Partial, Lonely, Cache, Content

(* What a command's step does to the commands. *)
LEMMA ToolStepMoves ==
  ASSUME ToolsTyped, NEW u \in DOMAIN tp, NEW next \in InstallStep \cup {"end"}, NEW t,
         ToolStep(u, next, t)
  PROVE  /\ tools' = t
         /\ DOMAIN tp' = IF next = "end" THEN DOMAIN tp \ {u} ELSE DOMAIN tp
         /\ u \in DOMAIN tp' => /\ tp'[u].at = next /\ (tp'[u].late <=> tp[u].late)
                                /\ tp'[u] \in [at : InstallStep, late : BOOLEAN]
         /\ \A v \in DOMAIN tp' : v # u =>
              /\ v \in DOMAIN tp
              /\ tp'[v].at = tp[v].at
              /\ ~tp'[v].late => ~tp[v].late /\ t = tools
              /\ tp'[v] \in [at : InstallStep, late : BOOLEAN]
<1>1. tools' = t
  BY DEF ToolStep
<1>2. DOMAIN tp' = IF next = "end" THEN DOMAIN tp \ {u} ELSE DOMAIN tp
  BY DEF ToolStep
<1>3. u \in DOMAIN tp' => tp'[u] = [tp[u] EXCEPT !.at = next] /\ next # "end"
  BY <1>2 DEF ToolStep
<1>4. \A v \in DOMAIN tp' : v # u => v \in DOMAIN tp /\ tp'[v] = [tp[v] EXCEPT !.late = @ \/ t # tools]
  BY <1>2 DEF ToolStep
<1>5. \A v \in DOMAIN tp : tp[v] \in [at : InstallStep, late : BOOLEAN]
  BY DEF ToolsTyped
<1>6. u \in DOMAIN tp' => tp'[u].at = next /\ (tp'[u].late <=> tp[u].late)
                           /\ tp'[u] \in [at : InstallStep, late : BOOLEAN]
  BY <1>3, <1>5
<1>7. ASSUME NEW v \in DOMAIN tp', v # u
      PROVE  /\ v \in DOMAIN tp
             /\ tp'[v].at = tp[v].at
             /\ ~tp'[v].late => ~tp[v].late /\ t = tools
             /\ tp'[v] \in [at : InstallStep, late : BOOLEAN]
  <2>1. tp[v] = [at |-> tp[v].at, late |-> tp[v].late] /\ tp[v].at \in InstallStep
        /\ tp[v].late \in BOOLEAN
    BY <1>4, <1>5, <1>7
  <2>2. tp'[v] = [at |-> tp[v].at, late |-> tp[v].late \/ t # tools]
    BY <1>4, <1>7, <2>1
  <2> QED
    BY <1>4, <1>7, <2>1, <2>2
<1> QED
  BY <1>1, <1>2, <1>6, <1>7

(* A command's step, by what it leaves in the cache. *)
LEMMA ToolStepKeeps ==
  ASSUME ToolsInv, NEW u \in DOMAIN tp, NEW next \in InstallStep \cup {"end"}, NEW t \in Cache,
         ToolStep(u, next, t),
         tools.cut => t.cut,
         tools.shared => t.shared,
         tools.snarkjs # "none" => t.snarkjs # "none",
         tools.ptau # "none" => t.ptau # "none",
         next \in {"chmod", "compile"} /\ ~tp[u].late => t.circom = "good",
         next \in {"linking", "ptau", "setup"} \cup PtauSteps => t.snarkjs # "none",
         next \in {"prepare", "setup"} => t.ptau # "none",
         t.snarkjs = "partial" => \/ t.cut
                                  \/ next = "linking"
                                  \/ tools.snarkjs = "partial" /\ tp[u].at # "linking",
         t.ptau = "partial" => \/ t.cut
                               \/ next = "prepare"
                               \/ tools.ptau = "partial" /\ tp[u].at # "prepare",
         next \in NpmSteps => \/ tp[u].at \in NpmSteps
                              \/ t.shared \/ ~Beside(u, NpmSteps),
         next \in PtauSteps => \/ tp[u].at \in PtauSteps
                               \/ t.shared \/ ~Beside(u, PtauSteps),
         t.snarkjs # tools.snarkjs => tp[u].at \in NpmSteps,
         t.pot # tools.pot \/ t.ptau # tools.ptau => tp[u].at \in PtauSteps,
         ~t.shared => /\ {t.snarkjs, t.pot, t.ptau} \cap {"mixed", "bad"} = {}
                      /\ next = "linking" => t.snarkjs = "partial"
                      /\ next = "contribute" => t.pot = "partial"
                      /\ next \in {"phase2", "prepare"} => t.pot = "good"
                      /\ next = "prepare" => t.ptau = "partial"
  PROVE  ToolsInv'
<1>1. /\ tools' = t
      /\ DOMAIN tp' = IF next = "end" THEN DOMAIN tp \ {u} ELSE DOMAIN tp
      /\ u \in DOMAIN tp' => /\ tp'[u].at = next /\ (tp'[u].late <=> tp[u].late)
                             /\ tp'[u] \in [at : InstallStep, late : BOOLEAN]
  BY ToolStepMoves DEF ToolsInv
<1>2. ASSUME NEW v \in DOMAIN tp', v # u
      PROVE  /\ v \in DOMAIN tp
             /\ tp'[v].at = tp[v].at
             /\ ~tp'[v].late => ~tp[v].late /\ t = tools
             /\ tp'[v] \in [at : InstallStep, late : BOOLEAN]
  BY <1>2, ToolStepMoves DEF ToolsInv
<1>3. ToolsTyped'
  BY <1>1, <1>2 DEF ToolsInv, ToolsTyped
<1>4. Fetched'
  <2> SUFFICES ASSUME NEW v \in DOMAIN tp'
               PROVE  /\ tp'[v].at \in {"chmod", "compile"} /\ ~tp'[v].late => t.circom = "good"
                      /\ tp'[v].at \in {"linking", "ptau", "setup"} \cup PtauSteps
                           => t.snarkjs # "none"
                      /\ tp'[v].at \in {"prepare", "setup"} => t.ptau # "none"
    BY <1>1 DEF Fetched
  <2>1. CASE v = u
    BY <1>1, <2>1
  <2>2. CASE v # u
    BY <1>2, <2>2 DEF ToolsInv, Fetched
  <2> QED
    BY <2>1, <2>2
<1>5. Partial'
  <2>1. next \in {"linking", "prepare"} => u \in DOMAIN tp' /\ tp'[u].at = next
    BY <1>1
  <2>2. \A v \in DOMAIN tp : v # u => v \in DOMAIN tp' /\ tp'[v].at = tp[v].at
    BY <1>1, <1>2
  <2>3. t.snarkjs = "partial" => t.cut \/ \E v \in DOMAIN tp' : tp'[v].at = "linking"
    BY <2>1, <2>2 DEF ToolsInv, Partial
  <2>4. t.ptau = "partial" => t.cut \/ \E v \in DOMAIN tp' : tp'[v].at = "prepare"
    BY <2>1, <2>2 DEF ToolsInv, Partial
  <2> QED
    BY <1>1, <2>3, <2>4 DEF Partial
<1>6. ASSUME ~t.shared, NEW v \in DOMAIN tp'
      PROVE  /\ tp'[v].at \in NpmSteps => ~Beside(v, NpmSteps)'
             /\ tp'[v].at \in PtauSteps => ~Beside(v, PtauSteps)'
             /\ Mine(v, tools)'
  <2>1. ~tools.shared
    BY <1>6 DEF ToolsInv, ToolsTyped, Cache
  <2>2. \A w \in DOMAIN tp : /\ tp[w].at \in NpmSteps => ~Beside(w, NpmSteps)
                             /\ tp[w].at \in PtauSteps => ~Beside(w, PtauSteps)
                             /\ Mine(w, tools)
    BY <2>1 DEF ToolsInv, Lonely
  <2>3. ASSUME tp'[v].at \in NpmSteps, NEW w \in DOMAIN tp' \ {v}, tp'[w].at \in NpmSteps
        PROVE  FALSE
    <3>1. next \in NpmSteps => ~Beside(u, NpmSteps)
      BY <1>6, <2>2
    <3> QED
      BY <1>1, <1>2, <2>2, <2>3, <3>1 DEF Beside
  <2>4. ASSUME tp'[v].at \in PtauSteps, NEW w \in DOMAIN tp' \ {v}, tp'[w].at \in PtauSteps
        PROVE  FALSE
    <3>1. next \in PtauSteps => ~Beside(u, PtauSteps)
      BY <1>6, <2>2
    <3> QED
      BY <1>1, <1>2, <2>2, <2>4, <3>1 DEF Beside
  <2>5. Mine(v, tools)'
    <3>1. CASE v = u
      BY <1>1, <1>6, <3>1 DEF Mine
    <3>2. CASE v # u
      <4>1. Mine(v, tools) /\ v \in DOMAIN tp /\ tp'[v].at = tp[v].at
        BY <1>2, <2>2, <3>2
      <4>2. tp[v].at = "linking" => t.snarkjs = tools.snarkjs
        BY <2>2, <3>2, <4>1 DEF Beside, NpmSteps
      <4>3. tp[v].at \in {"contribute", "phase2", "prepare"} => t.pot = tools.pot /\ t.ptau = tools.ptau
        BY <2>2, <3>2, <4>1 DEF Beside, PtauSteps
      <4> QED
        BY <1>1, <4>1, <4>2, <4>3 DEF Mine
    <3> QED
      BY <3>1, <3>2
  <2> QED
    BY <2>3, <2>4, <2>5 DEF Beside
<1>7. Lonely'
  BY <1>1, <1>6 DEF Lonely
<1> QED
  BY <1>3, <1>4, <1>5, <1>7 DEF ToolsInv

(* The file it was writing is whole if nobody was beside it. *)
LEMMA DoneIs ==
  ASSUME NEW file, NEW c \in Done(file)
  PROVE  c \in {"good", "bad"} /\ (file = "partial" => c = "good")
  BY DEF Done

(* One towards the powers of tau. *)
LEMMA PotStepKeeps ==
  ASSUME ToolsInv, NEW u \in DOMAIN tp, NEW t \in Cache,
         NEW next \in {"contribute", "phase2", "prepare", "setup"},
         ToolStep(u, next, t),
         t.snarkjs = tools.snarkjs, t.cut = tools.cut, t.shared = tools.shared,
         tp[u].at \in {"pot", "contribute", "phase2", "prepare"},
         next = "contribute" => t.ptau \in {"mixed", tools.ptau} /\ tp[u].at = "pot",
         next = "phase2" => t.ptau = tools.ptau /\ tp[u].at = "contribute",
         next = "prepare" => t.ptau \in {"partial", "mixed"},
         next = "setup" => t.ptau \in {"good", "bad"},
         ~tools.shared => /\ next = "contribute" => t.pot = "partial" /\ t.ptau = tools.ptau
                          /\ next \in {"phase2", "prepare", "setup"} => t.pot = "good"
                          /\ next = "prepare" => t.ptau = "partial"
                          /\ next = "setup" => t.ptau = "good"
  PROVE  ToolsInv'
<1>1. /\ next \in InstallStep \cup {"end"} /\ next \notin NpmSteps
      /\ tp[u].at \in PtauSteps
      /\ next \notin {"linking", "chmod", "compile"}
  BY DEF InstallStep, NpmSteps, PtauSteps
<1>2. tools.snarkjs # "none"
  BY <1>1 DEF ToolsInv, Fetched
<1>3. /\ tools.ptau # "none" => t.ptau # "none"
      /\ next \in {"prepare", "setup"} => t.ptau # "none"
      /\ t.ptau = "partial" => \/ next = "prepare"
                               \/ tools.ptau = "partial" /\ tp[u].at # "prepare"
  OBVIOUS
<1>4. ~tools.shared => /\ {t.snarkjs, t.pot, t.ptau} \cap {"mixed", "bad"} = {}
                       /\ next = "contribute" => t.pot = "partial"
                       /\ next \in {"phase2", "prepare"} => t.pot = "good"
                       /\ next = "prepare" => t.ptau = "partial"
  <2>1. ~tools.shared => {tools.snarkjs, tools.pot, tools.ptau} \cap {"mixed", "bad"} = {}
    BY DEF ToolsInv, Lonely
  <2> QED
    BY <2>1
<1>5. t.snarkjs = "partial" => tools.snarkjs = "partial" /\ tp[u].at # "linking"
  OBVIOUS
<1> QED
  BY <1>1, <1>2, <1>3, <1>4, <1>5, ToolStepKeeps

LEMMA ToolsInvNext == ToolsInv /\ [ToolsNext]_toolVars => ToolsInv'
<1> SUFFICES ASSUME ToolsInv, [ToolsNext]_toolVars PROVE ToolsInv'
  OBVIOUS
<1>1. /\ tools \in Cache
      /\ \A u \in DOMAIN tp : tp[u] \in [at : InstallStep, late : BOOLEAN]
  BY DEF ToolsInv, ToolsTyped
<1>2. ~tools.shared => {tools.snarkjs, tools.pot, tools.ptau} \cap {"mixed", "bad"} = {}
  BY DEF ToolsInv, Lonely
<1>3. ASSUME NEW u \in DOMAIN tp, ~tools.shared
      PROVE  /\ tp[u].at \in NpmSteps => ~Beside(u, NpmSteps)
             /\ tp[u].at \in PtauSteps => ~Beside(u, PtauSteps)
             /\ Mine(u, tools)
  BY <1>3 DEF ToolsInv, Lonely
<1>4. ASSUME NEW u \in User, NeedTools(u) PROVE ToolsInv'
  <2> DEFINE new == [at |-> "circom", late |-> FALSE]
  <2>1. /\ tools' = tools /\ u \notin DOMAIN tp
        /\ DOMAIN tp' = DOMAIN tp \cup {u}
        /\ tp'[u] = new
        /\ \A v \in DOMAIN tp : tp'[v] = tp[v]
    BY <1>4 DEF NeedTools
  <2>2. new \in [at : InstallStep, late : BOOLEAN] /\ new.at = "circom"
    BY DEF InstallStep
  <2> HIDE DEF new
  <2>3. ToolsTyped'
    BY <2>1, <2>2 DEF ToolsInv, ToolsTyped
  <2>4. Fetched'
    BY <2>1, <2>2 DEF ToolsInv, Fetched, PtauSteps
  <2>5. Partial'
    BY <2>1 DEF ToolsInv, Partial
  <2>6. Lonely'
    BY <2>1, <2>2 DEF ToolsInv, Lonely, Beside, Mine, NpmSteps, PtauSteps
  <2> QED
    BY <2>3, <2>4, <2>5, <2>6 DEF ToolsInv
<1>5. ASSUME NEW u \in User,
             \/ CircomCached(u) \/ ChecksumMatches(u) \/ Compiled(u) \/ SnarkjsCached(u)
             \/ NpmFinds(u) \/ PtauCached(u) \/ ToolsUsed(u)
      PROVE  ToolsInv'
  <2>1. PICK next \in {"compile", "chmod", "snarkjs", "ptau", "setup", "end"} :
          /\ u \in DOMAIN tp
          /\ ToolStep(u, next, tools)
          /\ tp[u].at \notin {"linking", "prepare"}
          /\ next \in {"chmod", "compile"} => tools.circom = "good"
          /\ next = "ptau" => tools.snarkjs # "none"
          /\ next = "setup" => tools.ptau # "none" /\ tp[u].at = "ptau"
    BY <1>5 DEF CircomCached, CachedIsGood, ChecksumMatches, Compiled, SnarkjsCached,
       NpmFinds, PtauCached, ToolsUsed, InTools
  <2>2. tp[u].at = "ptau" => tools.snarkjs # "none"
    BY <2>1 DEF ToolsInv, Fetched
  <2>3. next \in InstallStep \cup {"end"} /\ next \notin NpmSteps \cup PtauSteps
    BY DEF InstallStep, NpmSteps, PtauSteps
  <2>4. next \notin {"linking", "contribute", "phase2", "prepare"}
    OBVIOUS
  <2> QED
    BY <1>1, <1>2, <2>1, <2>2, <2>3, <2>4, ToolStepKeeps
<1>6. ASSUME NEW u \in User, CircomMissing(u) \/ DownloadBegins(u) \/ ChecksumDiffers(u)
      PROVE  ToolsInv'
  <2> DEFINE t == [tools EXCEPT !.circom = "none"]
             b == [tools EXCEPT !.circom = "partial",
                                !.exec = tools.exec /\ tools.circom # "none"]
  <2>1. \A c \in {t, b} : /\ c \in Cache /\ c.snarkjs = tools.snarkjs /\ c.pot = tools.pot
                          /\ c.ptau = tools.ptau /\ c.cut = tools.cut
                          /\ c.shared = tools.shared
    BY <1>1 DEF Cache, Content
  <2>2. PICK next \in {"download", "downloading", "end"}, c \in {t, b} :
          /\ u \in DOMAIN tp
          /\ tp[u].at \notin {"linking", "prepare"}
          /\ ToolStep(u, next, c)
    BY <1>6 DEF CircomMissing, DownloadBegins, ChecksumDiffers, InTools
  <2> HIDE DEF t, b
  <2>3. next \in InstallStep \cup {"end"} /\ next \notin NpmSteps \cup PtauSteps
    BY DEF InstallStep, NpmSteps, PtauSteps
  <2> QED
    BY <1>2, <2>1, <2>2, <2>3, ToolStepKeeps
<1>7. ASSUME NEW u \in User, DownloadEnds(u) PROVE ToolsInv'
  <2>1. PICK c \in Content : /\ u \in DOMAIN tp
                             /\ tp[u].at = "downloading"
                             /\ ToolStep(u, "checksum", [tools EXCEPT !.circom = c])
    BY <1>7 DEF DownloadEnds, InTools, Content
  <2> DEFINE t == [tools EXCEPT !.circom = c]
  <2>2. /\ t \in Cache /\ t.snarkjs = tools.snarkjs /\ t.pot = tools.pot
        /\ t.ptau = tools.ptau /\ t.cut = tools.cut /\ t.shared = tools.shared
    BY <1>1 DEF Cache
  <2>3. ToolStep(u, "checksum", t)
    BY <2>1
  <2>4. "checksum" \in InstallStep /\ "checksum" \notin NpmSteps \cup PtauSteps
    BY DEF InstallStep, NpmSteps, PtauSteps
  <2> HIDE DEF t
  <2> QED
    BY <1>2, <2>1, <2>2, <2>3, <2>4, ToolStepKeeps
<1>8. ASSUME NEW u \in User, Chmod(u) PROVE ToolsInv'
  <2> DEFINE t == [tools EXCEPT !.exec = TRUE]
  <2>1. u \in DOMAIN tp /\ tp[u].at = "chmod" /\ ToolStep(u, "compile", t)
    BY <1>8 DEF Chmod, InTools
  <2>2. /\ t \in Cache /\ t.circom = tools.circom /\ t.snarkjs = tools.snarkjs
        /\ t.pot = tools.pot /\ t.ptau = tools.ptau /\ t.cut = tools.cut
        /\ t.shared = tools.shared
    BY <1>1 DEF Cache
  <2>3. ~tp[u].late => tools.circom = "good"
    BY <2>1 DEF ToolsInv, Fetched
  <2>4. "compile" \in InstallStep /\ "compile" \notin NpmSteps \cup PtauSteps
    BY DEF InstallStep, NpmSteps, PtauSteps
  <2> HIDE DEF t
  <2> QED
    BY <1>2, <2>1, <2>2, <2>3, <2>4, ToolStepKeeps
<1>9. ASSUME NEW u \in User, SnarkjsMissing(u) \/ PtauMissing(u) PROVE ToolsInv'
  <2>1. PICK s \in BOOLEAN, next \in {"npm", "pot"} :
          /\ u \in DOMAIN tp
          /\ tp[u].at \in {"snarkjs", "ptau"}
          /\ next = "npm" => s = (tools.shared \/ Beside(u, NpmSteps))
          /\ next = "pot" => /\ s = (tools.shared \/ Beside(u, PtauSteps))
                             /\ tp[u].at = "ptau"
          /\ ToolStep(u, next, [tools EXCEPT !.shared = s])
    BY <1>1, <1>9 DEF SnarkjsMissing, PtauMissing, InTools, Beside, Cache
  <2> DEFINE t == [tools EXCEPT !.shared = s]
  <2>2. /\ t \in Cache /\ t.circom = tools.circom /\ t.snarkjs = tools.snarkjs
        /\ t.pot = tools.pot /\ t.ptau = tools.ptau /\ t.cut = tools.cut /\ t.shared = s
    BY <1>1 DEF Cache
  <2>3. ToolStep(u, next, t)
    BY <2>1
  <2> HIDE DEF t
  <2>4. next \in InstallStep /\ (next = "npm" => next \notin PtauSteps)
        /\ (next = "pot" => next \notin NpmSteps)
    BY DEF InstallStep, NpmSteps, PtauSteps
  <2>5. next = "pot" => t.snarkjs # "none"
    BY <2>1, <2>2 DEF ToolsInv, Fetched
  <2>6. ~s => ~tools.shared
    BY <2>1
  <2>7. next = "npm" => s \/ ~Beside(u, NpmSteps)
    BY <2>1
  <2>8. next = "pot" => s \/ ~Beside(u, PtauSteps)
    BY <2>1
  <2>9. tools.shared => s
    BY <2>1
  <2> QED
    BY <1>2, <2>1, <2>2, <2>3, <2>4, <2>5, <2>6, <2>7, <2>8, <2>9, ToolStepKeeps
<1>10. ASSUME NEW u \in User, NpmLinks(u) \/ NpmEnds(u) PROVE ToolsInv'
  <2>1. PICK c \in {"partial", "mixed", "good", "bad"}, next \in {"linking", "ptau"} :
          /\ u \in DOMAIN tp
          /\ tp[u].at \in NpmSteps
          /\ ToolStep(u, next, [tools EXCEPT !.snarkjs = c])
          /\ next = "linking" => c = Begun(Beside(u, {"linking"}))
          /\ next = "ptau" => tp[u].at = "linking" /\ c \in Done(tools.snarkjs)
    BY <1>10 DEF NpmLinks, NpmEnds, InTools, NpmSteps, Begun, Done
  <2> DEFINE t == [tools EXCEPT !.snarkjs = c]
  <2>2. /\ t \in Cache /\ t.snarkjs = c /\ t.circom = tools.circom /\ t.pot = tools.pot
        /\ t.ptau = tools.ptau /\ t.cut = tools.cut /\ t.shared = tools.shared
    BY <1>1 DEF Cache, Content
  <2>3. ToolStep(u, next, t)
    BY <2>1
  <2> HIDE DEF t
  <2>4. /\ next \in InstallStep /\ next \notin PtauSteps /\ "npm" \notin PtauSteps
        /\ "linking" \notin PtauSteps /\ "ptau" \notin NpmSteps
        /\ next \notin {"contribute", "phase2", "prepare", "chmod", "compile", "setup"}
    BY DEF InstallStep, NpmSteps, PtauSteps
  <2>5. ~tools.shared => /\ c \in {"partial", "good"}
                         /\ next = "linking" => c = "partial"
                         /\ next = "ptau" => c = "good"
    <3> SUFFICES ASSUME ~tools.shared
                 PROVE  /\ next = "linking" => c = "partial"
                        /\ next = "ptau" => c = "good"
      OBVIOUS
    <3>1. ~Beside(u, {"linking"}) /\ Mine(u, tools)
      BY <1>3, <2>1 DEF Beside, NpmSteps
    <3> QED
      BY <2>1, <3>1, DoneIs DEF Begun, Mine
  <2>6. c = "partial" => next = "linking"
    BY <2>1, DoneIs
  <2>7. tp[u].at # "prepare"
    BY <2>1 DEF NpmSteps
  <2> QED
    BY <1>2, <2>1, <2>2, <2>3, <2>4, <2>5, <2>6, <2>7, ToolStepKeeps
<1>11. ASSUME NEW u \in User, PotBegins(u) \/ PotEnds(u) \/ PtauBegins(u) \/ PtauEnds(u)
       PROVE  ToolsInv'
  <2>1. CASE PotBegins(u)
    <3> DEFINE c == Begun(Beside(u, {"contribute"}))
               f == IF Beside(u, {"prepare"}) THEN "mixed" ELSE tools.ptau
               t == [tools EXCEPT !.pot = c, !.ptau = f]
    <3>1. u \in DOMAIN tp /\ tp[u].at = "pot" /\ ToolStep(u, "contribute", t)
      BY <2>1 DEF PotBegins, InTools
    <3>2. c \in Content /\ f \in Content /\ f \in {"mixed", tools.ptau}
      BY <1>1 DEF Begun, Cache, Content
    <3>3. ~tools.shared => c = "partial" /\ f = tools.ptau
      BY <1>3, <3>1 DEF Beside, PtauSteps, Begun
    <3> HIDE DEF c, f
    <3>4. /\ t \in Cache /\ t.pot = c /\ t.ptau = f
          /\ t.snarkjs = tools.snarkjs /\ t.cut = tools.cut /\ t.shared = tools.shared
      BY <1>1, <3>2 DEF Cache
    <3> HIDE DEF t
    <3> QED
      BY <3>1, <3>2, <3>3, <3>4, PotStepKeeps
  <2>2. CASE PotEnds(u)
    <3>1. PICK c \in {"good", "bad"} :
            /\ u \in DOMAIN tp /\ tp[u].at = "contribute"
            /\ tools.pot = "partial" => c = "good"
            /\ ToolStep(u, "phase2", [tools EXCEPT !.pot = c])
      BY <2>2 DEF PotEnds, InTools, Done
    <3> DEFINE t == [tools EXCEPT !.pot = c]
    <3>2. ~tools.shared => c = "good"
      BY <1>3, <3>1 DEF Mine
    <3>3. /\ t \in Cache /\ t.pot = c /\ t.ptau = tools.ptau
          /\ t.snarkjs = tools.snarkjs /\ t.cut = tools.cut /\ t.shared = tools.shared
      BY <1>1 DEF Cache, Content
    <3>4. ToolStep(u, "phase2", t)
      BY <3>1
    <3> HIDE DEF t
    <3> QED
      BY <3>1, <3>2, <3>3, <3>4, PotStepKeeps
  <2>3. CASE PtauBegins(u)
    <3> DEFINE f == Begun(tools.pot # "good" \/ Beside(u, {"prepare"}))
               t == [tools EXCEPT !.ptau = f]
    <3>1. u \in DOMAIN tp /\ tp[u].at = "phase2" /\ ToolStep(u, "prepare", t)
      BY <2>3 DEF PtauBegins, InTools
    <3>2. f \in {"partial", "mixed"}
      BY DEF Begun
    <3>3. ~tools.shared => f = "partial" /\ tools.pot = "good"
      BY <1>3, <3>1 DEF Beside, PtauSteps, Begun, Mine
    <3> HIDE DEF f
    <3>4. /\ t \in Cache /\ t.pot = tools.pot /\ t.ptau = f
          /\ t.snarkjs = tools.snarkjs /\ t.cut = tools.cut /\ t.shared = tools.shared
      BY <1>1, <3>2 DEF Cache, Content
    <3> HIDE DEF t
    <3> QED
      BY <3>1, <3>2, <3>3, <3>4, PotStepKeeps
  <2>4. CASE PtauEnds(u)
    <3>1. PICK f \in {"good", "bad"} :
            /\ u \in DOMAIN tp /\ tp[u].at = "prepare"
            /\ tools.ptau = "partial" => f = "good"
            /\ ToolStep(u, "setup", [tools EXCEPT !.ptau = f])
      BY <2>4 DEF PtauEnds, InTools, Done
    <3> DEFINE t == [tools EXCEPT !.ptau = f]
    <3>2. ~tools.shared => f = "good" /\ tools.pot = "good"
      BY <1>3, <3>1 DEF Mine
    <3>3. /\ t \in Cache /\ t.pot = tools.pot /\ t.ptau = f
          /\ t.snarkjs = tools.snarkjs /\ t.cut = tools.cut /\ t.shared = tools.shared
      BY <1>1 DEF Cache, Content
    <3>4. ToolStep(u, "setup", t)
      BY <3>1
    <3> HIDE DEF t
    <3> QED
      BY <3>1, <3>2, <3>3, <3>4, PotStepKeeps
  <2> QED
    BY <1>11, <2>1, <2>2, <2>3, <2>4
<1>12. ASSUME NEW u \in User, ToolsStop(u) PROVE ToolsInv'
  <2> DEFINE t == [tools EXCEPT !.cut = @ \/ tp[u].at \in {"linking", "prepare"}]
  <2>1. u \in DOMAIN tp /\ ToolStep(u, "end", t)
    BY <1>12 DEF ToolsStop
  <2>2. /\ t \in Cache /\ t.pot = tools.pot /\ t.ptau = tools.ptau
        /\ t.circom = tools.circom /\ t.snarkjs = tools.snarkjs /\ t.shared = tools.shared
        /\ t.cut <=> (tools.cut \/ tp[u].at \in {"linking", "prepare"})
    BY <1>1 DEF Cache
  <2> HIDE DEF t
  <2>3. "end" \notin NpmSteps \cup PtauSteps
    BY DEF NpmSteps, PtauSteps
  <2> QED
    BY <1>2, <2>1, <2>2, <2>3, ToolStepKeeps
<1>13. CASE UNCHANGED toolVars
  BY <1>13 DEF toolVars, ToolsInv, ToolsTyped, Fetched, Partial, Lonely, Beside, Mine
<1> QED
  BY <1>4, <1>5, <1>6, <1>7, <1>8, <1>9, <1>10, <1>11, <1>12, <1>13 DEF ToolsNext

LEMMA ProjectToolsInit == ProjectInit => ToolsInv
  BY ToolsInvInit DEF ProjectInit

LEMMA ProjectToolsNext == ToolsInv /\ [ProjectNext]_projectVars => ToolsInv'
<1>1. [ProjectNext]_projectVars => [ToolsNext]_toolVars
  BY DEF ProjectNext, GraphStep, projectVars, zkState
<1> QED
  BY <1>1, ToolsInvNext

(* Any number of commands may install the tools at a time and be killed at any
   point: one that no other has disturbed runs the circom that was pinned, and no
   command gets a snarkjs or powers of tau that are not whole, unless somebody is
   still writing them, was killed writing them, or two commands have made one of
   them side by side. *)
THEOREM ToolsStayWhole == ProjectSpec => []ToolsAreWhole
<1>1. ASSUME ToolsInv PROVE ToolsAreWhole
  <2>1. ASSUME NEW u \in DOMAIN tp, InTools(u, "setup"), ~tools.cut, ~tools.shared, ~Installing
        PROVE  tools.snarkjs = "good" /\ tools.ptau = "good"
    <3>1. tools.snarkjs # "none" /\ tools.ptau # "none"
      BY <1>1, <2>1 DEF ToolsInv, Fetched, InTools
    <3>2. tools.snarkjs # "partial" /\ tools.ptau # "partial"
      BY <1>1, <2>1 DEF ToolsInv, Partial, Installing
    <3>3. tools.snarkjs \notin {"mixed", "bad"} /\ tools.ptau \notin {"mixed", "bad"}
      BY <1>1, <2>1 DEF ToolsInv, Lonely
    <3>4. tools.snarkjs \in Content /\ tools.ptau \in Content
      BY <1>1 DEF ToolsInv, ToolsTyped, Cache
    <3> QED
      BY <3>1, <3>2, <3>3, <3>4 DEF Content
  <2> QED
    BY <1>1, <2>1 DEF ToolsInv, Fetched, ToolsAreWhole, InTools
<1> QED
  BY <1>1, ProjectToolsInit, ProjectToolsNext, PTL DEF ProjectSpec

-----------------------------------------------------------------------------
(* The directory of a circuit *)

Key == {NoKey} \cup [by : Maker, of : Circuit, no : Nat]
MpcManifests == [type : {"mpc"}, hash : Circuit \cup {0}, zkey : Key, vk : Key,
                 ptau : BOOLEAN, verified : BOOLEAN, raced : BOOLEAN,
                 shaken : BOOLEAN, against : Circuit \cup {0}]

(* What verify-ceremony has found of the keys that m pins, with the circuit c. *)
Matching(m, c) == m.vk = m.zkey /\ (m.ptau => m.zkey.of = c)

(* What a manifest says is so, wherever it is kept: its keys are audited unless
   somebody else wrote while they were imported, and match if it says so unless
   somebody wrote while they were verified. *)
Trusted(m) ==
  /\ m \in {NoManifest, DevManifest} \cup MpcManifests
  /\ m.type = "mpc" /\ ~m.raced => m.zkey.by = "mpc" /\ m.vk.by = "mpc"
  /\ m.type = "mpc" /\ m.verified /\ ~m.shaken => Matching(m, m.against)

(* What a record says of the proof it was made for. *)
Recorded(d) ==
  d.record # NoRecord /\ d.record.no = d.proof.no /\ ~d.record.raced /\ d.proof.sound =>
    d.proof.key = d.record.vk /\ d.proof.input = d.record.input

DirOK(d) ==
  /\ DOMAIN d = {"compiled", "zkey", "vk", "manifest", "vkrs", "proof", "record"}
  /\ d.compiled \in Circuit \cup {0}
  /\ d.zkey \in Key /\ d.vk \in Key /\ d.vkrs \in Key
  /\ Trusted(d.manifest)
  /\ Recorded(d)

(* What a command may rely on as long as nobody has written since it began: r is
   the command, d the directory, o what the user edits. *)
Peaceful(r, d, o) ==
  /\ r.line.kind = "import" /\ r.at \in {"vk", "digest"} => d.zkey = r.line.from.zkey
  /\ r.line.kind = "import" /\ r.at = "digest" => d.vk = r.line.from.vk
  /\ r.line.kind = "verify" /\ r.at \in {"zkey", "compare"} =>
       d.zkey = r.man.zkey /\ d.vk = r.man.vk
  /\ r.line.kind = "verify" /\ r.at = "compare" => (r.man.ptau => r.man.zkey.of = r.of)
  /\ r.line.kind = "verify" /\ r.at \in {"stamp", "write"} => Matching(r.man, r.of)
  /\ r.line.kind = "prove" /\ r.at = "record" =>
       /\ d.proof.no = r.no
       /\ d.proof.input = o.input
       /\ d.proof.sound => d.proof.key = d.vk

(* A build sets up its own keys if it has found no ceremony, and no import and no
   verification has written one since. *)
SetsUp(r) == r.line.kind = "build" /\ r.at \in {"setup", "contribute", "export"}

Unpinned(r, d) == SetsUp(r) /\ ~r.pinned => d.manifest.type # "mpc"

ProcessOK(r, d, o) ==
  /\ DOMAIN r = {"line", "no", "at", "hash", "of", "tries", "man", "late", "pinned"}
  /\ ZkParses(r.line)
  /\ r.no \in Nat \ {0}
  /\ r.hash \in Circuit \cup {0} /\ r.of \in Circuit \cup {0}
  /\ r.line.kind = "build" /\ r.at = "contribute" => r.of \in Circuit
  /\ Trusted(r.man)
  /\ r.line.kind = "verify" /\ r.at # "read" => r.man.type = "mpc"
  /\ r.late \in BOOLEAN /\ r.pinned \in BOOLEAN
  /\ ~r.late => Peaceful(r, d, o)
  /\ Unpinned(r, d)

(* No two commands have the same number, and none that has yet to prove has the
   number of the record. *)
Numbered ==
  /\ left.commands \in Nat
  /\ dir.record.no = 0 \/ dir.record.no > left.commands
  /\ dir.record.no \in Nat
  /\ \A p \in DOMAIN zp :
       /\ zp[p].no > left.commands
       /\ \A q \in DOMAIN zp : zp[q].no = zp[p].no => q = p
       /\ zp[p].line.kind = "prove" /\ zp[p].at = "prove" => dir.record.no # zp[p].no

ZkInv == /\ own \in [circuit : Circuit, input : {1, 2}]
         /\ DOMAIN left = {"lines", "commands", "edits"}
         /\ \A line \in left.lines : ZkParses(line)
         /\ DirOK(dir)
         /\ DOMAIN zp \subseteq Proc
         /\ \A p \in DOMAIN zp : ProcessOK(zp[p], dir, own)
         /\ Numbered

LEMMA BundleKeys ==
  ASSUME NEW b \in Bundle
  PROVE  /\ b.zkey \in Key /\ b.vk \in Key /\ b.ptau \in BOOLEAN
         /\ b.zkey.by = "mpc" /\ b.vk.by = "mpc"
<1>1. b.ptau \in BOOLEAN /\ \A k \in {b.zkey, b.vk} : IsKey(k) /\ k.by = "mpc"
  BY ZkAssumption
<1> QED
  BY <1>1 DEF IsKey, Key

(* A ceremony that is pinned was copied, unless somebody else wrote meanwhile. *)
LEMMA PinnedIsTrusted ==
  ASSUME NEW hash \in Circuit \cup {0}, NEW zkey \in Key, NEW vk \in Key,
         NEW ptau \in BOOLEAN, NEW raced \in BOOLEAN,
         ~raced => zkey.by = "mpc" /\ vk.by = "mpc"
  PROVE  Trusted(MpcManifest(hash, zkey, vk, ptau, raced))
<1> DEFINE m == MpcManifest(hash, zkey, vk, ptau, raced)
<1>1. m \in MpcManifests /\ m.raced = raced /\ m.zkey = zkey /\ m.vk = vk /\ m.verified = FALSE
  BY DEF MpcManifest, MpcManifests
<1> HIDE DEF m
<1>2. Trusted(m)
  BY <1>1 DEF Trusted
<1> QED
  BY <1>2 DEF m

LEMMA OtherManifests ==
  /\ Trusted(NoManifest) /\ NoManifest.type = "none"
  /\ Trusted(DevManifest) /\ DevManifest.type = "dev"
  BY DEF Trusted, NoManifest, DevManifest

(* A command that goes on to its next step. *)
LEMMA Advanced ==
  ASSUME NEW r, DOMAIN r = {"line", "no", "at", "hash", "of", "tries", "man", "late", "pinned"}, NEW next
  PROVE  LET q == [r EXCEPT !.at = next] IN
           /\ DOMAIN q = DOMAIN r
           /\ q.at = next /\ q.line = r.line /\ q.no = r.no /\ q.hash = r.hash /\ q.of = r.of
           /\ q.man = r.man /\ q.late = r.late /\ q.pinned = r.pinned
  OBVIOUS

(* One that was disturbed relies on nothing but that no ceremony was written. *)
LEMMA LateIsOK ==
  ASSUME NEW r, NEW d, NEW o, ProcessOK(r, d, o), NEW d2, NEW o2, NEW q,
         DOMAIN q = DOMAIN r, q.at = r.at, q.line = r.line, q.no = r.no,
         q.hash = r.hash, q.of = r.of, q.man = r.man, q.late = TRUE,
         q.pinned \in BOOLEAN, r.pinned => q.pinned,
         q.pinned \/ (d2.manifest.type = "mpc" => d.manifest.type = "mpc")
  PROVE  ProcessOK(q, d2, o2)
<1>1. Unpinned(q, d2)
  BY DEF ProcessOK, Unpinned, SetsUp
<1> QED
  BY <1>1 DEF ProcessOK

LEMMA ReadKeeps ==
  ASSUME ZkInv, NEW p \in DOMAIN zp, NEW q, ZkReads(p, q), ProcessOK(q, dir, own),
         q.no = zp[p].no, q.line.kind # "prove"
  PROVE  ZkInv'
<1>1. /\ UNCHANGED <<own, dir, left>>
      /\ DOMAIN zp' = DOMAIN zp
      /\ zp'[p] = q
      /\ \A r \in DOMAIN zp : r # p => zp'[r] = zp[r]
  BY DEF ZkReads
<1>2. \A r \in DOMAIN zp : ProcessOK(zp'[r], dir, own)
  BY <1>1 DEF ZkInv
<1>3. \A r \in DOMAIN zp : zp'[r].no = zp[r].no
  BY <1>1
<1>4. Numbered'
  BY <1>1, <1>3 DEF ZkInv, Numbered
<1> QED
  BY <1>1, <1>2, <1>4 DEF ZkInv

LEMMA EndKeeps ==
  ASSUME ZkInv, NEW p \in DOMAIN zp, ZkEnds(p)
  PROVE  ZkInv'
<1>1. /\ UNCHANGED <<own, dir, left>>
      /\ DOMAIN zp' = DOMAIN zp \ {p}
      /\ \A r \in DOMAIN zp' : zp'[r] = zp[r]
  BY DEF ZkEnds, Without
<1>2. Numbered'
  BY <1>1 DEF ZkInv, Numbered
<1> QED
  BY <1>1, <1>2 DEF ZkInv

LEMMA WriteKeeps ==
  ASSUME ZkInv, NEW p \in DOMAIN zp, NEW d, NEW next, ZkWrites(p, d, next), DirOK(d),
         \/ zp[p].line.kind \in {"import", "verify"}
         \/ d.manifest.type = "mpc" => dir.manifest.type = "mpc",
         \/ d.record.no = dir.record.no
         \/ d.record.no = zp[p].no /\ next = "end",
         next # "end" => /\ ProcessOK([zp[p] EXCEPT !.at = next], d, own)
                         /\ zp[p].line.kind = "prove" => next # "prove"
  PROVE  ZkInv'
<1> DEFINE pins == zp[p].line.kind \in {"import", "verify"}
<1>1. UNCHANGED <<own, left>> /\ dir' = d
  BY DEF ZkWrites
<1>2. /\ DOMAIN zp' = IF next = "end" THEN DOMAIN zp \ {p} ELSE DOMAIN zp
      /\ \A r \in DOMAIN zp' : r # p =>
           r \in DOMAIN zp /\ zp'[r] = [zp[r] EXCEPT !.late = TRUE, !.pinned = zp[r].pinned \/ pins]
      /\ next # "end" => zp'[p] = [zp[p] EXCEPT !.at = next]
  BY DEF ZkWrites, Without, Disturbed
<1>3. \A r \in DOMAIN zp : ProcessOK(zp[r], dir, own)
  BY DEF ZkInv
<1>4. ASSUME NEW r \in DOMAIN zp', r # p
      PROVE  /\ r \in DOMAIN zp
             /\ ProcessOK(zp'[r], d, own)
             /\ zp'[r].no = zp[r].no /\ zp'[r].line = zp[r].line /\ zp'[r].at = zp[r].at
  <2>1. r \in DOMAIN zp /\ zp'[r] = [zp[r] EXCEPT !.late = TRUE, !.pinned = zp[r].pinned \/ pins]
    BY <1>2, <1>4
  <2>2. pins \in BOOLEAN /\ (pins \/ (d.manifest.type = "mpc" => dir.manifest.type = "mpc"))
    OBVIOUS
  <2> HIDE DEF pins
  <2> DEFINE q == zp'[r]
  <2>3. ProcessOK(zp[r], dir, own)
    BY <1>3, <2>1
  <2>4. /\ DOMAIN q = DOMAIN zp[r] /\ q.at = zp[r].at /\ q.line = zp[r].line
        /\ q.no = zp[r].no /\ q.hash = zp[r].hash /\ q.of = zp[r].of /\ q.man = zp[r].man
        /\ q.late = TRUE /\ q.pinned = (zp[r].pinned \/ pins)
    BY <2>1, <2>3 DEF ProcessOK
  <2>5. /\ q.pinned \in BOOLEAN /\ (zp[r].pinned => q.pinned)
        /\ q.pinned \/ (d.manifest.type = "mpc" => dir.manifest.type = "mpc")
    BY <2>2, <2>3, <2>4 DEF ProcessOK
  <2> HIDE DEF q
  <2>6. ProcessOK(q, d, own)
    BY <2>3, <2>4, <2>5, LateIsOK
  <2> QED
    BY <2>1, <2>4, <2>6 DEF q
<1>5. ASSUME p \in DOMAIN zp'
      PROVE  /\ next # "end"
             /\ ProcessOK(zp'[p], d, own)
             /\ zp'[p].no = zp[p].no /\ zp'[p].line = zp[p].line /\ zp'[p].at = next
  <2>1. next # "end" /\ zp'[p] = [zp[p] EXCEPT !.at = next]
    BY <1>2, <1>5
  <2> QED
    BY <1>3, <2>1, Advanced DEF ProcessOK
<1>6. Numbered'
  <2>1. /\ d.record.no \in Nat
        /\ d.record.no = 0 \/ d.record.no > left.commands
    BY <1>3 DEF ZkInv, Numbered, ProcessOK
  <2>2. ASSUME NEW r \in DOMAIN zp'
        PROVE  /\ zp'[r].no = zp[r].no /\ r \in DOMAIN zp
               /\ zp'[r].no > left.commands
               /\ zp'[r].line.kind = "prove" /\ zp'[r].at = "prove" => d.record.no # zp'[r].no
    <3>1. zp'[r].no = zp[r].no /\ r \in DOMAIN zp
      BY <1>4, <1>5
    <3>2. CASE r = p
      BY <1>5, <2>2, <3>1, <3>2 DEF ZkInv, Numbered
    <3>3. CASE r # p
      <4>1. zp'[r].line = zp[r].line /\ zp'[r].at = zp[r].at
        BY <1>4, <2>2, <3>3
      <4> QED
        BY <3>1, <3>3, <4>1 DEF ZkInv, Numbered
    <3> QED
      BY <3>2, <3>3
  <2>3. \A r, q \in DOMAIN zp' : zp'[q].no = zp'[r].no => q = r
    BY <2>2 DEF ZkInv, Numbered
  <2> QED
    BY <1>1, <2>1, <2>2, <2>3 DEF ZkInv, Numbered
<1>7. \A r \in DOMAIN zp' : ProcessOK(zp'[r], d, own)
  BY <1>4, <1>5
<1> QED
  BY <1>1, <1>2, <1>6, <1>7 DEF ZkInv

-----------------------------------------------------------------------------
(* The steps of the `ctg zk` commands *)

(* A command that reads, and is no proof, goes on to `next`. *)
LEMMA AdvanceKeeps ==
  ASSUME ZkInv, NEW p \in DOMAIN zp, NEW next, ZkReads(p, [zp[p] EXCEPT !.at = next]),
         zp[p].line.kind # "prove",
         zp[p].line.kind # "build",
         zp[p].line.kind = "verify" => zp[p].man.type = "mpc",
         ~zp[p].late => Peaceful([zp[p] EXCEPT !.at = next], dir, own)
  PROVE  ZkInv'
<1> DEFINE q == [zp[p] EXCEPT !.at = next]
<1>1. ProcessOK(zp[p], dir, own)
  BY DEF ZkInv
<1>2. /\ DOMAIN q = DOMAIN zp[p]
      /\ q.at = next /\ q.line = zp[p].line /\ q.no = zp[p].no /\ q.hash = zp[p].hash
      /\ q.of = zp[p].of /\ q.man = zp[p].man /\ q.late = zp[p].late
      /\ q.pinned = zp[p].pinned
  BY <1>1 DEF ProcessOK
<1>3. ~q.late => Peaceful(q, dir, own)
  BY <1>2
<1> HIDE DEF q
<1>4. ProcessOK(q, dir, own)
  BY <1>1, <1>2, <1>3 DEF ProcessOK, Unpinned, SetsUp
<1> QED
  BY <1>2, <1>4, ReadKeeps DEF q

(* One that writes, likewise. *)
LEMMA GoOnKeeps ==
  ASSUME ZkInv, NEW p \in DOMAIN zp, NEW d, NEW next, ZkWrites(p, d, next), DirOK(d),
         d.record.no = dir.record.no, next \notin {"end", "prove", "contribute", "setup"},
         d.manifest.type = "mpc" => dir.manifest.type = "mpc",
         next = "export" => zp[p].at = "contribute",
         zp[p].line.kind = "verify" => zp[p].man.type = "mpc",
         ~zp[p].late => Peaceful([zp[p] EXCEPT !.at = next], d, own)
  PROVE  ZkInv'
<1> DEFINE q == [zp[p] EXCEPT !.at = next]
<1>1. ProcessOK(zp[p], dir, own)
  BY DEF ZkInv
<1>2. /\ DOMAIN q = DOMAIN zp[p]
      /\ q.at = next /\ q.line = zp[p].line /\ q.no = zp[p].no /\ q.hash = zp[p].hash
      /\ q.of = zp[p].of /\ q.man = zp[p].man /\ q.late = zp[p].late
      /\ q.pinned = zp[p].pinned
  BY <1>1 DEF ProcessOK
<1>3. ~q.late => Peaceful(q, d, own)
  BY <1>2
<1> HIDE DEF q
<1>4. Unpinned(q, d)
  BY <1>1, <1>2 DEF ProcessOK, Unpinned, SetsUp
<1>5. ProcessOK(q, d, own)
  BY <1>1, <1>2, <1>3, <1>4 DEF ProcessOK
<1> QED
  BY <1>5, WriteKeeps DEF q

LEMMA StartZkKeeps == ASSUME ZkInv, NEW p \in Proc, ZkStart(p) PROVE ZkInv'
<1>1. PICK line \in left.lines :
        zp' = [q \in DOMAIN zp \cup {p} |->
                 IF q = p THEN Process(line, left.commands, FirstZkStep[line.kind]) ELSE zp[q]]
  BY DEF ZkStart
<1> DEFINE r == Process(line, left.commands, FirstZkStep[line.kind])
<1>2. /\ UNCHANGED <<own, dir>> /\ p \notin DOMAIN zp
      /\ left' = [left EXCEPT !.commands = @ - 1]
      /\ left.commands > 0 /\ left.commands \in Nat
  BY DEF ZkStart, Runs, ZkInv, Numbered
<1>3. /\ DOMAIN left' = DOMAIN left /\ left'.lines = left.lines
      /\ left'.commands = left.commands - 1 /\ left'.commands \in Nat
  BY <1>2 DEF ZkInv
<1>4. ZkParses(line) /\ line.kind \in {"build", "import", "verify", "prove", "invoke"}
  BY DEF ZkInv, ZkParses
<1>5. /\ DOMAIN r = {"line", "no", "at", "hash", "of", "tries", "man", "late", "pinned"}
      /\ r.line = line /\ r.no = left.commands /\ r.at = FirstZkStep[line.kind]
      /\ r.hash = 0 /\ r.of = 0 /\ r.man = NoManifest /\ r.late = FALSE /\ r.pinned = FALSE
  BY DEF Process
<1>6. /\ line.kind = "build" => r.at = "compile"
      /\ line.kind = "import" => r.at = "check"
      /\ line.kind = "verify" => r.at = "read"
      /\ line.kind = "prove" => r.at = "prove"
      /\ r.at # "contribute"
  BY <1>4, <1>5 DEF FirstZkStep
<1> HIDE DEF r
<1>7. ProcessOK(r, dir, own)
  <2>1. Peaceful(r, dir, own) /\ Unpinned(r, dir)
    BY <1>4, <1>5, <1>6 DEF Peaceful, Unpinned, SetsUp
  <2>2. r.no \in Nat \ {0}
    BY <1>2, <1>5
  <2>3. Trusted(r.man) /\ r.late = FALSE
    BY <1>5, OtherManifests
  <2> QED
    BY <1>4, <1>5, <1>6, <2>1, <2>2, <2>3 DEF ProcessOK
<1>8. DOMAIN zp' = DOMAIN zp \cup {p} /\ zp'[p] = r /\ \A q \in DOMAIN zp : zp'[q] = zp[q]
  BY <1>1, <1>2 DEF r
<1>9. Numbered'
  <2>1. dir'.record.no \in Nat /\ (dir'.record.no = 0 \/ dir'.record.no > left.commands)
    BY <1>2 DEF ZkInv, Numbered
  <2>2. ASSUME NEW q \in DOMAIN zp
        PROVE  /\ zp'[q].no = zp[q].no /\ zp[q].no > left.commands /\ zp[q].no \in Nat
               /\ zp'[q].line.kind = "prove" /\ zp'[q].at = "prove" => dir'.record.no # zp[q].no
    BY <1>2, <1>8 DEF ZkInv, Numbered, ProcessOK
  <2>3. zp'[p].no = left.commands /\ dir'.record.no # left.commands
    BY <1>2, <1>5, <1>8, <2>1
  <2>4. \A q \in DOMAIN zp' :
          /\ zp'[q].no > left'.commands
          /\ zp'[q].line.kind = "prove" /\ zp'[q].at = "prove" => dir'.record.no # zp'[q].no
    BY <1>2, <1>3, <1>8, <2>2, <2>3
  <2>5. \A q, o \in DOMAIN zp' : zp'[o].no = zp'[q].no => o = q
    <3>1. \A q, o \in DOMAIN zp : zp[o].no = zp[q].no => o = q
      BY DEF ZkInv, Numbered
    <3> QED
      BY <1>2, <1>8, <2>2, <2>3, <3>1
  <2> QED
    BY <1>2, <1>3, <2>1, <2>4, <2>5 DEF Numbered
<1>10. \A q \in DOMAIN zp' : ProcessOK(zp'[q], dir, own)
  BY <1>7, <1>8 DEF ZkInv
<1> QED
  BY <1>2, <1>3, <1>8, <1>9, <1>10 DEF ZkInv

LEMMA EditKeeps == ZkInv /\ Edit => ZkInv'
<1> SUFFICES ASSUME ZkInv, Edit PROVE ZkInv'
  OBVIOUS
<1>1. /\ dir' = dir /\ DOMAIN zp' = DOMAIN zp
      /\ left' = [left EXCEPT !.edits = @ - 1]
      /\ \A p \in DOMAIN zp :
           zp'[p] = [zp[p] EXCEPT !.late = zp[p].late \/ zp[p].line.kind = "prove"]
  BY DEF Edit
<1>2. DOMAIN left' = DOMAIN left /\ left'.lines = left.lines /\ left'.commands = left.commands
  BY <1>1 DEF ZkInv
<1>3. own' \in [circuit : Circuit, input : {1, 2}]
  BY DEF Edit, ZkInv
<1>4. ASSUME NEW p \in DOMAIN zp
      PROVE  /\ zp'[p].no = zp[p].no /\ zp'[p].line = zp[p].line /\ zp'[p].at = zp[p].at
             /\ ProcessOK(zp'[p], dir, own')
  <2>1. ProcessOK(zp[p], dir, own)
    BY DEF ZkInv
  <2>2. CASE zp[p].line.kind = "prove"
    <3>1. zp'[p] = [zp[p] EXCEPT !.late = TRUE]
      BY <1>1, <2>2
    <3>2. /\ DOMAIN zp'[p] = DOMAIN zp[p]
          /\ zp'[p].at = zp[p].at /\ zp'[p].line = zp[p].line /\ zp'[p].no = zp[p].no
          /\ zp'[p].hash = zp[p].hash /\ zp'[p].of = zp[p].of
          /\ zp'[p].man = zp[p].man /\ zp'[p].late = TRUE
          /\ zp'[p].pinned = zp[p].pinned
      BY <2>1, <3>1 DEF ProcessOK
    <3> QED
      BY <2>1, <3>2 DEF ProcessOK, Unpinned, SetsUp
  <2>3. CASE zp[p].line.kind # "prove"
    <3>1. zp'[p] = [zp[p] EXCEPT !.late = zp[p].late]
      BY <1>1, <2>1, <2>3 DEF ProcessOK
    <3>2. /\ DOMAIN zp'[p] = DOMAIN zp[p]
          /\ zp'[p].at = zp[p].at /\ zp'[p].line = zp[p].line /\ zp'[p].no = zp[p].no
          /\ zp'[p].hash = zp[p].hash /\ zp'[p].of = zp[p].of
          /\ zp'[p].man = zp[p].man /\ zp'[p].late = zp[p].late
          /\ zp'[p].pinned = zp[p].pinned
      BY <2>1, <3>1 DEF ProcessOK
    <3>3. Peaceful(zp[p], dir, own) => Peaceful(zp'[p], dir, own')
      BY <2>3, <3>2 DEF Peaceful
    <3> QED
      BY <2>1, <3>2, <3>3 DEF ProcessOK, Unpinned, SetsUp
  <2> QED
    BY <2>2, <2>3
<1>5. Numbered'
  BY <1>1, <1>2, <1>4 DEF ZkInv, Numbered
<1> QED
  BY <1>1, <1>2, <1>3, <1>4, <1>5 DEF ZkInv

LEMMA SwapKeeps == ZkInv /\ Swap => ZkInv'
<1> SUFFICES ASSUME ZkInv, Swap PROVE ZkInv'
  OBVIOUS
<1> DEFINE k == [by |-> "swapped", of |-> own.circuit, no |-> 0]
<1>1. k \in Key
  BY DEF Key, Maker, ZkInv
<1>2. /\ own' = own
      /\ left' = [left EXCEPT !.edits = @ - 1]
      /\ dir' = [dir EXCEPT !.zkey = k] \/ dir' = [dir EXCEPT !.vk = k]
      /\ DOMAIN zp' = DOMAIN zp
      /\ \A p \in DOMAIN zp :
           zp'[p] = [zp[p] EXCEPT !.late = TRUE, !.pinned = zp[p].pinned \/ FALSE]
  BY DEF Swap, Disturbed
<1> HIDE DEF k
<1>3. DirOK(dir') /\ dir'.record = dir.record /\ dir'.manifest = dir.manifest
  BY <1>1, <1>2 DEF ZkInv, DirOK, Recorded
<1>4. DOMAIN left' = DOMAIN left /\ left'.lines = left.lines /\ left'.commands = left.commands
  BY <1>2 DEF ZkInv
<1>5. ASSUME NEW p \in DOMAIN zp
      PROVE  /\ zp'[p].no = zp[p].no /\ zp'[p].line = zp[p].line /\ zp'[p].at = zp[p].at
             /\ ProcessOK(zp'[p], dir', own')
  <2> DEFINE d == dir'
             o == own'
             q == zp'[p]
  <2>1. /\ ProcessOK(zp[p], dir, own) /\ d.manifest = dir.manifest
        /\ q = [zp[p] EXCEPT !.late = TRUE, !.pinned = zp[p].pinned \/ FALSE]
    BY <1>2, <1>3 DEF ZkInv
  <2>2. /\ DOMAIN q = DOMAIN zp[p] /\ q.at = zp[p].at /\ q.line = zp[p].line
        /\ q.no = zp[p].no /\ q.hash = zp[p].hash /\ q.of = zp[p].of /\ q.man = zp[p].man
        /\ q.late = TRUE /\ q.pinned = zp[p].pinned /\ q.pinned \in BOOLEAN
    BY <2>1 DEF ProcessOK
  <2>3. /\ ProcessOK(zp[p], dir, own) /\ (zp[p].pinned => q.pinned)
        /\ q.pinned \/ (d.manifest.type = "mpc" => dir.manifest.type = "mpc")
    BY <2>1, <2>2
  <2> HIDE DEF d, o, q
  <2>4. ProcessOK(q, d, o)
    BY <2>2, <2>3, LateIsOK
  <2> QED
    BY <2>2, <2>4 DEF d, o, q
<1>6. Numbered'
  BY <1>2, <1>3, <1>4, <1>5 DEF ZkInv, Numbered
<1> QED
  BY <1>2, <1>3, <1>4, <1>5, <1>6 DEF ZkInv

(* What the steps that read have in common. *)
LEMMA ReadingKeeps ==
  ASSUME ZkInv, NEW p \in Proc,
         \/ Rehash(p) \/ CompareKeys(p) \/ Admit(p) \/ ConfirmInvoke(p)
  PROVE  ZkInv'
<1>1. PICK next : /\ p \in DOMAIN zp
                  /\ ZkReads(p, [zp[p] EXCEPT !.at = next])
                  /\ \/ /\ zp[p].line.kind = "verify" /\ zp[p].at = "rehash"
                        /\ MatchesDigests(zp[p].man)
                        /\ next \in {"zkey", "compare"}
                        /\ zp[p].man.ptau => next = "zkey"
                     \/ /\ zp[p].line.kind = "verify" /\ zp[p].at = "compare" /\ next = "stamp"
                        /\ dir.vk = dir.zkey
                     \/ zp[p].line.kind = "invoke"
  BY DEF Rehash, CompareKeys, Admit, ConfirmInvoke, Is, Runs, VkIsOfZkey
<1>2. ProcessOK(zp[p], dir, own)
  BY <1>1 DEF ZkInv
<1> DEFINE q == [zp[p] EXCEPT !.at = next]
<1>3. q.at = next /\ q.line = zp[p].line /\ q.man = zp[p].man /\ q.of = zp[p].of
  BY <1>2 DEF ProcessOK
<1> HIDE DEF q
<1>4. ASSUME ~zp[p].late PROVE Peaceful(q, dir, own)
  <2>1. Peaceful(zp[p], dir, own)
    BY <1>2, <1>4 DEF ProcessOK
  <2> QED
    BY <1>1, <1>3, <2>1 DEF Peaceful, MatchesDigests, Matching
<1>5. zp[p].line.kind = "verify" => zp[p].man.type = "mpc"
  BY <1>1, <1>2 DEF ProcessOK
<1> QED
  BY <1>1, <1>4, <1>5, AdvanceKeeps DEF q

(* zkey verify, with the circuit as it is compiled now. *)
LEMMA VerifyZkeyKeeps == ASSUME ZkInv, NEW p \in Proc, VerifyZkey(p) PROVE ZkInv'
<1> DEFINE q == [zp[p] EXCEPT !.of = dir.compiled, !.at = "compare"]
<1>1. /\ p \in DOMAIN zp
      /\ zp[p].line.kind = "verify" /\ zp[p].at = "zkey"
      /\ dir.zkey.of = dir.compiled
      /\ ZkReads(p, q)
  BY DEF VerifyZkey, Is, Runs
<1>2. ProcessOK(zp[p], dir, own) /\ dir.compiled \in Circuit \cup {0}
  BY <1>1 DEF ZkInv, DirOK
<1>3. /\ DOMAIN q = DOMAIN zp[p]
      /\ q.at = "compare" /\ q.line = zp[p].line /\ q.no = zp[p].no
      /\ q.hash = zp[p].hash /\ q.of = dir.compiled /\ q.man = zp[p].man
      /\ q.late = zp[p].late /\ q.pinned = zp[p].pinned
  BY <1>2 DEF ProcessOK
<1> HIDE DEF q
<1>4. ~q.late => Peaceful(q, dir, own)
  BY <1>1, <1>2, <1>3 DEF Peaceful, ProcessOK
<1>5. ProcessOK(q, dir, own)
  BY <1>1, <1>2, <1>3, <1>4 DEF ProcessOK, Unpinned, SetsUp
<1> QED
  BY <1>1, <1>3, <1>5, ReadKeeps

(* A build that has read the manifest knows whether there is a ceremony. *)
LEMMA ReadManifestKeeps == ASSUME ZkInv, NEW p \in Proc, ReadManifest(p) PROVE ZkInv'
<1> DEFINE next == IF ReusesCeremony(p) THEN "match" ELSE "setup"
           q == [zp[p] EXCEPT !.at = next, !.pinned = FALSE]
<1>1. /\ p \in DOMAIN zp
      /\ zp[p].line.kind = "build"
      /\ ZkReads(p, q)
  BY DEF ReadManifest, Is, Runs
<1>2. ProcessOK(zp[p], dir, own)
  BY <1>1 DEF ZkInv
<1>3. next = "match" \/ (next = "setup" /\ dir.manifest.type # "mpc")
  BY DEF ReusesCeremony
<1> HIDE DEF next
<1>4. /\ DOMAIN q = DOMAIN zp[p]
      /\ q.at = next /\ q.line = zp[p].line /\ q.no = zp[p].no /\ q.hash = zp[p].hash
      /\ q.of = zp[p].of /\ q.man = zp[p].man /\ q.late = zp[p].late /\ q.pinned = FALSE
  BY <1>2 DEF ProcessOK
<1> HIDE DEF q
<1>5. Peaceful(q, dir, own) /\ Unpinned(q, dir)
  BY <1>1, <1>3, <1>4 DEF Peaceful, Unpinned, SetsUp
<1>6. ProcessOK(q, dir, own)
  BY <1>1, <1>2, <1>3, <1>4, <1>5 DEF ProcessOK
<1> QED
  BY <1>1, <1>4, <1>6, ReadKeeps

LEMMA HashSourcesKeeps ==
  ASSUME ZkInv, NEW p \in Proc, HashSources(p) \/ CheckBundle(p) PROVE ZkInv'
<1>1. PICK next \in {"manifest", "zkey"} :
        /\ p \in DOMAIN zp
        /\ zp[p].line.kind \in {"build", "import"}
        /\ ZkReads(p, [zp[p] EXCEPT !.hash = own.circuit, !.at = next])
  BY DEF HashSources, CheckBundle, Is, Runs
<1>2. ProcessOK(zp[p], dir, own) /\ own.circuit \in Circuit
  BY <1>1 DEF ZkInv
<1> DEFINE q == [zp[p] EXCEPT !.hash = own.circuit, !.at = next]
<1>3. /\ DOMAIN q = DOMAIN zp[p]
      /\ q.at = next /\ q.line = zp[p].line /\ q.no = zp[p].no /\ q.hash = own.circuit
      /\ q.of = zp[p].of /\ q.man = zp[p].man /\ q.late = zp[p].late
      /\ q.pinned = zp[p].pinned
  BY <1>2 DEF ProcessOK
<1> HIDE DEF q
<1>4. Peaceful(q, dir, own)
  BY <1>1, <1>3 DEF Peaceful
<1>5. ProcessOK(q, dir, own)
  BY <1>1, <1>2, <1>3, <1>4 DEF ProcessOK, Unpinned, SetsUp
<1> QED
  BY <1>1, <1>3, <1>5, ReadKeeps DEF q

LEMMA SetupKeeps == ASSUME ZkInv, NEW p \in Proc, Setup(p) PROVE ZkInv'
<1>1. /\ p \in DOMAIN zp
      /\ zp[p].line.kind = "build" /\ zp[p].at = "setup"
      /\ dir.compiled # 0
      /\ ZkReads(p, [zp[p] EXCEPT !.of = dir.compiled, !.at = "contribute"])
  BY DEF Setup, Is, Runs
<1>2. ProcessOK(zp[p], dir, own) /\ dir.compiled \in Circuit
  BY <1>1 DEF ZkInv, DirOK
<1> DEFINE q == [zp[p] EXCEPT !.of = dir.compiled, !.at = "contribute"]
<1>3. /\ DOMAIN q = DOMAIN zp[p]
      /\ q.at = "contribute" /\ q.line = zp[p].line /\ q.no = zp[p].no
      /\ q.hash = zp[p].hash /\ q.of = dir.compiled /\ q.man = zp[p].man
      /\ q.late = zp[p].late /\ q.pinned = zp[p].pinned
  BY <1>2 DEF ProcessOK
<1> HIDE DEF q
<1>4. ~q.late => Peaceful(q, dir, own)
  BY <1>1, <1>2, <1>3 DEF Peaceful, ProcessOK
<1>5. ProcessOK(q, dir, own)
  BY <1>1, <1>2, <1>3, <1>4 DEF ProcessOK, Unpinned, SetsUp
<1> QED
  BY <1>1, <1>3, <1>5, ReadKeeps DEF q

(* An import takes the digests of what it has copied, *)
LEMMA DigestKeeps == ASSUME ZkInv, NEW p \in Proc, Digest(p) PROVE ZkInv'
<1> DEFINE m == MpcManifest(zp[p].hash, dir.zkey, dir.vk, zp[p].line.from.ptau, zp[p].late)
           q == [zp[p] EXCEPT !.at = "pin", !.man = m]
<1>1. /\ p \in DOMAIN zp
      /\ zp[p].line.kind = "import" /\ zp[p].at = "digest"
      /\ ZkReads(p, q)
  BY DEF Digest, Is, Runs
<1>2. ProcessOK(zp[p], dir, own) /\ dir.zkey \in Key /\ dir.vk \in Key
  BY <1>1 DEF ZkInv, DirOK
<1>3. Trusted(m)
  <2>1. zp[p].line.from \in Bundle
    BY <1>1, <1>2 DEF ProcessOK, ZkParses
  <2>2. zp[p].hash \in Circuit \cup {0} /\ zp[p].late \in BOOLEAN
    BY <1>2 DEF ProcessOK
  <2>3. ~zp[p].late => dir.zkey = zp[p].line.from.zkey /\ dir.vk = zp[p].line.from.vk
    BY <1>1, <1>2 DEF ProcessOK, Peaceful
  <2>4. /\ zp[p].line.from.ptau \in BOOLEAN
        /\ ~zp[p].late => dir.zkey.by = "mpc" /\ dir.vk.by = "mpc"
    BY <2>1, <2>3, BundleKeys
  <2> QED
    BY <1>2, <2>2, <2>4, PinnedIsTrusted
<1> HIDE DEF m
<1>4. /\ DOMAIN q = DOMAIN zp[p]
      /\ q.at = "pin" /\ q.line = zp[p].line /\ q.no = zp[p].no /\ q.hash = zp[p].hash
      /\ q.of = zp[p].of /\ q.man = m /\ q.late = zp[p].late
      /\ q.pinned = zp[p].pinned
  BY <1>2 DEF ProcessOK
<1> HIDE DEF q
<1>5. Peaceful(q, dir, own)
  BY <1>1, <1>4 DEF Peaceful
<1>6. ProcessOK(q, dir, own)
  BY <1>1, <1>2, <1>3, <1>4, <1>5 DEF ProcessOK, Unpinned, SetsUp
<1> QED
  BY <1>1, <1>4, <1>6, ReadKeeps

(* while a verification and the guard of an invocation take what the manifest says. *)
LEMMA ManifestReadKeeps ==
  ASSUME ZkInv, NEW p \in Proc, ReadPinned(p) \/ Guard(p) PROVE ZkInv'
<1>1. PICK next \in {"rehash", "compare"} :
        /\ p \in DOMAIN zp
        /\ \/ zp[p].line.kind = "verify" /\ dir.manifest.type = "mpc" /\ next = "rehash"
           \/ zp[p].line.kind = "invoke"
        /\ ZkReads(p, [zp[p] EXCEPT !.man = dir.manifest, !.at = next])
                   \/ ZkReads(p, [zp[p] EXCEPT !.at = next, !.man = dir.manifest])
  BY DEF ReadPinned, Guard, Is, Runs
<1>2. ProcessOK(zp[p], dir, own) /\ Trusted(dir.manifest)
  BY <1>1 DEF ZkInv, DirOK
<1> DEFINE q == [zp[p] EXCEPT !.man = dir.manifest, !.at = next]
<1>3. /\ DOMAIN q = DOMAIN zp[p]
      /\ q.at = next /\ q.line = zp[p].line /\ q.no = zp[p].no /\ q.hash = zp[p].hash
      /\ q.of = zp[p].of /\ q.man = dir.manifest /\ q.late = zp[p].late
      /\ q.pinned = zp[p].pinned
  BY <1>2 DEF ProcessOK
<1>4. ZkReads(p, q)
  BY <1>1, <1>2 DEF ProcessOK
<1> HIDE DEF q
<1>5. Peaceful(q, dir, own)
  BY <1>1, <1>3 DEF Peaceful
<1>6. ProcessOK(q, dir, own)
  BY <1>1, <1>2, <1>3, <1>5 DEF ProcessOK, Unpinned, SetsUp
<1> QED
  BY <1>1, <1>3, <1>4, <1>6, ReadKeeps

LEMMA AskProtocolKeeps == ASSUME ZkInv, NEW p \in Proc, AskProtocol(p) PROVE ZkInv'
<1> DEFINE q == [zp[p] EXCEPT !.tries = zp[p].tries + 1]
           c == [zp[p] EXCEPT !.at = "confirm"]
<1>1. /\ p \in DOMAIN zp
      /\ zp[p].line.kind = "invoke"
      /\ ZkReads(p, q) \/ ZkReads(p, c) \/ ZkEnds(p)
  BY DEF AskProtocol, Is, Runs
<1>2. ProcessOK(zp[p], dir, own)
  BY <1>1 DEF ZkInv
<1>3. CASE ZkReads(p, q)
  <2>1. /\ DOMAIN q = DOMAIN zp[p]
        /\ q.at = zp[p].at /\ q.line = zp[p].line /\ q.no = zp[p].no /\ q.hash = zp[p].hash
        /\ q.of = zp[p].of /\ q.man = zp[p].man /\ q.late = zp[p].late
        /\ q.pinned = zp[p].pinned
    BY <1>2 DEF ProcessOK
  <2> HIDE DEF q
  <2>2. Peaceful(q, dir, own)
    BY <1>1, <2>1 DEF Peaceful
  <2>3. ProcessOK(q, dir, own)
    BY <1>1, <1>2, <2>1, <2>2 DEF ProcessOK, Unpinned, SetsUp
  <2> QED
    BY <1>1, <1>3, <2>1, <2>3, ReadKeeps
<1>4. CASE ZkReads(p, c)
  <2>1. c.line = zp[p].line
    BY <1>2 DEF ProcessOK
  <2> HIDE DEF c
  <2>2. Peaceful(c, dir, own)
    BY <1>1, <2>1 DEF Peaceful
  <2> QED
    BY <1>1, <1>4, <2>2, AdvanceKeeps DEF c
<1> QED
  BY <1>1, <1>3, <1>4, EndKeeps

LEMMA EndingKeeps == ASSUME ZkInv, NEW p \in Proc, ZkStops(p) \/ Send(p) PROVE ZkInv'
  BY EndKeeps DEF ZkStops, Send, Is, Runs

(* What the steps that write leave in the directory. *)
LEMMA KeysKeep ==
  ASSUME NEW d, DirOK(d), NEW k \in Key
  PROVE  /\ LET e == [d EXCEPT !.zkey = k] IN
              /\ DirOK(e) /\ e.record = d.record /\ e.manifest = d.manifest
              /\ e.zkey = k /\ e.vk = d.vk
         /\ LET e == [d EXCEPT !.vk = k] IN
              /\ DirOK(e) /\ e.record = d.record /\ e.manifest = d.manifest
              /\ e.zkey = d.zkey /\ e.vk = k
         /\ LET e == [d EXCEPT !.vkrs = k] IN
              DirOK(e) /\ e.record = d.record /\ e.manifest = d.manifest
  BY DEF DirOK, Recorded

LEMMA ManifestKeeps ==
  ASSUME NEW d, DirOK(d), NEW m, Trusted(m)
  PROVE  LET e == [d EXCEPT !.manifest = m] IN
           DirOK(e) /\ e.record = d.record /\ e.manifest = m
  BY DEF DirOK, Recorded

(* build *)
LEMMA BuildWritesKeep ==
  ASSUME ZkInv, NEW p \in Proc,
         Compile(p) \/ Contribute(p) \/ Export(p) \/ Embed(p)
  PROVE  ZkInv'
<1>1. p \in DOMAIN zp /\ zp[p].line.kind = "build"
  BY DEF Compile, Contribute, Export, Embed, Is, Runs
<1>2. DirOK(dir) /\ ProcessOK(zp[p], dir, own) /\ own.circuit \in Circuit
  BY <1>1 DEF ZkInv
<1>3. PICK d, next :
        /\ next \in {"hash", "export", "embed", "mark"}
        /\ ZkWrites(p, d, next)
        /\ DirOK(d)
        /\ d.record = dir.record /\ d.manifest = dir.manifest
        /\ next = "export" => zp[p].at = "contribute"
  <2>1. CASE Compile(p)
    <3> DEFINE d == [dir EXCEPT !.compiled = own.circuit]
    <3>1. ZkWrites(p, d, "hash")
      BY <2>1 DEF Compile
    <3>2. DirOK(d) /\ d.record = dir.record /\ d.manifest = dir.manifest
      BY <1>2 DEF DirOK, Recorded
    <3> HIDE DEF d
    <3> QED
      BY <3>1, <3>2
  <2>2. CASE Contribute(p)
    <3> DEFINE k == [by |-> "dev", of |-> zp[p].of, no |-> zp[p].no]
               d == [dir EXCEPT !.zkey = k]
    <3>1. ZkWrites(p, d, "export") /\ zp[p].at = "contribute"
      BY <2>2 DEF Contribute, Is
    <3>2. k \in Key
      BY <1>1, <1>2, <3>1 DEF ProcessOK, Key, Maker
    <3> HIDE DEF k
    <3>3. DirOK(d) /\ d.record = dir.record /\ d.manifest = dir.manifest
      BY <1>2, <3>2, KeysKeep
    <3> HIDE DEF d
    <3> QED
      BY <3>1, <3>3
  <2>3. CASE Export(p)
    <3> DEFINE d == [dir EXCEPT !.vk = dir.zkey]
    <3>1. ZkWrites(p, d, "embed") \/ ZkWrites(p, d, "mark")
      BY <2>3 DEF Export
    <3>2. DirOK(d) /\ d.record = dir.record /\ d.manifest = dir.manifest
      BY <1>2, KeysKeep DEF DirOK
    <3> HIDE DEF d
    <3> QED
      BY <3>1, <3>2
  <2>4. CASE Embed(p)
    <3> DEFINE d == [dir EXCEPT !.vkrs = dir.vk]
    <3>1. ZkWrites(p, d, "mark")
      BY <2>4 DEF Embed
    <3>2. DirOK(d) /\ d.record = dir.record /\ d.manifest = dir.manifest
      BY <1>2, KeysKeep DEF DirOK
    <3> HIDE DEF d
    <3> QED
      BY <3>1, <3>2
  <2> QED
    BY <2>1, <2>2, <2>3, <2>4
<1> DEFINE q == [zp[p] EXCEPT !.at = next]
<1>4. q.at = next /\ q.line = zp[p].line
  BY <1>2 DEF ProcessOK
<1> HIDE DEF q
<1>5. ASSUME ~zp[p].late PROVE Peaceful(q, d, own)
  <2>1. Peaceful(zp[p], dir, own)
    BY <1>2, <1>5 DEF ProcessOK
  <2> QED
    BY <1>1, <1>3, <1>4, <2>1 DEF Peaceful
<1> QED
  BY <1>1, <1>3, <1>5, GoOnKeeps DEF q

LEMMA BuildEndsKeep ==
  ASSUME ZkInv, NEW p \in Proc, MatchCircuit(p) \/ MarkDev(p) PROVE ZkInv'
<1> DEFINE v == [dir EXCEPT !.vkrs = dir.vk]
           m == [dir EXCEPT !.manifest = DevManifest]
<1>1. /\ p \in DOMAIN zp
      /\ ZkEnds(p) \/ ZkWrites(p, v, "end") \/ ZkWrites(p, m, "end")
  BY DEF MatchCircuit, MarkDev, Is, Runs
<1>2. DirOK(dir) /\ dir.vk \in Key
  BY DEF ZkInv, DirOK
<1>3. \A d \in {v, m} : /\ DirOK(d) /\ d.record = dir.record
                        /\ d.manifest.type = "mpc" => dir.manifest.type = "mpc"
  <2>1. DirOK(v) /\ v.record = dir.record /\ v.manifest = dir.manifest
    BY <1>2, KeysKeep
  <2>2. DirOK(m) /\ m.record = dir.record /\ m.manifest = DevManifest
    BY <1>2, ManifestKeeps, OtherManifests
  <2> QED
    BY <2>1, <2>2, OtherManifests
<1> HIDE DEF v, m
<1>4. CASE \E d \in {v, m} : ZkWrites(p, d, "end")
  BY <1>1, <1>3, <1>4, WriteKeeps
<1> QED
  BY <1>1, <1>4, EndKeeps

(* The manifest is truncated: there is none, for the command itself too. *)
LEMMA OpenManifestKeeps == ASSUME ZkInv, NEW p \in Proc, OpenManifest(p) PROVE ZkInv'
<1> DEFINE d == [dir EXCEPT !.manifest = NoManifest]
           q == [zp[p] EXCEPT !.at = "write"]
<1>1. /\ p \in DOMAIN zp
      /\ zp[p].line.kind \in {"build", "import", "verify"}
      /\ zp[p].line.kind = "verify" => zp[p].at = "stamp"
      /\ ZkWrites(p, d, "write")
  BY DEF OpenManifest, Is, Runs
<1>2. DirOK(dir) /\ ProcessOK(zp[p], dir, own)
  BY <1>1 DEF ZkInv
<1>3. DirOK(d) /\ d.record = dir.record /\ d.manifest.type = "none"
  BY <1>2, ManifestKeeps, OtherManifests
<1>4. q.at = "write" /\ q.line = zp[p].line /\ q.man = zp[p].man /\ q.of = zp[p].of
  BY <1>2 DEF ProcessOK
<1>5. zp[p].line.kind = "verify" => zp[p].man.type = "mpc"
  BY <1>1, <1>2 DEF ProcessOK
<1> HIDE DEF d, q
<1>6. ASSUME ~zp[p].late PROVE Peaceful(q, d, own)
  <2>1. Peaceful(zp[p], dir, own)
    BY <1>2, <1>6 DEF ProcessOK
  <2> QED
    BY <1>1, <1>4, <2>1 DEF Peaceful
<1> QED
  BY <1>1, <1>3, <1>5, <1>6, GoOnKeeps DEF q

(* import *)
LEMMA ImportWritesKeep ==
  ASSUME ZkInv, NEW p \in Proc, CopyZkey(p) \/ CopyVk(p) PROVE ZkInv'
<1>1. p \in DOMAIN zp /\ zp[p].line.kind = "import"
  BY DEF CopyZkey, CopyVk, Is, Runs
<1>2. DirOK(dir) /\ ProcessOK(zp[p], dir, own)
  BY <1>1 DEF ZkInv
<1>3. zp[p].line.from.zkey \in Key /\ zp[p].line.from.vk \in Key
  BY <1>1, <1>2, BundleKeys DEF ProcessOK, ZkParses
<1> DEFINE z == [dir EXCEPT !.zkey = zp[p].line.from.zkey]
           v == [dir EXCEPT !.vk = zp[p].line.from.vk]
<1>4. /\ DirOK(z) /\ z.record = dir.record /\ z.zkey = zp[p].line.from.zkey
      /\ DirOK(v) /\ v.record = dir.record /\ v.zkey = dir.zkey /\ v.vk = zp[p].line.from.vk
      /\ z.manifest = dir.manifest /\ v.manifest = dir.manifest
  BY <1>2, <1>3, KeysKeep
<1>5. \/ ZkWrites(p, z, "vk")
      \/ ZkWrites(p, v, "digest") /\ zp[p].at = "vk"
  BY DEF CopyZkey, CopyVk, Is
<1> HIDE DEF z, v
<1> DEFINE q(next) == [zp[p] EXCEPT !.at = next]
<1>6. \A next : q(next).at = next /\ q(next).line = zp[p].line
  BY <1>2 DEF ProcessOK
<1> HIDE DEF q
<1>7. CASE ZkWrites(p, z, "vk")
  <2>1. Peaceful(q("vk"), z, own)
    BY <1>1, <1>4, <1>6 DEF Peaceful
  <2> QED
    BY <1>1, <1>4, <1>7, <2>1, GoOnKeeps DEF q
<1>8. CASE ZkWrites(p, v, "digest") /\ zp[p].at = "vk"
  <2>1. ~zp[p].late => Peaceful(zp[p], dir, own)
    BY <1>2 DEF ProcessOK
  <2>2. ~zp[p].late => dir.zkey = zp[p].line.from.zkey
    BY <1>1, <1>8, <2>1 DEF Peaceful
  <2>3. ~zp[p].late => Peaceful(q("digest"), v, own)
    BY <1>1, <1>4, <1>6, <2>2 DEF Peaceful
  <2> QED
    BY <1>1, <1>4, <1>8, <2>3, GoOnKeeps DEF q
<1> QED
  BY <1>5, <1>7, <1>8

LEMMA PinKeeps == ASSUME ZkInv, NEW p \in Proc, Pin(p) PROVE ZkInv'
<1> DEFINE d == [dir EXCEPT !.manifest = zp[p].man]
<1>1. p \in DOMAIN zp /\ zp[p].line.kind = "import" /\ ZkWrites(p, d, "end")
  BY DEF Pin, Is, Runs
<1>2. DirOK(dir) /\ Trusted(zp[p].man)
  BY <1>1 DEF ZkInv, ProcessOK
<1>3. DirOK(d) /\ d.record = dir.record
  BY <1>2, ManifestKeeps
<1> HIDE DEF d
<1> QED
  BY <1>1, <1>3, WriteKeeps

(* verify: the manifest is stamped if its keys have been compared. *)
LEMMA StampKeeps == ASSUME ZkInv, NEW p \in Proc, Stamp(p) PROVE ZkInv'
<1> DEFINE man == zp[p].man
           m == [man EXCEPT !.verified = TRUE, !.shaken = zp[p].late, !.against = zp[p].of]
           d == [dir EXCEPT !.manifest = m]
<1>1. /\ p \in DOMAIN zp
      /\ zp[p].line.kind = "verify" /\ zp[p].at = "write"
      /\ ZkWrites(p, d, "end")
  BY DEF Stamp, Is, Runs
<1>2. ProcessOK(zp[p], dir, own) /\ DirOK(dir)
  BY <1>1 DEF ZkInv
<1>3. /\ Trusted(man) /\ man.type = "mpc" /\ zp[p].late \in BOOLEAN
      /\ zp[p].of \in Circuit \cup {0}
  BY <1>1, <1>2 DEF ProcessOK
<1>4. ~zp[p].late => Matching(man, zp[p].of)
  BY <1>1, <1>2 DEF ProcessOK, Peaceful
<1>5. man \in MpcManifests
  BY <1>3, OtherManifests DEF Trusted
<1>6. /\ m \in MpcManifests
      /\ m.zkey = man.zkey /\ m.vk = man.vk /\ m.ptau = man.ptau /\ m.raced = man.raced
      /\ m.type = man.type /\ m.shaken = zp[p].late /\ m.against = zp[p].of
  BY <1>3, <1>5 DEF MpcManifests
<1> HIDE DEF m
<1>7. Trusted(m)
  BY <1>3, <1>4, <1>6 DEF Trusted, Matching
<1>8. DirOK(d) /\ d.record = dir.record
  BY <1>2, <1>7, ManifestKeeps
<1> HIDE DEF d
<1> QED
  BY <1>1, <1>8, WriteKeeps

(* prove: a proof has a number of its own, and so has its record. *)
LEMMA ProveKeeps == ASSUME ZkInv, NEW p \in Proc, Prove(p) PROVE ZkInv'
<1> DEFINE proof == [no |-> zp[p].no, key |-> dir.zkey, input |-> own.input,
                     sound |-> dir.vk = dir.zkey /\ dir.zkey.of = dir.compiled]
           d == [dir EXCEPT !.proof = proof]
           q == [zp[p] EXCEPT !.at = "record"]
<1>1. /\ p \in DOMAIN zp
      /\ zp[p].line.kind = "prove" /\ zp[p].at = "prove"
      /\ ZkWrites(p, d, "record")
  BY DEF Prove, Is, Runs
<1>2. ProcessOK(zp[p], dir, own) /\ DirOK(dir) /\ dir.record.no # zp[p].no
  BY <1>1 DEF ZkInv, Numbered
<1>3. /\ proof.no = zp[p].no /\ proof.input = own.input /\ proof.key = dir.zkey
      /\ proof.sound => dir.vk = dir.zkey
  OBVIOUS
<1> HIDE DEF proof
<1>4. /\ DOMAIN d = DOMAIN dir
      /\ d.compiled = dir.compiled /\ d.zkey = dir.zkey /\ d.vk = dir.vk /\ d.vkrs = dir.vkrs
      /\ d.manifest = dir.manifest /\ d.record = dir.record /\ d.proof = proof
  BY <1>2 DEF DirOK
<1> HIDE DEF d
<1>5. DirOK(d)
  BY <1>2, <1>3, <1>4 DEF DirOK, Recorded
<1>6. /\ DOMAIN q = DOMAIN zp[p]
      /\ q.at = "record" /\ q.line = zp[p].line /\ q.no = zp[p].no /\ q.hash = zp[p].hash
      /\ q.of = zp[p].of /\ q.man = zp[p].man /\ q.late = zp[p].late
      /\ q.pinned = zp[p].pinned
  BY <1>2 DEF ProcessOK
<1> HIDE DEF q
<1>7. Peaceful(q, d, own)
  BY <1>1, <1>3, <1>4, <1>6 DEF Peaceful
<1>8. ProcessOK(q, d, own)
  BY <1>1, <1>2, <1>6, <1>7 DEF ProcessOK, Unpinned, SetsUp
<1> QED
  BY <1>1, <1>4, <1>5, <1>8, WriteKeeps DEF q

LEMMA RecordProofKeeps == ASSUME ZkInv, NEW p \in Proc, RecordProof(p) PROVE ZkInv'
<1> DEFINE record == [no |-> zp[p].no, vk |-> dir.vk, input |-> own.input, raced |-> zp[p].late]
           d == [dir EXCEPT !.record = record]
<1>1. /\ p \in DOMAIN zp
      /\ zp[p].line.kind = "prove" /\ zp[p].at = "record"
      /\ ZkWrites(p, d, "end")
  BY DEF RecordProof, Is, Runs
<1>2. ProcessOK(zp[p], dir, own) /\ DirOK(dir)
  BY <1>1 DEF ZkInv
<1>3. ~zp[p].late => /\ dir.proof.no = zp[p].no
                     /\ dir.proof.input = own.input
                     /\ dir.proof.sound => dir.proof.key = dir.vk
  BY <1>1, <1>2 DEF ProcessOK, Peaceful
<1>4. /\ record.no = zp[p].no /\ record.vk = dir.vk /\ record.input = own.input
      /\ record.raced = zp[p].late
  OBVIOUS
<1> HIDE DEF record
<1>5. /\ DOMAIN d = DOMAIN dir
      /\ d.compiled = dir.compiled /\ d.zkey = dir.zkey /\ d.vk = dir.vk /\ d.vkrs = dir.vkrs
      /\ d.manifest = dir.manifest /\ d.record = record /\ d.proof = dir.proof
  BY <1>2 DEF DirOK
<1> HIDE DEF d
<1>6. DirOK(d)
  BY <1>2, <1>3, <1>4, <1>5 DEF DirOK, Recorded, ProcessOK
<1> QED
  BY <1>1, <1>4, <1>5, <1>6, WriteKeeps

LEMMA ScenesAreOK ==
  /\ DirOK(Empty) /\ Empty.record.no = 0
  /\ DirOK(AfterBuild) /\ AfterBuild.record.no = 0
  /\ \A b \in Bundle : DirOK(AfterImport(b)) /\ AfterImport(b).record.no = 0
<1>1. NoKey \in Key /\ DevKey(0) \in Key /\ 1 \in Circuit
  BY ZkAssumption DEF Key, DevKey, Maker
<1>2. /\ DOMAIN Empty = {"compiled", "zkey", "vk", "manifest", "vkrs", "proof", "record"}
      /\ Empty.compiled = 0 /\ Empty.zkey = NoKey /\ Empty.vk = NoKey /\ Empty.vkrs = NoKey
      /\ Empty.manifest = NoManifest /\ Empty.record = NoRecord /\ Empty.proof = NoProof
      /\ NoRecord.no = 0
  BY DEF Empty, Placeholder, NoRecord
<1>3. DirOK(Empty)
  BY <1>1, <1>2, OtherManifests DEF DirOK, Recorded
<1>4. DirOK(AfterBuild) /\ AfterBuild.record = NoRecord
  <2> DEFINE d == AfterBuild
  <2>1. /\ DOMAIN d = {"compiled", "zkey", "vk", "manifest", "vkrs", "proof", "record"}
        /\ d.compiled = 1 /\ d.zkey = DevKey(0) /\ d.vk = DevKey(0) /\ d.vkrs = NoKey
        /\ d.manifest = DevManifest /\ d.record = NoRecord
    BY <1>2 DEF AfterBuild
  <2> HIDE DEF d
  <2>2. DirOK(d) /\ d.record = NoRecord
    BY <1>1, <2>1, OtherManifests DEF DirOK, Recorded
  <2> QED
    BY <2>2 DEF d
<1>5. ASSUME NEW b \in Bundle PROVE DirOK(AfterImport(b)) /\ AfterImport(b).record = NoRecord
  <2> DEFINE d == AfterImport(b)
             m == MpcManifest(1, b.zkey, b.vk, b.ptau, FALSE)
  <2>1. /\ DOMAIN d = {"compiled", "zkey", "vk", "manifest", "vkrs", "proof", "record"}
        /\ d.compiled = 1 /\ d.zkey = b.zkey /\ d.vk = b.vk /\ d.vkrs = NoKey
        /\ d.manifest = m /\ d.record = NoRecord
    BY <1>2 DEF AfterImport
  <2>2. Trusted(m)
    BY <1>1, BundleKeys, PinnedIsTrusted
  <2> HIDE DEF d, m
  <2>3. DirOK(d) /\ d.record = NoRecord
    BY <1>1, <2>1, <2>2, BundleKeys DEF DirOK, Recorded
  <2> QED
    BY <2>3 DEF d
<1> QED
  BY <1>2, <1>3, <1>4, <1>5

LEMMA ZkInvInit == ProjectInit => ZkInv
<1> SUFFICES ASSUME ProjectInit PROVE ZkInv
  OBVIOUS
<1>1. config \in Config
  BY DEF ProjectInit, Init, OrderInit
<1>2. PICK s \in ZkScenes[config] : ZkInit(s)
  BY DEF ProjectInit
<1>3. /\ s.dir \in {Empty, AfterBuild} \cup {AfterImport(b) : b \in Bundle}
      /\ s.commands \in Nat
      /\ \A line \in s.lines : ZkParses(line)
  BY <1>1, ProjectAssumption
<1>4. DirOK(s.dir) /\ s.dir.record.no = 0
  BY <1>3, ScenesAreOK
<1>5. /\ own = [circuit |-> 1, input |-> 1]
      /\ dir = s.dir
      /\ DOMAIN zp = {}
      /\ left = [lines |-> s.lines, commands |-> s.commands, edits |-> s.edits]
  BY <1>2 DEF ZkInit
<1>6. own \in [circuit : Circuit, input : {1, 2}]
  BY <1>5, ZkAssumption
<1>7. DOMAIN left = {"lines", "commands", "edits"} /\ left.lines = s.lines /\ left.commands = s.commands
  BY <1>5
<1>8. Numbered
  BY <1>3, <1>4, <1>5, <1>7 DEF Numbered
<1> QED
  BY <1>3, <1>4, <1>5, <1>6, <1>7, <1>8 DEF ZkInv

LEMMA ZkInvNext == ZkInv /\ [ZkNext]_zkVars => ZkInv'
<1> SUFFICES ASSUME ZkInv, [ZkNext]_zkVars PROVE ZkInv'
  OBVIOUS
<1>1. ASSUME NEW p \in Proc, ZkStep(p) PROVE ZkInv'
  <2>1. CASE Rehash(p) \/ CompareKeys(p) \/ Admit(p) \/ ConfirmInvoke(p)
    BY <2>1, ReadingKeeps
  <2>2. CASE HashSources(p) \/ CheckBundle(p)
    BY <2>2, HashSourcesKeeps
  <2>3. CASE Setup(p)
    BY <2>3, SetupKeeps
  <2>4. CASE Digest(p)
    BY <2>4, DigestKeeps
  <2>5. CASE ReadPinned(p) \/ Guard(p)
    BY <2>5, ManifestReadKeeps
  <2>6. CASE AskProtocol(p)
    BY <2>6, AskProtocolKeeps
  <2>7. CASE ZkStops(p) \/ Send(p)
    BY <2>7, EndingKeeps
  <2>8. CASE Compile(p) \/ Contribute(p) \/ Export(p) \/ Embed(p)
    BY <2>8, BuildWritesKeep
  <2>9. CASE MatchCircuit(p) \/ MarkDev(p)
    BY <2>9, BuildEndsKeep
  <2>10. CASE CopyZkey(p) \/ CopyVk(p)
    BY <2>10, ImportWritesKeep
  <2>11. CASE Stamp(p)
    BY <2>11, StampKeeps
  <2>12. CASE Prove(p)
    BY <2>12, ProveKeeps
  <2>13. CASE RecordProof(p)
    BY <2>13, RecordProofKeeps
  <2>14. CASE ZkStart(p)
    BY <2>14, StartZkKeeps
  <2>15. CASE ReadManifest(p)
    BY <2>15, ReadManifestKeeps
  <2>16. CASE VerifyZkey(p)
    BY <2>16, VerifyZkeyKeeps
  <2>17. CASE OpenManifest(p)
    BY <2>17, OpenManifestKeeps
  <2>18. CASE Pin(p)
    BY <2>18, PinKeeps
  <2> QED
    BY <1>1, <2>1, <2>2, <2>3, <2>4, <2>5, <2>6, <2>7, <2>8, <2>9, <2>10, <2>11, <2>12,
       <2>13, <2>14, <2>15, <2>16, <2>17, <2>18 DEF ZkStep
<1>2. ASSUME UNCHANGED zkVars PROVE ZkInv'
  BY <1>2 DEF ZkInv, Numbered, zkVars
<1> QED
  BY <1>1, <1>2, EditKeeps, SwapKeeps DEF ZkNext

LEMMA ZkInvHolds == ProjectSpec => []ZkInv
<1>1. [ProjectNext]_projectVars => [ZkNext]_zkVars
  BY DEF ProjectNext, GraphStep, projectVars, zkState
<1> QED
  BY <1>1, ZkInvInit, ZkInvNext, PTL DEF ProjectSpec

-----------------------------------------------------------------------------
(* What a verified manifest says, what is not overwritten, what a status says
   and what passes the guard *)

(* verify-ceremony: a manifest that was stamped pins keys of each other and, with
   powers of tau, a zkey of the circuit it was verified with, unless somebody wrote
   in the directory while it was verified; an import that went wrong is none. *)
THEOREM VerifiedKeysAreOfEachOther == ProjectSpec => []VerifiedKeysMatch
<1>1. ZkInv => VerifiedKeysMatch
  BY DEF ZkInv, DirOK, Trusted, Matching, VerifiedKeysMatch
<1> QED
  BY <1>1, ZkInvHolds, PTL

(* build: audited keys stay where a manifest says that they were imported, whatever
   builds, proofs and people write meanwhile; only an import or a verification that
   wrote after the build had read the manifest is excused. *)
THEOREM BuildLeavesImportedKeys == ProjectSpec => ImportedStays
<1>1. ZkInv => \A p \in Proc :
                 ~(/\ dir.manifest.type = "mpc"
                   /\ Is(p, "build", "contribute") \/ Is(p, "build", "export")
                   /\ ~zp[p].pinned)
  BY DEF ZkInv, ProcessOK, Unpinned, SetsUp, Is, Runs
<1>2. ZkInv => [\A p \in Proc :
                  /\ dir.manifest.type = "mpc"
                  /\ Is(p, "build", "contribute") \/ Is(p, "build", "export")
                  /\ ~zp[p].pinned
                  => dir'.zkey = dir.zkey /\ dir'.vk = dir.vk]_zkVars
  BY <1>1
<1> QED
  BY <1>2, ZkInvHolds, PTL DEF ImportedStays

(* collectZkStatus: "up-to-date" is said of a proof that the key accepts. *)
THEOREM StatusIsTrue == ProjectSpec => []UpToDateVerifies
<1>1. ASSUME ZkInv PROVE UpToDateVerifies
  <2>1. Recorded(dir)
    BY <1>1 DEF ZkInv, DirOK
  <2>2. dir.manifest.type # "none" /\ ZkStatus = "up-to-date" =>
          /\ dir.record # NoRecord /\ dir.vk # NoKey => dir.record.vk = dir.vk
          /\ dir.record # NoRecord => dir.record.input = own.input
    BY DEF ZkStatus
  <2>3. ZkStatus = "up-to-date" => dir.manifest.type # "none"
    BY DEF ZkStatus
  <2> QED
    BY <2>1, <2>2, <2>3 DEF UpToDateVerifies, Recorded
<1> QED
  BY <1>1, ZkInvHolds, PTL

(* Nobody takes an invocation past the guard but the invocation itself. *)
LEMMA OnlyAdmitAdmits ==
  ASSUME ZkInv, ZkNext, NEW p \in DOMAIN zp, Is(p, "invoke", "compare"),
         p \in DOMAIN zp', zp'[p].at = "protocol"
  PROVE  Admit(p)
<1>1. DOMAIN zp[p] = {"line", "no", "at", "hash", "of", "tries", "man", "late", "pinned"}
  BY DEF ZkInv, ProcessOK
<1>2. ~(Edit \/ Swap)
  <2>1. /\ \A l : [zp[p] EXCEPT !.late = l].at = zp[p].at
        /\ [zp[p] EXCEPT !.late = TRUE, !.pinned = zp[p].pinned \/ FALSE].at = zp[p].at
    BY <1>1
  <2>2. ASSUME Edit PROVE \E l : zp'[p] = [zp[p] EXCEPT !.late = l]
    BY <2>2 DEF Edit
  <2>3. Swap => zp'[p] = [zp[p] EXCEPT !.late = TRUE, !.pinned = zp[p].pinned \/ FALSE]
    BY DEF Swap, Disturbed
  <2> QED
    BY <2>1, <2>2, <2>3 DEF Is
<1>3. PICK q \in Proc : ZkStep(q)
  BY <1>2 DEF ZkNext
<1>4. CASE q # p
  <2>1. \/ \E r : ZkReads(q, r)
        \/ ZkEnds(q)
        \/ \E d, next : ZkWrites(q, d, next)
        \/ ZkStart(q)
    BY <1>3 DEF ZkStep, ZkStops, OpenManifest, Compile, HashSources, ReadManifest, MatchCircuit, Setup,
       Contribute, Export, Embed, MarkDev, CheckBundle, CopyZkey, CopyVk, Digest, Pin,
       ReadPinned, Rehash, VerifyZkey, CompareKeys, Stamp, Prove, RecordProof, Guard, Admit,
       AskProtocol, ConfirmInvoke, Send
  <2>2. \/ zp'[p] = zp[p]
        \/ \E t : zp'[p] = [zp[p] EXCEPT !.late = TRUE, !.pinned = t]
    BY <1>4, <2>1 DEF ZkReads, ZkEnds, ZkWrites, ZkStart, Without, Disturbed
  <2>3. zp'[p].at = zp[p].at
    BY <1>1, <2>2
  <2> QED
    BY <2>3 DEF Is
<1>5. CASE q = p
  <2>1. ~ZkStops(p) /\ ~ZkStart(p)
    BY DEF ZkStops, ZkEnds, Without, ZkStart, Runs
  <2> QED
    BY <1>3, <1>5, <2>1 DEF ZkStep, OpenManifest, Compile, HashSources, ReadManifest, MatchCircuit, Setup,
       Contribute, Export, Embed, MarkDev, CheckBundle, CopyZkey, CopyVk, Digest, Pin,
       ReadPinned, Rehash, VerifyZkey, CompareKeys, Stamp, Prove, RecordProof, Guard,
       AskProtocol, ConfirmInvoke, Send, Is
<1> QED
  BY <1>4, <1>5

LEMMA AdmitsAccepts ==
  ASSUME NEW net, net # "test", NEW man, Trusted(man), Admits(net, man)
  PROVE  Accepted(net, man)
  BY DEF Admits, Intact, MatchesDigests, Accepted, Imported, Trusted

(* assertDevCeremonyAllowed: with nothing on mainnet but what was imported, what
   the user allowed, and what no manifest speaks of. *)
THEOREM MainnetIsAudited == ProjectSpec => AdmittedIsAudited
<1>1. ASSUME ZkInv, ProjectNext
      PROVE  /\ PassesGuard /\ IsMainnet /\ GuardsVerifier => Accepted(GuardNet, dir.manifest)
             /\ \A p \in DOMAIN zp :
                  /\ Is(p, "invoke", "compare") /\ p \in DOMAIN zp' /\ zp'[p].at = "protocol"
                  /\ zp[p].line.net # "test"
                  => Accepted(zp[p].line.net, zp[p].man)
  <2>1. ASSUME PassesGuard, IsMainnet, GuardsVerifier
        PROVE  Accepted(GuardNet, dir.manifest)
    <3>1. ~UNCHANGED vars
      BY <2>1 DEF PassesGuard, At, vars
    <3>4. GuardNet # "test"
      BY DEF GuardNet
    <3>2. Admits(GuardNet, dir.manifest)
      BY <1>1, <2>1, <3>1 DEF ProjectNext, GraphStep, DeployAdmitted
    <3>3. Trusted(dir.manifest)
      BY <1>1 DEF ZkInv, DirOK
    <3> QED
      BY <3>2, <3>3, <3>4, AdmitsAccepts
  <2>2. ASSUME NEW p \in DOMAIN zp, Is(p, "invoke", "compare"), p \in DOMAIN zp',
               zp'[p].at = "protocol", zp[p].line.net # "test"
        PROVE  Accepted(zp[p].line.net, zp[p].man)
    <3>1. zp' # zp
      BY <2>2 DEF Is
    <3>2. ZkNext
      BY <1>1, <3>1 DEF ProjectNext, GraphStep, zkState, zkVars
    <3>3. Admit(p)
      BY <1>1, <2>2, <3>2, OnlyAdmitAdmits
    <3>4. Trusted(zp[p].man)
      BY <1>1 DEF ZkInv, ProcessOK
    <3> QED
      BY <2>2, <3>3, <3>4, AdmitsAccepts DEF Admit
  <2> QED
    BY <2>1, <2>2
<1>2. ZkInv /\ [ProjectNext]_projectVars =>
        [/\ PassesGuard /\ IsMainnet /\ GuardsVerifier => Accepted(GuardNet, dir.manifest)
         /\ \A p \in DOMAIN zp :
              /\ Is(p, "invoke", "compare") /\ p \in DOMAIN zp' /\ zp'[p].at = "protocol"
              /\ zp[p].line.net # "test"
              => Accepted(zp[p].line.net, zp[p].man)]_projectVars
  BY <1>1
<1> QED
  BY <1>2, ZkInvHolds, PTL DEF ProjectSpec, AdmittedIsAudited

(* What the two halves of the project leave each other are values of their types. *)
THEOREM ProjectTypeCorrect == ProjectSpec => []ProjectTypeOK
<1>1. ProjectSpec => []TypeOK
  BY ProjectIsGraph, GraphTypeCorrect, PTL
<1>2. ProjectSpec => []ToolsInv
  BY ProjectToolsInit, ProjectToolsNext, PTL DEF ProjectSpec
<1>3. TypeOK /\ ToolsInv /\ ZkInv => ProjectTypeOK
  <2> SUFFICES ASSUME TypeOK, ToolsInv, ZkInv PROVE ProjectTypeOK
    OBVIOUS
  <2>1. /\ {tools.circom, tools.snarkjs, tools.pot, tools.ptau} \subseteq Content
        /\ DOMAIN tp \subseteq User
    BY DEF ToolsInv, ToolsTyped, Cache
  <2>2. IsKey(dir.zkey) /\ IsKey(dir.vk) /\ IsKey(dir.vkrs) /\ dir.compiled \in Circuit \cup {0}
    BY DEF ZkInv, DirOK, Key, IsKey
  <2>3. dir.manifest.type \in {"none", "dev", "mpc"}
    BY DEF ZkInv, DirOK, Trusted, MpcManifests, NoManifest, DevManifest
  <2>4. own.circuit \in Circuit /\ own.input \in {1, 2} /\ DOMAIN zp \subseteq Proc
    BY DEF ZkInv
  <2> QED
    BY <2>1, <2>2, <2>3, <2>4 DEF ProjectTypeOK
<1> QED
  BY <1>1, <1>2, <1>3, ZkInvHolds, PTL

=============================================================================
