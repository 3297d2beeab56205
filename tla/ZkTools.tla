------------------------------- MODULE ZkTools -------------------------------
(***************************************************************************)
(* The tools that the `ctg zk` commands install on first use into a cache  *)
(* that all projects of a user share: circom is downloaded and compared    *)
(* with a pinned checksum, snarkjs comes from npm, the powers of tau are   *)
(* made by snarkjs. There is no lock; a command may be killed at any time. *)
(***************************************************************************)
EXTENDS Naturals

CONSTANT User  \* bound: the commands that can need the tools at a time

VARIABLES tools,    \* the cache: [circom, exec, snarkjs, pot, ptau]
          tp,       \* the commands: where each is; late is history
          installs  \* what the bound on commands has left

toolVars == <<tools, tp, installs>>

(* A file that is being written is partial, or mixed if two commands write it
   or its source is rewritten meanwhile. *)
Content == {"none", "partial", "mixed", "good", "bad"}

ToolsInit(most) ==
  /\ tools = [circom |-> "none", exec |-> FALSE, snarkjs |-> "none", pot |-> "none",
              ptau |-> "none", cut |-> FALSE, shared |-> FALSE]
  /\ tp = [u \in {} |-> 0]
  /\ installs = most

InTools(u, at) == u \in DOMAIN tp /\ tp[u].at = at

(* cut and shared are history: an installation of snarkjs or ptau was killed
   half-way; two commands were at one of them at the same time. *)
ToolStep(u, next, t) ==
  /\ tools' = t
  /\ tp' = [v \in IF next = "end" THEN DOMAIN tp \ {u} ELSE DOMAIN tp |->
              IF v = u THEN [tp[u] EXCEPT !.at = next]
              ELSE [tp[v] EXCEPT !.late = @ \/ t # tools]]
  /\ UNCHANGED installs

NeedTools(u) == /\ u \notin DOMAIN tp
                /\ installs > 0
                /\ installs' = installs - 1
                /\ tp' = [v \in DOMAIN tp \cup {u} |->
                            IF v = u THEN [at |-> "circom", late |-> FALSE] ELSE tp[v]]
                /\ UNCHANGED tools

(* Mutant: what is cached has been verified when it was downloaded. *)
CachedIsThere == tools.circom # "none"

CachedIsGood == tools.circom = "good"

(* ensureCircom: a cached binary with the pinned checksum is used, *)
CircomCached(u) == /\ InTools(u, "circom")
                   /\ CachedIsGood
                   /\ ToolStep(u, "compile", tools)

(* any other is deleted, and downloaded again. *)
CircomMissing(u) == /\ InTools(u, "circom")
                    /\ ~CachedIsGood
                    /\ ToolStep(u, "download", [tools EXCEPT !.circom = "none"])

(* A new file is not executable; one that is there stays as it is. *)
DownloadBegins(u) ==
  /\ InTools(u, "download")
  /\ ToolStep(u, "downloading",
              [tools EXCEPT !.circom = "partial", !.exec = @ /\ tools.circom # "none"])

(* Unless the file was deleted or finished by another process meanwhile. *)
DownloadEnds(u) ==
  /\ InTools(u, "downloading")
  /\ \E c \in IF tools.circom = "none" THEN {"none"} ELSE {"good", "bad"} :
       ToolStep(u, "checksum", [tools EXCEPT !.circom = c])

(* verifyFileChecksum: on a mismatch the file is deleted and the command fails. *)
ChecksumMatches(u) == /\ InTools(u, "checksum")
                      /\ tools.circom = "good"
                      /\ ToolStep(u, "chmod", tools)

ChecksumDiffers(u) == /\ InTools(u, "checksum")
                      /\ tools.circom # "good"
                      /\ ToolStep(u, "end", [tools EXCEPT !.circom = "none"])

Chmod(u) == /\ InTools(u, "chmod")
            /\ tools.circom # "none"
            /\ ToolStep(u, "compile", [tools EXCEPT !.exec = TRUE])

Compiled(u) == /\ InTools(u, "compile")
               /\ tools.circom = "good" /\ tools.exec
               /\ ToolStep(u, "snarkjs", tools)

NpmSteps == {"npm", "linking"}
PtauSteps == {"pot", "contribute", "phase2", "prepare"}

Beside(u, steps) == \E v \in DOMAIN tp \ {u} : tp[v].at \in steps

Begun(together) == IF together THEN "mixed" ELSE "partial"

Done(file) == IF file = "partial" THEN {"good"} ELSE {"good", "bad"}

(* ensureSnarkjs: a link in .bin is enough; npm makes it before it is done. *)
SnarkjsCached(u) == /\ InTools(u, "snarkjs")
                    /\ tools.snarkjs # "none"
                    /\ ToolStep(u, "ptau", tools)

SnarkjsMissing(u) == /\ InTools(u, "snarkjs")
                     /\ tools.snarkjs = "none"
                     /\ ToolStep(u, "npm", [tools EXCEPT !.shared = @ \/ Beside(u, NpmSteps)])

NpmLinks(u) ==
  /\ InTools(u, "npm")
  /\ tools.snarkjs \notin {"good", "bad"}
  /\ ToolStep(u, "linking", [tools EXCEPT !.snarkjs = Begun(Beside(u, {"linking"}))])

(* Another has installed it meanwhile. *)
NpmFinds(u) == /\ InTools(u, "npm")
               /\ tools.snarkjs \in {"good", "bad"}
               /\ ToolStep(u, "ptau", tools)

NpmEnds(u) == /\ InTools(u, "linking")
              /\ \E c \in Done(tools.snarkjs) :
                   ToolStep(u, "ptau", [tools EXCEPT !.snarkjs = c])

(* ensurePtau *)
PtauCached(u) == /\ InTools(u, "ptau")
                 /\ tools.ptau # "none"
                 /\ ToolStep(u, "setup", tools)

PtauMissing(u) == /\ InTools(u, "ptau")
                  /\ tools.ptau = "none"
                  /\ ToolStep(u, "pot", [tools EXCEPT !.shared = @ \/ Beside(u, PtauSteps)])

(* powersoftau new and contribute, into files all commands use, *)
PotBegins(u) ==
  /\ InTools(u, "pot")
  /\ ToolStep(u, "contribute",
              [tools EXCEPT !.pot = Begun(Beside(u, {"contribute"})),
                            !.ptau = IF Beside(u, {"prepare"}) THEN "mixed" ELSE @])

PotEnds(u) == /\ InTools(u, "contribute")
              /\ \E c \in Done(tools.pot) :
                   ToolStep(u, "phase2", [tools EXCEPT !.pot = c])

(* and prepare phase2, from them into the file itself, whoever has made it since. *)
PtauBegins(u) ==
  /\ InTools(u, "phase2")
  /\ ToolStep(u, "prepare",
              [tools EXCEPT !.ptau = Begun(tools.pot # "good" \/ Beside(u, {"prepare"}))])

PtauEnds(u) == /\ InTools(u, "prepare")
               /\ \E c \in Done(tools.ptau) :
                    ToolStep(u, "setup", [tools EXCEPT !.ptau = c])

ToolsUsed(u) == /\ InTools(u, "setup")
                /\ ToolStep(u, "end", tools)

(* Killed, or a tool or the network fails. *)
ToolsStop(u) == /\ u \in DOMAIN tp
                /\ ToolStep(u, "end", [tools EXCEPT !.cut = @ \/ tp[u].at \in {"linking", "prepare"}])

ToolsNext == \E u \in User :
  \/ NeedTools(u) \/ CircomCached(u) \/ CircomMissing(u) \/ DownloadBegins(u)
  \/ DownloadEnds(u) \/ ChecksumMatches(u) \/ ChecksumDiffers(u) \/ Chmod(u) \/ Compiled(u)
  \/ SnarkjsCached(u) \/ SnarkjsMissing(u) \/ NpmLinks(u) \/ NpmFinds(u) \/ NpmEnds(u)
  \/ PtauCached(u) \/ PtauMissing(u) \/ PotBegins(u) \/ PotEnds(u)
  \/ PtauBegins(u) \/ PtauEnds(u) \/ ToolsUsed(u) \/ ToolsStop(u)

(* A command whose tools no other has touched meanwhile runs the circom that was
   pinned, also after one that was killed half-way. What it has of snarkjs and of
   the powers of tau is complete, and made in one piece, unless somebody is
   writing them, was killed writing them, or two commands once found one of them
   missing and made it side by side. *)
Installing == \E u \in DOMAIN tp : tp[u].at \in {"linking", "prepare"}
ToolsAreWhole ==
  \A u \in DOMAIN tp :
    /\ InTools(u, "compile") /\ ~tp[u].late => tools.circom = "good"
    /\ InTools(u, "setup") /\ ~tools.cut /\ ~tools.shared /\ ~Installing
         => tools.snarkjs = "good" /\ tools.ptau = "good"
=============================================================================
