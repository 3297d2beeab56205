----------------------------- MODULE ZkCeremony -----------------------------
(***************************************************************************)
(* The artifacts directory of one circuit and the `ctg zk` commands that   *)
(* work in it, side by side and without a lock: build runs a development   *)
(* setup unless audited keys were imported, import-ceremony puts a         *)
(* multi-party ceremony in place and pins it, verify-ceremony checks it,   *)
(* prove makes a proof and invoke sends it to the verifier on chain. What  *)
(* the manifest says decides what may go to mainnet.                       *)
(*                                                                         *)
(* A key is who made it, for which version of the circuit, and a number    *)
(* that tells it from the others; a digest of a file is its content.       *)
(***************************************************************************)
EXTENDS Naturals

CONSTANTS Proc,    \* bound: the commands that can run at a time, numbered
          Bundle,  \* the ceremony directories there are: [zkey, vk, ptau]
          Signals  \* the public signals of each version of the circuit

VARIABLES own,  \* what the user edits: [circuit, input]
          dir,  \* the artifacts directory, and the contract's vk.rs
          zp,   \* the commands in progress
          left  \* what the bounds have left: [lines, commands, edits]

zkVars == <<own, dir, zp, left>>

Circuit == DOMAIN Signals
Maker == {"dev", "mpc", "swapped"}
NoKey == [by |-> "none"]
IsKey(k) == k = NoKey \/ k \in [by : Maker, of : Circuit, no : Nat]

ASSUME ZkAssumption ==
  /\ Proc \subseteq Nat
  /\ Circuit \subseteq Nat \ {0} /\ 1 \in Circuit
  /\ \A c \in Circuit : Signals[c] \in Nat
  /\ \A b \in Bundle : b.ptau \in BOOLEAN
       /\ \A k \in {b.zkey, b.vk} : IsKey(k) /\ k.by = "mpc"

(* The manifest: for an imported ceremony the hash of the sources and the
   digests of both keys. raced and shaken are history: somebody wrote while it was
   imported, or verified; so is against, the compiled circuit it was verified with. *)
NoManifest == [type |-> "none"]
DevManifest == [type |-> "dev"]
MpcManifest(hash, zkey, vk, ptau, raced) ==
  [type |-> "mpc", hash |-> hash, zkey |-> zkey, vk |-> vk, ptau |-> ptau,
   verified |-> FALSE, raced |-> raced, shaken |-> FALSE, against |-> 0]

NoBundle == [zkey |-> NoKey, vk |-> NoKey, ptau |-> FALSE]

(* proof.json: the key and input it was made with; sound is history: the files
   it was made from belonged together. prove.json: what was hashed for it. *)
NoProof == [no |-> 0]
NoRecord == [no |-> 0]

Placeholder == NoKey

(* A command line: net is where it is meant to go, "allowed" if that is mainnet
   and --allow-dev-ceremony is given. *)
NoLine == [kind |-> "none", embed |-> FALSE, net |-> "test", from |-> NoBundle]
ZkParses(line) == /\ line.kind \in {"build", "import", "verify", "prove", "invoke"}
                  /\ line.embed \/ line.net # "test" => line.kind \in {"build", "invoke"}
                  /\ line.kind = "import" <=> line.from \in Bundle

(* A command: no is its number, of the circuit of its setup or verification. late
   and pinned are history: the directory changed under it, or for a proof the
   sources did; an import or a verification wrote in it. *)
Process(line, no, at) == [line |-> line, no |-> no, at |-> at, hash |-> 0, of |-> 0,
                          tries |-> 0, man |-> NoManifest, late |-> FALSE, pinned |-> FALSE]

(* The directory before a build, after one, and after an import that followed. *)
Empty == [compiled |-> 0, zkey |-> NoKey, vk |-> NoKey, manifest |-> NoManifest,
          vkrs |-> Placeholder, proof |-> NoProof, record |-> NoRecord]
DevKey(no) == [by |-> "dev", of |-> 1, no |-> no]
AfterBuild == [Empty EXCEPT !.compiled = 1, !.zkey = DevKey(0), !.vk = DevKey(0),
                            !.manifest = DevManifest]
AfterImport(b) ==
  [Empty EXCEPT !.compiled = 1, !.zkey = b.zkey, !.vk = b.vk,
     !.manifest = MpcManifest(1, b.zkey, b.vk, b.ptau, FALSE)]

(* scene: a bound; the directory found, the command lines given, how many. *)
ZkInit(scene) ==
  /\ own = [circuit |-> 1, input |-> 1]
  /\ dir = scene.dir
  /\ zp = [p \in {} |-> 0]
  /\ left = [lines |-> scene.lines, commands |-> scene.commands, edits |-> scene.edits]

-----------------------------------------------------------------------------
(* Processes *)

Runs(p) == p \in DOMAIN zp

Is(p, kind, at) == Runs(p) /\ zp[p].line.kind = kind /\ zp[p].at = at

Without(p, f) == [q \in DOMAIN f \ {p} |-> f[q]]

(* A step of p that reads. *)
ZkReads(p, q) == /\ zp' = [zp EXCEPT ![p] = q]
               /\ UNCHANGED <<own, dir, left>>

Disturbed(pins) ==
  [q \in DOMAIN zp |-> [zp[q] EXCEPT !.late = TRUE, !.pinned = @ \/ pins]]

(* Its last step, if that reads. *)
ZkEnds(p) == /\ zp' = Without(p, zp)
             /\ UNCHANGED <<own, dir, left>>

(* A step of p that writes d; the others have been disturbed. *)
ZkWrites(p, d, next) ==
  LET others == Disturbed(zp[p].line.kind \in {"import", "verify"}) IN
  /\ dir' = d
  /\ zp' = IF next = "end" THEN Without(p, others)
           ELSE [others EXCEPT ![p] = [zp[p] EXCEPT !.at = next]]
  /\ UNCHANGED <<own, left>>

(* assertZkBuildNetworkAllowed: dev keys are not built for mainnet. *)
BuildAllowed(net) == net = "main" => dir.manifest.type = "mpc"

FirstZkStep == [build |-> "compile", import |-> "check", verify |-> "read",
                prove |-> "prove", invoke |-> "guard"]

ZkStart(p) ==
  /\ ~Runs(p)
  /\ \A q \in Proc : q < p => Runs(q)
  /\ left.commands > 0
  /\ left' = [left EXCEPT !.commands = @ - 1]
  /\ \E line \in left.lines :
       /\ line.kind = "build" => BuildAllowed(line.net)
       /\ line.kind = "invoke" /\ line.embed => dir.vkrs # Placeholder
       /\ zp' = [q \in DOMAIN zp \cup {p} |->
                   IF q = p THEN Process(line, left.commands, FirstZkStep[line.kind])
                   ELSE zp[q]]
  /\ UNCHANGED <<own, dir>>

(* A check or a tool fails, or the process is killed: it leaves what it has
   written. *)
ZkStops(p) == /\ Runs(p)
              /\ ZkEnds(p)

(* Meanwhile the user edits the circuit or the input, *)
Edit == /\ left.edits > 0
        /\ left' = [left EXCEPT !.edits = @ - 1]
        /\ \/ /\ own.circuit + 1 \in Circuit
              /\ own' = [own EXCEPT !.circuit = @ + 1]
           \/ own' = [own EXCEPT !.input = 3 - @]
        /\ zp' = [p \in DOMAIN zp |-> [zp[p] EXCEPT !.late = @ \/ zp[p].line.kind = "prove"]]
        /\ UNCHANGED dir

(* or somebody puts another key in the place of one. *)
Swap == /\ left.edits > 0
        /\ left' = [left EXCEPT !.edits = @ - 1]
        /\ LET k == [by |-> "swapped", of |-> own.circuit, no |-> 0] IN
             dir' \in {[dir EXCEPT !.zkey = k], [dir EXCEPT !.vk = k]}
        /\ zp' = Disturbed(FALSE)
        /\ UNCHANGED own

(* writeFile truncates the manifest first: until it is written, or for good if the
   command is killed, whoever reads it finds none. *)
OpenManifest(p) == /\ \/ Is(p, "build", "mark")
                      \/ Is(p, "import", "pin")
                      \/ Is(p, "verify", "stamp")
                   /\ ZkWrites(p, [dir EXCEPT !.manifest = NoManifest], "write")

-----------------------------------------------------------------------------
(* ctg zk build *)

Compile(p) == /\ Is(p, "build", "compile")
              /\ ZkWrites(p, [dir EXCEPT !.compiled = own.circuit], "hash")

HashSources(p) == /\ Is(p, "build", "hash")
                  /\ ZkReads(p, [zp[p] EXCEPT !.hash = own.circuit, !.at = "manifest"])

(* Mutant: a build always runs the setup. *)
NeverReuses(p) == FALSE

ReusesCeremony(p) == dir.manifest.type = "mpc"

ReadManifest(p) ==
  /\ Is(p, "build", "manifest")
  /\ ZkReads(p, [zp[p] EXCEPT !.at = IF ReusesCeremony(p) THEN "match" ELSE "setup",
                             !.pinned = FALSE])

(* assertCeremonyMatchesCircuit reads the manifest once more; a mismatch ends
   the build, which has compiled the new circuit by then. *)
MatchCircuit(p) ==
  /\ Is(p, "build", "match")
  /\ dir.manifest.type = "mpc" => dir.manifest.hash = zp[p].hash
  /\ IF zp[p].line.embed THEN ZkWrites(p, [dir EXCEPT !.vkrs = dir.vk], "end")
     ELSE ZkEnds(p)

(* groth16 setup, from the compiled circuit; zkey contribute; zkey export *)
Setup(p) == /\ Is(p, "build", "setup")
            /\ dir.compiled # 0
            /\ ZkReads(p, [zp[p] EXCEPT !.of = dir.compiled, !.at = "contribute"])

Contribute(p) ==
  /\ Is(p, "build", "contribute")
  /\ ZkWrites(p, [dir EXCEPT !.zkey = [by |-> "dev", of |-> zp[p].of, no |-> zp[p].no]],
            "export")

Export(p) == /\ Is(p, "build", "export")
             /\ ZkWrites(p, [dir EXCEPT !.vk = dir.zkey],
                       IF zp[p].line.embed THEN "embed" ELSE "mark")

Embed(p) == /\ Is(p, "build", "embed")
            /\ ZkWrites(p, [dir EXCEPT !.vkrs = dir.vk], "mark")

MarkDev(p) == /\ Is(p, "build", "write")
              /\ ZkWrites(p, [dir EXCEPT !.manifest = DevManifest], "end")

-----------------------------------------------------------------------------
(* ctg zk import-ceremony *)

(* The sources are hashed; the key is compared with the compiled circuit, which
   need not be of these sources, by the number of its public signals. *)
CheckBundle(p) ==
  /\ Is(p, "import", "check")
  /\ dir.compiled # 0
  /\ Signals[zp[p].line.from.vk.of] = Signals[dir.compiled]
  /\ ZkReads(p, [zp[p] EXCEPT !.hash = own.circuit, !.at = "zkey"])

CopyZkey(p) == /\ Is(p, "import", "zkey")
               /\ ZkWrites(p, [dir EXCEPT !.zkey = zp[p].line.from.zkey], "vk")

CopyVk(p) == /\ Is(p, "import", "vk")
             /\ ZkWrites(p, [dir EXCEPT !.vk = zp[p].line.from.vk], "digest")

(* The copies are hashed, *)
Digest(p) ==
  /\ Is(p, "import", "digest")
  /\ ZkReads(p, [zp[p] EXCEPT !.at = "pin",
                 !.man = MpcManifest(zp[p].hash, dir.zkey, dir.vk, zp[p].line.from.ptau,
                                     zp[p].late)])

(* and the manifest says so. *)
Pin(p) == /\ Is(p, "import", "write")
          /\ ZkWrites(p, [dir EXCEPT !.manifest = zp[p].man], "end")

-----------------------------------------------------------------------------
(* ctg zk verify-ceremony *)

(* findCeremonyMismatches, of what is critical *)
MatchesDigests(man) == dir.zkey = man.zkey /\ dir.vk = man.vk

ReadPinned(p) == /\ Is(p, "verify", "read")
                 /\ dir.manifest.type = "mpc"
                 /\ ZkReads(p, [zp[p] EXCEPT !.man = dir.manifest, !.at = "rehash"])

Rehash(p) == /\ Is(p, "verify", "rehash")
             /\ MatchesDigests(zp[p].man)
             /\ ZkReads(p, [zp[p] EXCEPT !.at = IF zp[p].man.ptau THEN "zkey" ELSE "compare"])

(* snarkjs zkey verify, with the compiled circuit *)
VerifyZkey(p) == /\ Is(p, "verify", "zkey")
                 /\ dir.zkey.of = dir.compiled
                 /\ ZkReads(p, [zp[p] EXCEPT !.of = dir.compiled, !.at = "compare"])

(* Mutant: what zkey verify has accepted needs no comparison. *)
AnyKey == TRUE

VkIsOfZkey == dir.vk = dir.zkey

CompareKeys(p) == /\ Is(p, "verify", "compare")
                  /\ VkIsOfZkey
                  /\ ZkReads(p, [zp[p] EXCEPT !.at = "stamp"])

(* The manifest it has read is written back, whatever it says by now. *)
Stamp(p) ==
  /\ Is(p, "verify", "write")
  /\ ZkWrites(p, [dir EXCEPT !.manifest = [zp[p].man EXCEPT !.verified = TRUE,
                                           !.shaken = zp[p].late,
                                           !.against = zp[p].of]], "end")

-----------------------------------------------------------------------------
(* ctg zk prove *)

(* snarkjs groth16 fullprove: with the input, the compiled circuit and the zkey *)
Prove(p) ==
  /\ Is(p, "prove", "prove")
  /\ dir.compiled # 0
  /\ dir.zkey # NoKey
  /\ ZkWrites(p, [dir EXCEPT !.proof =
                  [no |-> zp[p].no, key |-> dir.zkey, input |-> own.input,
                   sound |-> dir.vk = dir.zkey /\ dir.zkey.of = dir.compiled]],
            "record")

(* The input and the verification key are hashed afterwards. *)
RecordProof(p) ==
  /\ Is(p, "prove", "record")
  /\ dir.vk # NoKey
  /\ ZkWrites(p, [dir EXCEPT !.record = [no |-> zp[p].no, vk |-> dir.vk,
                                       input |-> own.input, raced |-> zp[p].late]], "end")

(* Mutant: a status without the verification key's hash, as it once was. *)
InputDecides == IF dir.record # NoRecord /\ dir.record.input # own.input
                  THEN "input-changed" ELSE "up-to-date"

(* collectZkStatus *)
ZkStatus ==
  IF dir.manifest.type = "none" THEN "not-built"
  ELSE IF dir.manifest.type = "mpc" /\ dir.manifest.hash # own.circuit THEN "circuit-changed"
  ELSE IF dir.record # NoRecord /\ dir.vk # NoKey /\ dir.record.vk # dir.vk THEN "vk-changed"
  ELSE IF dir.record # NoRecord /\ dir.record.input # own.input THEN "input-changed"
  ELSE "up-to-date"

-----------------------------------------------------------------------------
(* ctg zk invoke *)

(* assertCeremonyIntegrity: what was imported is there, as it was pinned. *)
Intact(man) == man.type = "mpc" /\ MatchesDigests(man)

(* Mutant: --allow-dev-ceremony lifts the whole guard. *)
AllowedIsAllowed(net, man) ==
  \/ net \in {"test", "allowed"}
  \/ Intact(man)
  \/ man.type = "none"

(* assertDevCeremonyAllowed: a dev ceremony only where it is allowed, an
   imported one only as it was imported; without a manifest, anything. *)
Admits(net, man) ==
  \/ net = "test"
  \/ Intact(man)
  \/ man.type = "dev" /\ net = "allowed"
  \/ man.type = "none"

Guard(p) == /\ Is(p, "invoke", "guard")
            /\ ZkReads(p, [zp[p] EXCEPT !.man = dir.manifest, !.at = "compare"])

Admit(p) == /\ Is(p, "invoke", "compare")
            /\ Admits(zp[p].line.net, zp[p].man)
            /\ ZkReads(p, [zp[p] EXCEPT !.at = "protocol"])

(* What getNetwork of the RPC comes to: a version below the verifier's minimum
   ends the invocation, no usable version is no more than a warning. *)
Answers == {"older", "supported", "unusable", "timeout"}
MaxAnswers == 2

(* Only what timed out is asked again. *)
AskProtocol(p) ==
  /\ Is(p, "invoke", "protocol")
  /\ \E answer \in Answers :
       IF answer = "timeout" /\ zp[p].tries + 1 < MaxAnswers
         THEN ZkReads(p, [zp[p] EXCEPT !.tries = @ + 1])
       ELSE IF answer = "older" THEN ZkEnds(p)
       ELSE ZkReads(p, [zp[p] EXCEPT !.at = "confirm"])

(* confirmMainnetOperation; a refusal ends the command like any failure. *)
ConfirmInvoke(p) == /\ Is(p, "invoke", "confirm")
                    /\ ZkReads(p, [zp[p] EXCEPT !.at = "send"])

(* The proof and, unless it is embedded, the key are read now. *)
Send(p) == /\ Is(p, "invoke", "send")
           /\ dir.proof # NoProof
           /\ ~zp[p].line.embed => dir.vk # NoKey
           /\ ZkEnds(p)

-----------------------------------------------------------------------------
ZkStep(p) ==
  \/ ZkStart(p) \/ ZkStops(p) \/ OpenManifest(p)
  \/ Compile(p) \/ HashSources(p) \/ ReadManifest(p) \/ MatchCircuit(p)
  \/ Setup(p) \/ Contribute(p) \/ Export(p) \/ Embed(p) \/ MarkDev(p)
  \/ CheckBundle(p) \/ CopyZkey(p) \/ CopyVk(p) \/ Digest(p) \/ Pin(p)
  \/ ReadPinned(p) \/ Rehash(p) \/ VerifyZkey(p) \/ CompareKeys(p) \/ Stamp(p)
  \/ Prove(p) \/ RecordProof(p)
  \/ Guard(p) \/ Admit(p) \/ AskProtocol(p) \/ ConfirmInvoke(p) \/ Send(p)

ZkNext == Edit \/ Swap \/ \E p \in Proc : ZkStep(p)

-----------------------------------------------------------------------------
(* Properties *)

(* A build leaves audited keys alone: no development key takes the place of one
   while the manifest names an imported ceremony, whatever other builds, proofs
   and people do meanwhile. What is excused is an import or a verification that
   wrote since the build had read the manifest: both truncate it first, and a
   build that finds none sets up its own. *)
ImportedStays ==
  [][\A p \in Proc :
       /\ dir.manifest.type = "mpc"
       /\ Is(p, "build", "contribute") \/ Is(p, "build", "export")
       /\ ~zp[p].pinned
       => dir'.zkey = dir.zkey /\ dir'.vk = dir.vk]_zkVars

(* A manifest that is stamped as verified pins a verification key that is the
   one of the zkey it pins, and if the ceremony came with powers of tau, a zkey
   of the circuit that was compiled here then; unless files changed while it was
   verified. How it was imported, and what has become of it since, is no excuse. *)
VerifiedKeysMatch ==
  dir.manifest.type = "mpc" /\ dir.manifest.verified /\ ~dir.manifest.shaken =>
    /\ dir.manifest.vk = dir.manifest.zkey
    /\ dir.manifest.ptau => dir.manifest.zkey.of = dir.manifest.against

(* A status of up-to-date means that the proof, if it was made from files that
   belonged together and recorded in peace, is one of the present input that
   the present verification key accepts. *)
UpToDateVerifies ==
  /\ ZkStatus = "up-to-date"
  /\ dir.vk # NoKey
  /\ dir.record # NoRecord
  /\ dir.record.no = dir.proof.no
  /\ ~dir.record.raced
  /\ dir.proof.sound
  => dir.proof.key = dir.vk /\ dir.proof.input = own.input
=============================================================================
