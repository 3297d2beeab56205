------------------------------ MODULE ZkProject ------------------------------
(***************************************************************************)
(* A project with a zero-knowledge verifier among its contracts: the graph *)
(* commands of DeployGraph, the `ctg zk` commands and the installation of  *)
(* their tools, side by side. A deploy on mainnet that names the verifier, *)
(* or no contract, has to pass the guard of the ceremony.                  *)
(***************************************************************************)
EXTENDS DeployGraph, ZkCeremony, ZkTools

CONSTANTS Verifier,  \* the contract of the circuit
          ZkScenes,  \* bounds: what ZkCeremony begins with, by configuration
          Installs   \* bound: the commands that need tools, by configuration

ASSUME ProjectAssumption ==
  /\ Verifier \in Name
  /\ DOMAIN ZkScenes = Config
  /\ \A c \in Config : \A s \in ZkScenes[c] :
       /\ s.dir \in {Empty, AfterBuild} \cup {AfterImport(b) : b \in Bundle}
       /\ s.commands \in Nat /\ s.edits \in Nat
       /\ \A line \in s.lines : ZkParses(line)
  /\ Installs \in [Config -> Nat]

zkState == <<zkVars, toolVars>>
projectVars == <<vars, zkState>>

ProjectInit == /\ Init
               /\ \E s \in ZkScenes[config] : ZkInit(s)
               /\ ToolsInit(Installs[config])

(* resolveContractNamesForDeploy: dependencies that are deployed with the one
   that is selected are not looked at. *)
GuardsVerifier == selected \in {Verifier, None}

(* Where a mainnet deploy is meant to go, as for the `ctg zk` commands. *)
GuardNet == IF cmd.allowDev THEN "allowed" ELSE "main"

DeployAdmitted == IsMainnet /\ GuardsVerifier => Admits(GuardNet, dir.manifest)

PassesGuard == At("guard") /\ run'.at = "order"

GraphStep(step) == step /\ (PassesGuard => DeployAdmitted) /\ UNCHANGED zkState

ProjectNext == \/ GraphStep(Next)
               \/ ZkNext /\ UNCHANGED <<vars, toolVars>>
               \/ ToolsNext /\ UNCHANGED <<vars, zkVars>>

ProjectSpec == /\ ProjectInit
               /\ [][ProjectNext]_projectVars
               /\ WF_projectVars(GraphStep(Step))

ProjectTypeOK ==
  /\ TypeOK
  /\ own.circuit \in Circuit /\ own.input \in {1, 2}
  /\ IsKey(dir.zkey) /\ IsKey(dir.vk) /\ IsKey(dir.vkrs)
  /\ dir.compiled \in Circuit \cup {0}
  /\ dir.manifest.type \in {"none", "dev", "mpc"}
  /\ DOMAIN zp \subseteq Proc /\ DOMAIN tp \subseteq User
  /\ {tools.circom, tools.snarkjs, tools.pot, tools.ptau} \subseteq Content

(* The keys with which a mainnet deploy of the verifier or a mainnet invocation
   passes the guard without --allow-dev-ceremony were imported, wherever a
   manifest says how they were made, unless files changed under the import. With
   the option, imported keys still are the imported ones. *)
Imported == dir.zkey.by = "mpc" /\ dir.vk.by = "mpc"

Accepted(net, man) == \/ Imported
                      \/ man.type = "none"
                      \/ man.type = "mpc" /\ man.raced
                      \/ man.type = "dev" /\ net = "allowed"

AdmittedIsAudited ==
  [][/\ PassesGuard /\ IsMainnet /\ GuardsVerifier => Accepted(GuardNet, dir.manifest)
     /\ \A p \in DOMAIN zp :
          /\ Is(p, "invoke", "compare") /\ p \in DOMAIN zp' /\ zp'[p].at = "protocol"
          /\ zp[p].line.net # "test"
          => Accepted(zp[p].line.net, zp[p].man)]_projectVars
=============================================================================
