--------------------------- MODULE MCDeployGraph ---------------------------
(* Small instances of ZkProject for TLC: every graph of two contracts is
   loaded, the sound ones are deployed once, a project in which b is constructed
   with a is worked on with every command; one is deployed on mainnet while its
   ceremony changes, and the `ctg zk` commands run alone. *)
EXTENDS ZkProject

CONSTANTS a, b

Lists == {s \in UNION {[1..k -> AnyName] : k \in 0..2} : Len(s) = 2 => s[1] # s[2]}

Call(on, of, kind, e) ==
  [on |-> on, refs |-> of, literal |-> TRUE, kind |-> kind, expect |-> e]

Layout(moved, built, leftover) ==
  [legacy |-> moved, cargoDir |-> moved, built |-> built, left |-> leftover]

Project(g, r, calls, reads, net) ==
  [dependsOn |-> g, whole |-> r, inline |-> [n \in Name |-> {}],
   postDeploy |-> calls, postDeployRead |-> reads, mainnet |-> net[1], requireConfirmation |-> net[2], layout |-> Layout(FALSE, "configured", {})]

Test == <<FALSE, "unset">>
Main == <<TRUE, "no">>

Chain == [n \in Name |-> IF n = b THEN <<a>> ELSE <<>>]

Graphs == {Project(g, [n \in Name |-> r \cap {g[n][i] : i \in 1..Len(g[n])}],
                   <<>>, <<>>, Test) : g \in [Name -> Lists], r \in {Name}}

BadArgs == {Project(Chain, [n \in Name |-> IF n = b THEN r ELSE {}], <<>>, <<>>, Test) :
              r \in SUBSET AnyName}

(* b's URL is built from an id, which need not be of a dependency. *)
InText == {[Project([n \in Name |-> IF n = b THEN on ELSE <<>>], [n \in Name |-> {}],
                    <<>>, <<>>, Test) EXCEPT !.inline[b] = named] :
             on \in {<<>>, <<a>>}, named \in {{a}, {b}, {Unknown}}}

Worked == {Project(Chain, [n \in Name |-> IF n = b THEN {a} ELSE {}],
                   <<Call(a, {b}, "invoke", "none"), Call(b, {}, "invoke", "isNull")>>,
                   <<Call(a, {}, "invoke", "none")>>, net) :
             net \in {Test, <<FALSE, "yes">>, Main}}

(* Redeployed, with others at work. *)
Shared == Project(Chain, [n \in Name |-> IF n = b THEN {a} ELSE {}],
                  <<Call(a, {b}, "invoke", "none")>>, <<>>, Test)

(* A verifier b on mainnet, the ceremony's commands alone, the tools alone. *)
Mainnet == Project(Chain, [n \in Name |-> {}], <<>>, <<>>, <<TRUE, "unset">>)
Alone == [Mainnet EXCEPT !.requireConfirmation = "yes"]
Tools == [Mainnet EXCEPT !.requireConfirmation = "no"]

(* The compiler's output is not where the configuration says, or nowhere. *)
Moved == {[Project(Chain, [n \in Name |-> IF n = b THEN {a} ELSE {}], <<>>,
                   <<Call(a, {}, "invoke", "none")>>, Test) EXCEPT !.layout = l] :
            l \in {Layout(TRUE, "migrated", {}), Layout(TRUE, "cargo current", {"source legacy"}),
                   Layout(TRUE, "migrated", {"configured"}), Layout(FALSE, "cargo current", {})}}

MCConfig == Graphs \cup BadArgs \cup InText \cup Worked \cup Moved \cup {Shared, Mainnet, Alone, Tools}
MCMaxCommands == [c \in MCConfig |->
                    IF c \in {Alone, Tools} THEN 0
                    ELSE IF c = Shared \/ c \in Moved \/ c.requireConfirmation = "yes" THEN 2 ELSE 1]
MCMaxFaults == [c \in MCConfig |->
                  IF c \in Moved \cup {Mainnet, Tools} THEN 0
                  ELSE IF c = Shared \/ c.requireConfirmation # "yes" THEN 1 ELSE 0]
MCInstalls == [c \in MCConfig |-> IF c = Tools THEN 2 ELSE 0]

(* A ceremony for the first circuit, and one whose keys are not of each other. *)
Mpc(no) == [by |-> "mpc", of |-> 1, no |-> no]
Good == [zkey |-> Mpc(1), vk |-> Mpc(1), ptau |-> TRUE]
Crossed == [zkey |-> Mpc(2), vk |-> Mpc(3), ptau |-> FALSE]
MCBundle == {Good, Crossed}
MCSignals == <<1, 1>>

Cli(kind, net, embed, from) ==
  [kind |-> kind, net |-> net, embed |-> embed, from |-> from]
BuildLine == Cli("build", "test", FALSE, NoBundle)
ImportLine(bundle) == Cli("import", "test", FALSE, bundle)
VerifyLine == Cli("verify", "test", FALSE, NoBundle)
ProveLine == Cli("prove", "test", FALSE, NoBundle)
InvokeLine(net) == Cli("invoke", net, FALSE, NoBundle)

Scene(d, lines, commands, edits) ==
  [dir |-> d, lines |-> lines, commands |-> commands, edits |-> edits]

NoScene == Scene(Empty, {}, 0, 0)
AloneScenes ==
  {Scene(AfterBuild, {BuildLine, ImportLine(Good), VerifyLine}, 2, 0),
   Scene(AfterImport(Good), {BuildLine, VerifyLine}, 2, 0),
   Scene(AfterImport(Crossed), {ImportLine(Good), VerifyLine}, 2, 0),
   Scene(AfterImport(Good), {Cli("build", "main", FALSE, NoBundle), VerifyLine,
                             InvokeLine("main"), InvokeLine("allowed")}, 1, 1),
   Scene(AfterBuild, {BuildLine, ProveLine}, 2, 1),
   Scene(AfterBuild, {ImportLine(Good), ProveLine}, 2, 0),
   Scene(AfterBuild, {InvokeLine("main"), InvokeLine("allowed"), ImportLine(Good)}, 2, 0),
   Scene(Empty, {Cli("build", "allowed", TRUE, NoBundle), ProveLine,
                 Cli("invoke", "test", TRUE, NoBundle)}, 2, 0)}

MCZkScenes == [c \in MCConfig |->
  IF c = Alone THEN AloneScenes
  ELSE IF c = Mainnet THEN {Scene(Empty, {BuildLine}, 1, 0),
                            Scene(AfterBuild, {ImportLine(Good)}, 1, 0),
                            Scene(AfterImport(Good), {}, 0, 1)}
  ELSE {NoScene}]

(* The placeholder as the documentation writes it. *)
MCHookConfig == {[c EXCEPT !.postDeploy = <<[@[1] EXCEPT !.literal = FALSE]>>] :
                   c \in Worked}
MCHookBound == [c \in MCHookConfig |-> 1]
MCHookFaults == [c \in MCHookConfig |-> 0]
MCHookScenes == [c \in MCHookConfig |-> {NoScene}]
MCHookInstalls == MCHookFaults

Line(kind, force, ifChanged, verify, target) ==
  [kind |-> kind, force |-> force, ifChanged |-> ifChanged, verify |-> verify,
   allowDev |-> FALSE, target |-> target]

MCLines == {Line("deploy", FALSE, FALSE, TRUE, None),
            Line("deploy", TRUE, FALSE, FALSE, None),
            Line("wire", FALSE, FALSE, FALSE, None),
            Line("upgrade", FALSE, FALSE, FALSE, a),
            Line("invoke", FALSE, FALSE, FALSE, b),
            Line("smoke", FALSE, FALSE, FALSE, None),
            Line("regression", FALSE, TRUE, FALSE, None)}
MCCommands == [c \in MCConfig |->
                 IF c = Shared THEN {l \in MCLines : l.kind = "deploy"}
                 ELSE IF c \in Moved THEN {l \in MCLines : l.kind \in {"upgrade", "regression"}}
                 ELSE IF c = Mainnet THEN MCLines \cup {[l EXCEPT !.allowDev = TRUE] :
                                           l \in {k \in MCLines : k.kind = "deploy"}}
                 ELSE MCLines]
MCHookCommands == [c \in MCHookConfig |-> MCLines]
=============================================================================
