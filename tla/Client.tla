------------------------------- MODULE Client -------------------------------
(***************************************************************************)
(* The calls of a page to its contracts, client/src/client: invoke, from   *)
(* the network check over the binding's simulation, the signature and the  *)
(* submission to the outcome it reports, and read. They share the wallet   *)
(* with the session of WalletSession, whose calls run in between.          *)
(*                                                                         *)
(* The generated binding, the wallet and the RPC are external: each answer *)
(* a call awaits is an action, and so are a refusal and a timeout.         *)
(***************************************************************************)
EXTENDS WalletSession, FiniteSets, Naturals

CONSTANTS Invocation, \* calls to contracts, each made again and again
          Page        \* what a page is configured with

VARIABLES page, \* this page's configuration
          net,  \* the network the selected wallet is on: the app's or another
          inv   \* where each invocation is and what it has done

clientVars == <<vars, page, net, inv>>

(* page: does the client have a wallet, and does that report its network; is
   there a contract id; does the binding's transaction ask for a signature
   (asks), sign by itself (own), only send (send) or neither, or is it a
   template's placeholder; which readSourceAccount is configured. sessions is a
   bound: so many session calls are in flight at most, and with more than one
   the page makes no calls to contracts. *)
Configuration == [wallet : {"none", "silent", "reports"},
                  deployed : BOOLEAN,
                  binding : {"asks", "own", "send", "neither", "placeholder"},
                  readSource : {"none", "valid", "invalid"},
                  sessions : Nat]

ASSUME ClientAssumption == Page \subseteq Configuration

Prompted == {"restore", "signing"}
Pending == {"network", "account", "build", "restoring", "prepare", "submit",
            "sending", "polling"} \cup Prompted

(* at and result follow one call, an invoke, one with the restore option, a read
   or a buildXdr; source is the account its transaction is
   built for, signer the one that signed, shown the one the page showed when it
   began (forgotten when the wallet is used otherwise), unsure whether the
   wallet could not tell its network or has changed it since, prompt a request the
   wallet still shows after its timeout, tx the method's transaction. *)
Fresh(kind, shown, stage) ==
  [at |-> stage, kind |-> kind, source |-> None, signer |-> None, shown |-> shown,
   unsure |-> FALSE, prompt |-> FALSE, tx |-> "none", result |-> None]

NoInvocation == Fresh("invoke", None, "done")

Active == {i \in Invocation : inv[i].at \in Pending}

(* What is left of a call once its promise is settled. *)
Ended(x, result) ==
  [NoInvocation EXCEPT !.tx = x.tx, !.prompt = x.prompt, !.result = result]

Becomes(i, x) == inv' = [inv EXCEPT ![i] = x] /\ UNCHANGED <<vars, page, net>>
Goes(i, stage) == Becomes(i, [inv[i] EXCEPT !.at = stage])
Ends(i, result) == Becomes(i, Ended(inv[i], result))
TimesOut(i) ==
  Becomes(i, Ended([inv[i] EXCEPT !.prompt = inv[i].at \in Prompted], "WALLET_TIMEOUT"))

ClientInit == /\ Init
              /\ page \in Page
              /\ net \in IF page.wallet = "reports" THEN {"app", "other"} ELSE {"app"}
              /\ inv = [i \in Invocation |-> NoInvocation]

-----------------------------------------------------------------------------

(* The account a kit's page shows; nothing vouches for it while the session
   is busy, after a late answer, or when a wallet changes it by itself. *)
Shown == IF state.status = "connected" /\ InFlight = {} /\ rich /\ "late" \notin blamed
           THEN state.publicKey ELSE None

(* createTransaction: first the contract's id, then an account. *)
Located(x) == IF page.deployed THEN [x EXCEPT !.at = "account"]
                               ELSE Ended(x, "CONTRACT_ARTIFACT_NOT_FOUND")

(* resolveWalletPublicKey without a wallet *)
Walleted(x) == IF page.wallet = "none" /\ x.at = "account"
                 THEN Ended(x, "WALLET_NOT_CONNECTED") ELSE x

MayCall(i) == inv[i].at = "done" /\ page.sessions =< 1

(* Mutant: the wallet's network is checked for plain invokes only. *)
InvokeUnchecked(i, kind) ==
  /\ MayCall(i)
  /\ LET x == Fresh(kind, Shown, "network")
     IN  Becomes(i, IF page.wallet = "reports" /\ kind = "invoke"
                      THEN x ELSE Walleted(Located(x)))

(* invoke up to its first await; assertWalletNetwork returns at once when the
   adapter cannot report a network. *)
Invoke(i, kind) ==
  /\ MayCall(i)
  /\ LET x == Fresh(kind, Shown, "network")
     IN  Becomes(i, IF page.wallet = "reports" THEN x ELSE Walleted(Located(x)))

(* buildXdr: neither the network nor a signature *)
BuildXdr(i) ==
  /\ MayCall(i)
  /\ Becomes(i, Walleted(Located(Fresh("build", Shown, "account"))))

NetworkAnswered(i) ==
  /\ inv[i].at = "network"
  /\ IF net = "app" THEN Becomes(i, Located(inv[i]))
                    ELSE Ends(i, "WALLET_NETWORK_MISMATCH")

(* It throws, or has no answer: the invoke goes on unchecked. *)
NetworkUnknown(i) == /\ inv[i].at = "network"
                     /\ Becomes(i, Located([inv[i] EXCEPT !.unsure = TRUE]))

(* Without a wallet, or when it refuses: the configured account, else none. *)
Fallback(x) == IF page.readSource = "invalid"
                 THEN Ended(x, "INVALID_CONFIG")
                 ELSE [x EXCEPT !.at = "build",
                                !.source = IF page.readSource = "valid"
                                             THEN "config" ELSE None]

(* resolveReadPublicKey: the call's sourceAccount before the wallet *)
Sourced(x, option) ==
  IF x.at # "account" THEN x
  ELSE IF option = "invalid" THEN Ended(x, "INVALID_CONFIG")
  ELSE IF option = "valid" THEN [x EXCEPT !.at = "build", !.source = "option"]
  ELSE IF page.wallet = "none" THEN Fallback(x)
  ELSE x

Read(i, option) == /\ MayCall(i)
                   /\ Becomes(i, Sourced(Located(Fresh("read", Shown, "account")),
                                         option))

(* getPublicKey: a read does without the wallet's account, an invoke ends. *)
AccountAnswered(i) == /\ inv[i].at = "account"
                      /\ Becomes(i, [inv[i] EXCEPT !.at = "build", !.source = selected])

AccountRefused(i) == /\ inv[i].at = "account"
                     /\ \/ /\ inv[i].kind = "read"
                           /\ Becomes(i, Fallback(inv[i]))
                        \/ /\ inv[i].kind # "read"
                           /\ Ends(i, "WALLET_NOT_CONNECTED")

(* No timeout is masked, not even by a read. *)
RequestTimesOut(i) == /\ inv[i].at \in {"network", "account"}
                      /\ TimesOut(i)

(* classifySimulationError: the state is archived, the account does not exist or
   a resource limit was met, which the model does not tell apart. *)
Classified == "SIMULATION"

(* toSimulationError: what it does not know has not been prepared. *)
Unprepared == {Classified, "XDR_PREPARE_FAILED"}

(* createClient: a template's placeholder says so before anything is asked. *)
CreateClientFails(i) == /\ inv[i].at = "build"
                        /\ page.binding = "placeholder"
                        /\ Ends(i, "PLACEHOLDER_BINDING")

(* Its transaction is there; nothing is left to restore. *)
Prepared(i) ==
  Becomes(i, [inv[i] EXCEPT !.at = "prepare",
                            !.kind = IF @ = "restore" THEN "invoke" ELSE @])

(* The binding's method, which simulates on the RPC. It asks for the signature
   of a RestoreFootprint when the state is archived and restore is set. *)
CallMethod(i) ==
  /\ inv[i].at = "build"
  /\ page.binding # "placeholder"
  /\ \/ Prepared(i)
     \/ /\ inv[i].kind = "restore"
        /\ Goes(i, "restore")
     \/ \E error \in {Classified, "BINDING_METHOD_NOT_FOUND", "binding"} : Ends(i, error)

RestoreSigned(i) == inv[i].at = "restore" /\ Goes(i, "restoring")

RestoreSubmitted(i) == /\ inv[i].at = "restoring"
                       /\ \/ Prepared(i)
                          \/ \E error \in {Classified, "binding"} : Ends(i, error)

(* Rejected, dismissed, or answered with an empty envelope *)
SignRefused(i) == /\ inv[i].at \in Prompted
                  /\ Ends(i, "XDR_SIGN_FAILED")

(* Mutant: only the method's own signature has a timeout. *)
RestorePromptHangs(i) == FALSE /\ Goes(i, "done")

RestorePromptTimesOut(i) == inv[i].at = "restore" /\ TimesOut(i)

SignTimesOut(i) == inv[i].at = "signing" /\ TimesOut(i)

(* buildXdr and the binding's prepare *)
Prepare(i) == /\ inv[i].at = "prepare"
              /\ inv[i].kind # "read"
              /\ \/ inv[i].kind = "invoke" /\ Goes(i, "submit")
                 \/ inv[i].kind = "build" /\ Ends(i, "built")
                 \/ \E error \in Unprepared \cup {"XDR_BUILD_FAILED"} : Ends(i, error)

(* prepareReadTransaction *)
PrepareRead(i) == /\ inv[i].at = "prepare"
                  /\ inv[i].kind = "read"
                  /\ \E result \in Unprepared \cup {"READ_RESULT_MISSING",
                                                    "XDR_RESULT_FAILED", "simulated"} :
                       Ends(i, result)

(* submitTransaction: signAndSend reads the simulation, needs other signers,
   finds a read, or asks for the signature; a binding that signs by itself, or
   only sends, goes on. *)
Submit(i) ==
  /\ inv[i].at = "submit"
  /\ \/ /\ page.binding = "asks"
        /\ \/ Goes(i, "signing")
           \/ \E error \in {Classified, "MULTI_AUTH_REQUIRED", "XDR_SUBMIT_FAILED"} :
                Ends(i, error)
     \/ /\ page.binding \in {"own", "send"}
        /\ Goes(i, "sending")
     \/ /\ page.binding = "neither"
        /\ Ends(i, "XDR_SUBMIT_FAILED")

Signed(i) == /\ inv[i].at = "signing"
             /\ Becomes(i, [inv[i] EXCEPT !.at = "sending", !.signer = selected])

(* Mutant: the answer of a prompt that has timed out still goes to the binding. *)
LateSignatureSends(i) == /\ inv[i].prompt
                         /\ Becomes(i, [inv[i] EXCEPT !.prompt = FALSE, !.tx = "live"])

(* The user signs behind the timeout; withWalletTimeout drops the answer. *)
LateSignature(i) == /\ inv[i].prompt
                    /\ Becomes(i, [inv[i] EXCEPT !.prompt = FALSE])

-----------------------------------------------------------------------------
(* The network, and what the binding tells of it: the answer of                *)
(* sendTransaction, that of the last getTransaction, a custom payload's status. *)

Payload(sent, got, own) == [send |-> sent, get |-> got, own |-> own]

(* Mutant: what is not known to have failed is reported as confirmed. *)
LifecycleHopeful(status) == CASE status \in {"FAILED", "ERROR"}       -> "failed"
                              [] status = "TRY_AGAIN_LATER"           -> "pending"
                              [] OTHER                                -> "confirmed"

(* toLifecycleStatus *)
Lifecycle(status) == CASE status = "SUCCESS"                -> "confirmed"
                       [] status \in {"FAILED", "ERROR"}    -> "failed"
                       [] OTHER                             -> "pending"

(* normalizeSubmitResult: the first status there is *)
Normalized(p) == Lifecycle(IF p.get # None THEN p.get
                           ELSE IF p.send # None THEN p.send
                           ELSE p.own)

(* A signAndSend that has never asked for a signature counts as not signed,
   whatever it has submitted. *)
Report(p) == IF page.binding = "own" THEN "XDR_SIGN_FAILED" ELSE Normalized(p)

(* sendTransaction. The network refuses a signature that is not the source's. *)
Accepted(i) == /\ inv[i].at = "sending"
               /\ inv[i].signer \in {None, inv[i].source}
               /\ \E x \in {[inv[i] EXCEPT !.tx = "live", !.at = "polling"],
                            Ended([inv[i] EXCEPT !.tx = "live"], "XDR_SUBMIT_FAILED")} :
                    Becomes(i, x)

Refused(i) == /\ inv[i].at = "sending"
              /\ \E result \in {"XDR_SUBMIT_FAILED", Classified,
                                Report(Payload("ERROR", None, None)),
                                Report(Payload("TRY_AGAIN_LATER", None, None))} :
                   Ends(i, result)

(* A ledger closes: the transaction succeeds, fails, or its time is up. *)
Lands(i) == /\ inv[i].tx = "live"
            /\ \E fate \in {"success", "reverted", "expired"} :
                 Becomes(i, [inv[i] EXCEPT !.tx = fate])

(* What getTransaction says of it *)
Known(x) == CASE x.tx = "success"  -> "SUCCESS"
              [] x.tx = "reverted" -> "FAILED"
              [] OTHER             -> "NOT_FOUND"

(* The binding's polling is over: it resolves, or gives up and throws; a
   payload without hash and result is not recognized. *)
Poll(i) == /\ inv[i].at = "polling"
           /\ LET known == Known(inv[i])
              IN  \E result \in {Report(Payload("PENDING", known, None)),
                                 Report(Payload("PENDING", None, None)),
                                 Report(Payload(None, None, known)),
                                 Report(Payload(None, None, None)),
                                 "XDR_RESULT_FAILED", "XDR_SUBMIT_FAILED"} :
                       Ends(i, result)

-----------------------------------------------------------------------------

(* The wallet changes its network, or another one that is selected is on another. *)
Moves == /\ page.wallet = "reports"
         /\ net' \in {"app", "other"} \ {net}
         /\ inv' = [i \in Invocation |->
                      IF i \in Active THEN [inv[i] EXCEPT !.unsure = TRUE] ELSE inv[i]]
         /\ UNCHANGED <<vars, page>>

(* A step of the session or its wallet *)
SessionSteps ==
  /\ Steps
  /\ Cardinality({c \in Call : at'[c] # "idle"}) =< page.sessions
  /\ inv' = [i \in Invocation |->
               IF selected' = selected /\ \A c \in Call : at'[c] = "idle"
                 THEN inv[i] ELSE [inv[i] EXCEPT !.shown = None]]
  /\ UNCHANGED <<page, net>>

(* The page's calls are gone, whatever they have submitted. *)
Reloads == /\ Reload
           /\ inv' = [i \in Invocation |-> NoInvocation]
           /\ UNCHANGED <<page, net>>

ClientNext ==
  \/ SessionSteps \/ Reloads \/ Moves
  \/ \E i \in Invocation :
       \/ \E kind \in {"invoke", "restore"} : Invoke(i, kind)
       \/ \E option \in {"none", "valid", "invalid"} : Read(i, option)
       \/ BuildXdr(i)
       \/ NetworkAnswered(i) \/ NetworkUnknown(i) \/ AccountAnswered(i) \/ AccountRefused(i)
       \/ RequestTimesOut(i) \/ CreateClientFails(i) \/ CallMethod(i)
       \/ RestoreSigned(i) \/ RestoreSubmitted(i) \/ RestorePromptTimesOut(i)
       \/ Prepare(i) \/ PrepareRead(i) \/ Submit(i)
       \/ Signed(i) \/ SignRefused(i) \/ SignTimesOut(i) \/ LateSignature(i)
       \/ Accepted(i) \/ Refused(i) \/ Lands(i) \/ Poll(i)

ClientSpec == ClientInit /\ [][ClientNext]_clientVars

(* With a timeout configured the browser runs its timers, for the session and
   for each request to the wallet; the binding's requests to the RPC are
   answered, or fail, and its polling ends. Nothing is asked of the wallet. *)
FairClientSpec ==
  /\ ClientSpec
  /\ \A c \in Call : /\ WF_clientVars(ConnectTimesOut(c) /\ SessionSteps)
                      /\ WF_clientVars(RestoreTimesOut(c) /\ SessionSteps)
  /\ \A i \in Invocation :
       /\ WF_clientVars(RequestTimesOut(i))
       /\ WF_clientVars(RestorePromptTimesOut(i))
       /\ WF_clientVars(SignTimesOut(i))
       /\ WF_clientVars(CreateClientFails(i) \/ CallMethod(i) \/ RestoreSubmitted(i))
       /\ WF_clientVars(Prepare(i) \/ PrepareRead(i) \/ Submit(i))
       /\ WF_clientVars(Accepted(i) \/ Refused(i) \/ Poll(i))

-----------------------------------------------------------------------------

(* Before the method's transaction was submitted nothing can have taken effect,
   and after a failure nothing ever will. *)
WithoutEffect == {"CONTRACT_ARTIFACT_NOT_FOUND", "WALLET_NOT_CONNECTED",
  "WALLET_NETWORK_MISMATCH", "WALLET_TIMEOUT", "INVALID_CONFIG", "PLACEHOLDER_BINDING",
  "BINDING_METHOD_NOT_FOUND", "binding", "XDR_BUILD_FAILED", "XDR_PREPARE_FAILED",
  "XDR_SIGN_FAILED", "MULTI_AUTH_REQUIRED", "READ_RESULT_MISSING", "simulated",
  "built", "failed", Classified}

Reported == WithoutEffect \cup {"confirmed", "pending", "XDR_SUBMIT_FAILED", "XDR_RESULT_FAILED"}

ASSUME ReportAssumption ==
  None \notin Reported \cup {"SUCCESS", "FAILED", "ERROR", "TRY_AGAIN_LATER", "PENDING",
                           "NOT_FOUND"}

(* What an invocation reports is true, and stays true whatever the network and
   a late signature do afterwards: "confirmed" is a transaction that succeeded,
   and after "failed", or an error of the wallet, the simulation or the timeout,
   the transaction has no effect and never will: invoking again does not repeat
   it. A binding that signs by itself is excepted: it is reported as not signed
   after it was submitted. *)
OutcomeIsTrue ==
  \A i \in Invocation :
    /\ inv[i].result = "confirmed" => inv[i].tx = "success"
    /\ inv[i].result \in WithoutEffect /\ page.binding # "own"
         => inv[i].tx \notin {"live", "success"}

(* No signature is asked for, not even that of a RestoreFootprint, while the
   wallet is on another network than the app's, if it has told its network when
   it was asked and has not changed it during the call. A wallet that cannot tell
   is not checked. *)
AskedOnAppNetwork ==
  \A i \in Invocation :
    inv[i].at \in Prompted /\ page.wallet = "reports" /\ ~inv[i].unsure => net = "app"

(* A call that began while the page showed an account, and met no other use of
   the wallet, is built for that account and signed by it. *)
SignedByShown ==
  \A i \in Invocation :
    inv[i].shown # None => /\ inv[i].source \in {None, "option", "config", inv[i].shown}
                           /\ inv[i].signer \in {None, inv[i].shown}

(* Every call ends, although the wallet may never answer, neither the request
   for its network, nor that for an account, nor a prompt. *)
InvocationsEnd ==
  \A i \in Invocation : inv[i].at \in Pending ~> inv[i].at = "done"
=============================================================================
