--------------------------- MODULE WalletSession ---------------------------
(***************************************************************************)
(* The wallet session of client/src/wallet/wallet-session.ts in one page:  *)
(* connect, disconnect and restore as promises that overlap, answers that  *)
(* never come or come after their timeout, a storage that outlives the     *)
(* page.                                                                   *)
(*                                                                         *)
(* JavaScript runs a call up to its await in one step and the rest in      *)
(* another. A wallet is named by its id; its address stands for itself,    *)
(* so publicKey is the wallet that answered.                               *)
(***************************************************************************)
CONSTANTS Call,          \* calls in flight at most
          Wallet,        \* wallets the adapter can select
          Default,       \* the one selected when the page loads
          None,          \* null
          StorageFaults  \* may setItem and removeItem throw?

(* What a page leaves in the storage; None where there is no wallet id. *)
Persisted == [wallet : Wallet \cup {None}]

ASSUME SessionAssumption == /\ Default \in Wallet
                            /\ None \notin Wallet \cup Persisted
                            /\ StorageFaults \in BOOLEAN

VARIABLES state,    \* WalletSessionState
          stored,   \* the persisted session: [wallet], None if there is none
          selected, \* the adapter's selected wallet
          at,       \* where each call is
          rich,     \* has the adapter a modal, setWallet and getWalletId?
          open,     \* is a modal open whose connect has timed out?
          used,     \* history: some call ended in this page
          blamed    \* history: what went wrong in this page

vars == <<state, stored, selected, at, rich, open, used, blamed>>

Status == {"disconnected", "connecting", "connected"}
Session == [status : Status, publicKey : Wallet \cup {None}, error : BOOLEAN]

TypeOK == /\ state \in Session
          /\ (state.status = "connected") = (state.publicKey # None)
          /\ state.error => state.status = "disconnected"
          /\ stored \in Persisted \cup {None}
          /\ selected \in Wallet
          /\ at \in [Call -> {"idle", "connect", "disconnect", "restore"}]
          /\ rich \in BOOLEAN
          /\ open \in BOOLEAN
          /\ used \in BOOLEAN
          /\ blamed \subseteq {"overlap", "late", "storage"}

Disconnected(failed) == [status |-> "disconnected", publicKey |-> None, error |-> failed]
Connecting == [status |-> "connecting", publicKey |-> None, error |-> FALSE]
Connected(w) == [status |-> "connected", publicKey |-> w, error |-> FALSE]

InFlight == {c \in Call : at[c] # "idle"}

Init == /\ state = Disconnected(FALSE)
        /\ stored = None
        /\ selected = Default
        /\ at = [c \in Call |-> "idle"]
        /\ rich \in BOOLEAN
        /\ open = FALSE
        /\ used = FALSE
        /\ blamed = {}

-----------------------------------------------------------------------------

Blame(cond, what) == blamed' = IF cond THEN blamed \cup {what} ELSE blamed

(* A call of the page up to its await. *)
Begin(c, kind) == /\ at[c] = "idle"
                  /\ at' = [at EXCEPT ![c] = kind]
                  /\ Blame(InFlight # {}, "overlap")

(* The rest of it. *)
End(c, kind) == /\ at[c] = kind
                /\ at' = [at EXCEPT ![c] = "idle"]
                /\ used' = TRUE

(* setItem and removeItem, whose exceptions are swallowed *)
Store(new) == \/ stored' = new /\ UNCHANGED blamed
              \/ /\ StorageFaults
                 /\ UNCHANGED stored
                 /\ Blame(TRUE, "storage")

(* connect: the modal of a rich adapter, else getPublicKey *)
Connect(c) == /\ Begin(c, "connect")
              /\ state' = Connecting
              /\ UNCHANGED <<stored, selected, open, used, rich>>

(* The user has chosen: persistConnection stores what getWalletId says. *)
ConnectAnswered(c) == /\ End(c, "connect")
                      /\ selected' \in IF rich THEN Wallet ELSE {selected}
                      /\ state' = Connected(selected')
                      /\ Store([wallet |-> IF rich THEN selected' ELSE None])
                      /\ UNCHANGED <<rich, open>>

(* Mutant: a user who says no keeps the account that was shown. *)
ConnectRejectedShows(c) ==
  /\ End(c, "connect")
  /\ selected' \in IF rich THEN Wallet ELSE {selected}
  /\ state' = IF stored = None \/ stored.wallet = None
                THEN Disconnected(TRUE) ELSE Connected(stored.wallet)
  /\ UNCHANGED <<stored, open, blamed, rich>>

(* The user, or the wallet that was chosen, says no. *)
ConnectRejected(c) == /\ End(c, "connect")
                      /\ selected' \in IF rich THEN Wallet ELSE {selected}
                      /\ state' = Disconnected(TRUE)
                      /\ UNCHANGED <<stored, open, blamed, rich>>

ConnectTimesOut(c) == /\ End(c, "connect")
                      /\ state' = Disconnected(TRUE)
                      /\ open' = (open \/ rich)
                      /\ UNCHANGED <<stored, selected, blamed, rich>>

(* disconnect awaits the adapter, which has no timeout... *)
Disconnect(c) == /\ Begin(c, "disconnect")
                 /\ UNCHANGED <<state, stored, selected, open, used, rich>>

(* ...and clears everything, also when the adapter rejects. *)
DisconnectEnds(c) == /\ End(c, "disconnect")
                     /\ Store(None)
                     /\ state' = Disconnected(FALSE)
                     /\ UNCHANGED <<selected, open, rich>>

(* restore has nothing to do, nothing to go by, or getItem throws. *)
RestoreReturns == /\ \/ /\ state.status = "connected" \/ stored = None
                        /\ UNCHANGED blamed
                     \/ /\ StorageFaults
                        /\ Blame(TRUE, "storage")
                  /\ used' = TRUE
                  /\ UNCHANGED <<state, stored, selected, at, open, rich>>

(* Mutant: the persisted wallet is not selected. *)
RestoreUnselected(c) == /\ state.status # "connected"
                        /\ stored # None
                        /\ Begin(c, "restore")
                        /\ state' = Connecting
                        /\ UNCHANGED <<stored, selected, open, used, rich>>

Restore(c) == /\ state.status # "connected"
              /\ stored # None
              /\ Begin(c, "restore")
              /\ state' = Connecting
              /\ selected' = IF rich /\ stored.wallet # None
                               THEN stored.wallet ELSE selected
              /\ UNCHANGED <<stored, open, used, rich>>

(* getPublicKey asks the selected wallet. *)
RestoreAnswered(c) == /\ End(c, "restore")
                      /\ state' = Connected(selected)
                      /\ UNCHANGED <<stored, selected, open, blamed, rich>>

(* Mutant: a failed restore, being silent, leaves the state alone. *)
RestoreRejectedSilently(c) == /\ End(c, "restore")
                              /\ Store(None)
                              /\ UNCHANGED <<state, selected, open, rich>>

(* The wallet is locked or gone, or setWallet throws. *)
RestoreRejected(c) == /\ End(c, "restore")
                      /\ Store(None)
                      /\ state' = Disconnected(FALSE)
                      /\ UNCHANGED <<selected, open, rich>>

(* Mutant: only a request through the modal has a timeout. *)
NeverTimesOut(c) == FALSE /\ UNCHANGED vars

RestoreTimesOut(c) == /\ End(c, "restore")
                      /\ Store(None)
                      /\ state' = Disconnected(FALSE)
                      /\ UNCHANGED <<selected, open, rich>>

(* The user chooses in a modal whose connect is over: withWalletTimeout
   ignores the answer, the adapter has selected the wallet. *)
LateAnswer == /\ open
              /\ selected' \in Wallet
              /\ open' \in BOOLEAN
              /\ Blame(TRUE, "late")
              /\ UNCHANGED <<state, stored, at, used, rich>>

(* A minimal adapter's wallet changes its account by itself. *)
Switch == /\ ~rich
          /\ selected' \in Wallet \ {selected}
          /\ UNCHANGED <<state, stored, at, open, used, blamed, rich>>

(* The page is loaded again; only the storage is left. *)
Reload == /\ state' = Disconnected(FALSE)
          /\ selected' = Default
          /\ at' = [c \in Call |-> "idle"]
          /\ open' = FALSE
          /\ used' = FALSE
          /\ blamed' = {}
          /\ UNCHANGED <<stored, rich>>

(* What may happen in a loaded page *)
Steps == \/ \E c \in Call :
              \/ Connect(c) \/ ConnectAnswered(c) \/ ConnectRejected(c)
              \/ ConnectTimesOut(c)
              \/ Disconnect(c) \/ DisconnectEnds(c)
              \/ Restore(c) \/ RestoreAnswered(c) \/ RestoreRejected(c)
              \/ RestoreTimesOut(c)
         \/ RestoreReturns \/ LateAnswer \/ Switch

Next == Steps \/ Reload

Spec == Init /\ [][Next]_vars

(* With a timeout configured, the browser runs its timers. Nothing is asked of
   the wallet, nor of the adapter's disconnect. *)
FairSpec == Spec /\ \A c \in Call : /\ WF_vars(ConnectTimesOut(c))
                                    /\ WF_vars(RestoreTimesOut(c))

-----------------------------------------------------------------------------

(* However connects, disconnects and restores overlap, once the last of them is
   over the page does not go on showing "connecting". *)
Settled == InFlight = {} => state.status # "connecting"

(* In a page whose calls did not overlap, whose modals did not answer after
   their timeout and whose storage worked, what is shown and what is stored
   agree after every call: who is connected is whom a reload will restore, and
   who has left without an error is not restored. *)
StoredIsShown ==
  InFlight = {} /\ used /\ blamed = {}
    => /\ state.status = "connected"
            => stored # None /\ stored.wallet \in {None, state.publicKey}
       /\ state.status = "disconnected" /\ ~state.error => stored = None

(* The page stops connecting although the wallet may never answer, whatever
   else is called meanwhile. *)
ConnectingEnds == state.status = "connecting" ~> state.status # "connecting"
=============================================================================
