------------------------------ MODULE Wallets ------------------------------
(* createWallet for one user and one currency: it looks for a wallet, then  *)
(* creates one, and tries again if the number it drew is taken.             *)
EXTENDS Naturals

CONSTANTS
  Openings,      \* the calls served at one time
  MaxAttempts

ASSUME AttemptsAssumption == MaxAttempts \in Nat \ {0}

VARIABLES
  wallets,       \* how many the user has
  opening,       \* how often each call may still try; none that is not begun
  together       \* history: a call began while another had looked and not created

WalletsInit ==
  /\ wallets = 0 /\ together = FALSE
  /\ opening = [o \in Openings |-> 0]

Pending == {o \in Openings : opening[o] > 0}

(* Faulty variants of FindsNone: it does not look, or one attempt too many. *)
FindsAny(o) ==
  /\ opening[o] = 0
  /\ opening' = [opening EXCEPT ![o] = MaxAttempts]
  /\ together' = (together \/ Pending # {})
  /\ UNCHANGED wallets

FindsNoneAndTriesOnceMore(o) ==
  /\ opening[o] = 0 /\ wallets = 0
  /\ opening' = [opening EXCEPT ![o] = MaxAttempts + 1]
  /\ together' = (together \/ Pending # {})
  /\ UNCHANGED wallets

(* Otherwise the call answers a conflict and changes nothing.               *)
FindsNone(o) ==
  /\ opening[o] = 0 /\ wallets = 0
  /\ opening' = [opening EXCEPT ![o] = MaxAttempts]
  /\ together' = (together \/ Pending # {})
  /\ UNCHANGED wallets

CreatesWallet(o) ==
  /\ o \in Pending
  /\ wallets' = wallets + 1
  /\ opening' = [opening EXCEPT ![o] = 0]
  /\ UNCHANGED together

(* The number is taken.                                                     *)
Collides(o) ==
  /\ o \in Pending
  /\ opening' = [opening EXCEPT ![o] = @ - 1]
  /\ UNCHANGED <<wallets, together>>

CreateFails(o) ==
  /\ o \in Pending
  /\ opening' = [opening EXCEPT ![o] = 0]
  /\ UNCHANGED <<wallets, together>>

CreateWallet(o) == FindsNone(o) \/ CreatesWallet(o) \/ Collides(o) \/ CreateFails(o)

WalletsNext == \E o \in Openings : CreateWallet(o)

WalletsSpec == WalletsInit /\ [][WalletsNext]_<<wallets, opening, together>>

-----------------------------------------------------------------------------
WalletsTypeOK ==
  wallets \in Nat /\ opening \in [Openings -> 0 .. MaxAttempts] /\ together \in BOOLEAN

(* A user gets a second wallet of a currency only by two calls at the same  *)
(* time: nothing but the lookup prevents it (wallet.service.ts:37).         *)
OneWallet == wallets > 1 => together
=============================================================================
