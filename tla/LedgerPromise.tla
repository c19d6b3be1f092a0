--------------------------- MODULE LedgerPromise ---------------------------
(* What the ledger promises its users about one transfer, with everything   *)
(* between the request and the journal left out: a transfer is refused, or  *)
(* its amount is set aside at once and later either moves or is given back. *)
(* No wallet ever has more set aside and moved out than came in.            *)
EXTENDS WalletFunds

VARIABLE stage   \* of each transfer: asked, refused, reserved, settled, released

Stages == {"asked", "refused", "reserved", "settled", "released"}

At(s) == {t \in Transfers : stage[t] = s}

Init == stage = [t \in Transfers |-> "asked"]

Move(t, from, to) == stage[t] = from /\ stage' = [stage EXCEPT ![t] = to]

Reserve(t) ==
  /\ Available(Src[t], At("settled"), At("reserved")) >= FromAmount[t]
  /\ Move(t, "asked", "reserved")

Refuse(t)  == Move(t, "asked", "refused")
Settle(t)  == Move(t, "reserved", "settled")
Release(t) == Move(t, "reserved", "released")

Next == \E t \in Transfers : Reserve(t) \/ Refuse(t) \/ Settle(t) \/ Release(t)

Spec == Init /\ [][Next]_stage

TypeOK == stage \in [Transfers -> Stages]

(* No wallet is overdrawn, counting what is already promised out of it.     *)
Solvent ==
  \A w \in Wallets : Available(w, At("settled"), At("reserved")) >= 0
=============================================================================
