------------------------------ MODULE MCWallet ------------------------------
(* An instance of Wallet for TLC: an output of 16500, and one of 9600 that is *)
(* locked at first and, as a stake, leaves only dust.  Once a fee or two are  *)
(* paid, a transfer of 5900 needs several inputs.                             *)
EXTENDS Wallet, TLC

MCGenesis == <<0, 1>> :> [value |-> 16500, lock_epoch |-> 0, is_spent |-> FALSE]
          @@ <<0, 2>> :> [value |-> 9600, lock_epoch |-> 1, is_spent |-> FALSE]
=============================================================================
