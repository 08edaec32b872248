------------------------------ MODULE MCLedger ------------------------------
(* Instances of Ledger for TLC: two addresses, three genesis outputs of 10    *)
(* and a few transactions of each type, with fees of 1 to 3 and sizes of 1.   *)
EXTENDS Ledger, TLC

CONSTANTS alice, bob, root1, root2

TwoAddresses == {alice, bob}
TwoRoots == {root1, root2}

Out(v, a, lock, d) == [value |-> v, address |-> a, lock_epoch |-> lock, data |-> d]
Pay(v, a) == Out(v, a, 0, NoData)
Bytes(n) == [len |-> n, address |-> None, root |-> None]
\* signed without a proof, and signed with a proof under root r
Sig(h, i) == [key |-> <<h, i>>, signed |-> TRUE, root |-> None, key_index |-> 0]
Auth(h, i, r) == [key |-> <<h, i>>, signed |-> TRUE, root |-> r, key_index |-> 1022]

Tx(h, t, ins, outs, e, f) ==
    [hash |-> h, type |-> t, inputs |-> ins, outputs |-> outs, epoch |-> e,
     timestamp |-> h, fee |-> f, size |-> 1]

\* alice owns the first two genesis outputs, bob the third
ThreeOutputs == (<<0, 1>> :> Pay(10, alice)) @@ (<<0, 2>> :> Pay(10, alice))
                    @@ (<<0, 3>> :> Pay(10, bob))

\* coinbases have hashes of 100 and up
FreshHashes == [n \in 1 .. MaxBlocks |-> 99 + n]

Transfer == Tx(1, "TRANSFER", <<Sig(0, 1), Sig(0, 2)>>, <<Pay(12, bob), Pay(6, alice)>>, 1, 2)
\* spends one of the outputs Transfer spends, and expires an epoch earlier
Conflict == Tx(2, "TRANSFER", <<Sig(0, 2)>>, <<Pay(9, alice)>>, 0, 1)
\* spends an output of Transfer
Child == Tx(3, "TRANSFER", <<Sig(1, 1), Sig(0, 3)>>, <<Pay(19, alice)>>, 2, 3)
\* unrelated to the others
Note == Tx(4, "DATA", <<Sig(0, 3)>>, <<Out(0, bob, 0, Bytes(8)), Pay(9, bob)>>, 0, 1)
\* larger than half a block
Large == [Tx(5, "TRANSFER", <<Sig(0, 2)>>, <<Pay(8, bob)>>, 0, 2) EXCEPT !.size = 2]

\* leaves nothing for its fee: never valid
Overdrawn == Tx(6, "TRANSFER", <<Sig(0, 3)>>, <<Pay(10, alice)>>, 0, 2)

\* names an output twice: valid, since it counts twice, but never applied
Twice == Tx(7, "TRANSFER", <<Sig(0, 3), Sig(0, 3)>>, <<Pay(17, bob)>>, 1, 3)

Stake == Tx(11, "STAKE", <<Sig(0, 1)>>, <<Out(6, alice, 1, NoData), Pay(3, alice)>>, 0, 1)
Unstake == Tx(12, "UNSTAKE", <<Sig(11, 1)>>, <<Pay(5, alice)>>, 1, 1)
Slash == Tx(13, "SLASH", <<Sig(11, 1)>>, <<Out(5, bob, 0, Bytes(32))>>, 0, 1)

Registration(a, r) == [len |-> 96, address |-> a, root |-> r]
Rotation(r) == [len |-> 32, address |-> None, root |-> r]

Register == Tx(14, "REGISTER", <<Sig(0, 2)>>,
               <<Out(5, alice, 0, Registration(alice, root1)), Pay(4, alice)>>, 0, 1)
\* a second registration of alice, with another root
RegisterAgain == Tx(18, "REGISTER", <<Sig(0, 1)>>,
                    <<Out(9, alice, 0, Registration(alice, root2))>>, 0, 1)
Rotate == Tx(15, "ROTATE_AUTH", <<Auth(14, 1, root1)>>,
             <<Out(3, alice, 0, Rotation(root2))>>, 1, 2)
UnderNewRoot == Tx(17, "TRANSFER", <<Auth(14, 2, root2)>>, <<Pay(3, bob)>>, 1, 1)

\* a client's coinbase and a payment with it
Mint == Tx(21, "COINBASE", <<>>, <<Pay(4, alice)>>, 1, 0)
SpendMint == Tx(22, "TRANSFER", <<Sig(21, 1)>>, <<Pay(3, bob)>>, 1, 1)

Transfers == {Transfer, Conflict, Child, Note, Large, Overdrawn, Twice, Stake, Unstake, Mint}
StakesAndKeys == {Stake, Slash, Register, RegisterAgain, Rotate, UnderNewRoot,
                  Mint, SpendMint, Overdrawn, Twice}
==============================================================================
