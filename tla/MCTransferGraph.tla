--------------------------- MODULE MCTransferGraph ---------------------------
(***************************************************************************)
(* Instances of TransferGraph for TLC.  Encode says how Solana writes a    *)
(* transaction down: the accounts it needs are divided between the static  *)
(* and the loaded lists, transfers are instructions of the system program, *)
(* on the outside or inside one that a program makes.                      *)
(***************************************************************************)
EXTENDS TransferGraph

CONSTANTS a, b, d, System, Pump

MCAddresses == {a, b, d}
MCWallets == {a, b}
MCPumpPrograms == {Pump}

AllKeys == <<System, a, b, d>>

IndexOf(x, keys) == CHOOSE i \in 0..(Len(keys) - 1) : keys[i + 1] = x

Data(lamports) == [len |-> 12, discriminator |-> 2, lamports |-> lamports]

Instruction(move, form, keys) ==
    [program      |-> IF form = "indices" THEN Inline ELSE System,
     programIndex |-> IF form = "indices" THEN IndexOf(System, keys) ELSE 0,
     form         |-> form,
     accounts     |-> IF form = "indices"
                      THEN <<IndexOf(move.from, keys), IndexOf(move.to, keys)>>
                      ELSE <<move.from, move.to>>,
     data         |-> Data(move.lamports)]

\* layout: how many keys are static and how many are writable; the rest is
\* readonly.  outer: how many moves are not inner instructions.
Encode(moves, layout, form, outer, keys) ==
    LET ixs == [i \in DOMAIN moves |-> Instruction(moves[i], form, keys)]
        writableEnd == layout[1] + layout[2]
    IN  [static       |-> SubSeq(keys, 1, layout[1]),
         writable     |-> SubSeq(keys, layout[1] + 1, writableEnd),
         readonly     |-> SubSeq(keys, writableEnd + 1, Len(keys)),
         instructions |-> SubSeq(ixs, 1, outer),
         inner        |-> IF outer = Len(ixs) THEN << >>
                          ELSE <<SubSeq(ixs, outer + 1, Len(ixs))>>,
         failed       |-> FALSE]

Tx(moves, raw) ==
    [moves |-> moves, raw |-> raw, pump |-> FALSE, trade |-> FALSE, intact |-> TRUE]

Move(from, to, lamports) == [from |-> from, to |-> to, lamports |-> lamports]

\* One and two moves: there and back, twice the same way, to oneself, too
\* small, from a stranger, between strangers to one of the wallets.
Moves == {<<Move(a, b, 2)>>, <<Move(a, b, 2), Move(a, b, 3)>>,
          <<Move(a, b, 3), Move(b, a, 2)>>, <<Move(d, a, 2), Move(a, a, 3)>>,
          <<Move(a, b, 1), Move(a, b, 2)>>, <<Move(b, d, 2)>>}

Readable ==
    UNION {{Tx(ms, Encode(ms, <<4, 0>>, "indices", Len(ms), AllKeys)),
            Tx(ms, Encode(ms, <<1, 2>>, "indices", Len(ms) - 1, AllKeys)),
            Tx(ms, Encode(ms, <<2, 2>>, "addresses", 0, AllKeys))} : ms \in Moves}

Plain == Encode(<<Move(a, b, 2)>>, <<4, 0>>, "indices", 1, AllKeys)

\* A transaction of a pump program: a loaded key names it, or it is called.
PumpKey == Encode(<<Move(a, b, 2)>>, <<1, 3>>, "indices", 1, AllKeys \o <<Pump>>)
PumpCall == [Plain EXCEPT !.instructions =
               @ \o <<[@[1] EXCEPT !.program = Pump, !.form = "addresses", !.accounts = << >>]>>]

WithIx(ix) == [Plain EXCEPT !.instructions = <<ix>>]
PlainIx == Plain.instructions[1]

Odd ==
    {[Tx(<<Move(a, b, 2)>>, PumpKey) EXCEPT !.pump = TRUE],
     [Tx(<<Move(a, b, 2)>>, PumpCall) EXCEPT !.pump = TRUE],
     [Tx(<<Move(a, b, 2)>>, Plain) EXCEPT !.trade = TRUE],
     Tx(<<Move(a, b, 2)>>, [Plain EXCEPT !.failed = TRUE]),
     Tx(<< >>, WithIx([PlainIx EXCEPT !.data.discriminator = 3])),
     Tx(<< >>, WithIx([PlainIx EXCEPT !.data.len = 4])),
     Tx(<< >>, WithIx([PlainIx EXCEPT !.accounts = <<1>>])),
     [Tx(<<Move(a, b, 2)>>, WithIx([PlainIx EXCEPT !.programIndex = 4])) EXCEPT !.intact = FALSE],
     [Tx(<<Move(a, b, 2)>>, WithIx([PlainIx EXCEPT !.accounts = <<1, -1>>])) EXCEPT !.intact = FALSE]}

MCChainTxs == Readable \cup Odd
=============================================================================
