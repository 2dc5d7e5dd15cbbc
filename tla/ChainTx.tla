------------------------------- MODULE ChainTx -------------------------------
(***************************************************************************)
(* From the transaction Dune returns to transfer edges: Normalize          *)
(* (internal/dune/normalize.go), Classify (internal/crawler/exclude.go),   *)
(* DecodeSystemTransfer (internal/solana/system.go) and extractSOLEdges    *)
(* (internal/crawler/runner.go).                                           *)
(*                                                                         *)
(* A raw transaction has its account keys in up to three lists, and its    *)
(* instructions name programs and accounts by their index in those lists,  *)
(* from 0, or by address.  Decoded instruction data is its length, its     *)
(* discriminator and its amount; data that is no base58 has length 0.      *)
(* Every transaction has a signature.                                      *)
(***************************************************************************)
EXTENDS Integers, Sequences, SequencesExt

CONSTANTS
    SystemProgram,
    PumpPrograms,      \* pump_program_id, as loaded when the crawler starts
    Inline,            \* an instruction with an index has this address
    MinTransferLamps

ASSUME ChainTxAssumption ==
    /\ SystemProgram \notin PumpPrograms
    /\ Inline \notin PumpPrograms \cup {SystemProgram}
    /\ MinTransferLamps \in Nat

\* Fault: the lists are appended in the order of their names.
KeysReadonlyFirst(raw) == raw.static \o raw.readonly \o raw.writable

\* The static keys, then the loaded ones.
Keys(raw) == raw.static \o raw.writable \o raw.readonly

InRange(index, keys) == 0 <= index /\ index < Len(keys)

Resolvable(ix, keys) ==
    /\ ix.program = Inline => InRange(ix.programIndex, keys)
    /\ ix.form = "indices" => \A i \in DOMAIN ix.accounts : InRange(ix.accounts[i], keys)

\* resolveIx and resolveAccounts.
ResolveIx(ix, keys) ==
    [program  |-> IF ix.program = Inline THEN keys[ix.programIndex + 1] ELSE ix.program,
     accounts |-> IF ix.form = "indices"
                  THEN [i \in DOMAIN ix.accounts |-> keys[ix.accounts[i] + 1]]
                  ELSE ix.accounts,
     data     |-> ix.data]

\* The instructions in the order they are kept and walked through.
RawIxs(raw) == raw.instructions \o FlattenSeq(raw.inner)

\* Normalize returns no error: everything resolves.
Normalizes(raw) == \A i \in DOMAIN RawIxs(raw) : Resolvable(RawIxs(raw)[i], Keys(raw))

Normalize(raw) ==
    LET ixs == [i \in DOMAIN RawIxs(raw) |-> ResolveIx(RawIxs(raw)[i], Keys(raw))]
    IN  [failed     |-> raw.failed,
         keys       |-> ToSet(Keys(raw)),
         programIDs |-> {ixs[i].program : i \in DOMAIN ixs},
         ixs        |-> ixs]

TouchesPump(n) == (n.programIDs \cup n.keys) \cap PumpPrograms # {}

\* Classify: a trade the ingester knows, or one that touches a pump program.
Excluded(n, known) == known \/ TouchesPump(n)

\* DecodeSystemTransfer returns a transfer.
IsSystemTransfer(ix) ==
    /\ ix.program = SystemProgram
    /\ Len(ix.accounts) >= 2
    /\ ix.data.len >= 12
    /\ ix.data.discriminator = 2

\* Fault: transfers to the wallet are not considered.
ConsiderOutgoing(ix, wallet) ==
    /\ IsSystemTransfer(ix)
    /\ ix.data.lamports >= MinTransferLamps
    /\ ix.accounts[1] # ix.accounts[2]
    /\ wallet = ix.accounts[1]

\* consider.
Consider(ix, wallet) ==
    /\ IsSystemTransfer(ix)
    /\ ix.data.lamports >= MinTransferLamps
    /\ ix.accounts[1] # ix.accounts[2]
    /\ wallet \in {ix.accounts[1], ix.accounts[2]}

\* consider appends the transfer to the edges.
WithTransfer(edges, ix, sig, wallet) ==
    IF Consider(ix, wallet)
    THEN Append(edges, [sig |-> sig, from |-> ix.accounts[1], to |-> ix.accounts[2],
                        lamports |-> ix.data.lamports])
    ELSE edges

ExtractSOLEdges(n, sig, wallet) ==
    FoldLeft(LAMBDA edges, ix : WithTransfer(edges, ix, sig, wallet), << >>, n.ixs)
=============================================================================
