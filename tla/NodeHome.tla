------------------------------ MODULE NodeHome ------------------------------
(***************************************************************************)
(* The home directory of one evcosmos node and the commands that read and  *)
(* write it: `init' (apps/cosmos-wasm/cmd/init.go), `keys export' and      *)
(* `keys import' (pkg/cmd/keys.go) and the loading part of `start'.        *)
(*                                                                         *)
(* A home is a record of four files.  Every file is written in place with  *)
(* os.WriteFile, which truncates first: a process that is killed during    *)
(* the write leaves the file Torn, present but not readable as JSON.       *)
(* Encryption is abstracted to the passphrase a key file was sealed with.  *)
(***************************************************************************)
EXTENDS Naturals

CONSTANTS Keys,          \* signing keys that exist; an address is its key
          Passphrases

Missing == [kind |-> "missing"]
Torn    == [kind |-> "torn"]
Present(file) == file.kind # "missing"

\* keyData: the encrypted private key beside its public key.
SignerFile(key, pass) == [kind |-> "signer", key |-> key, pass |-> pass]

\* Genesis: the proposer is Null when the node that ran init has no signer.
Null == "null"
GenesisFile(proposer, start) ==
    [kind |-> "genesis", proposer |-> proposer, start |-> start]

NodeKeyFile == [kind |-> "nodekey"]
ConfigFile  == [kind |-> "config"]

EmptyHome == [signer |-> Missing, config |-> Missing,
              nodeKey |-> Missing, genesis |-> Missing]

FileSet == {Missing, Torn, NodeKeyFile, ConfigFile}
             \union {SignerFile(k, p) : k \in Keys, p \in Passphrases}
             \union [kind : {"genesis"}, proposer : Keys \union {Null}, start : Nat]

-----------------------------------------------------------------------------
(* Reading *)

\* Genesis.Validate: every other field is set by NewGenesis to a legal value.
GenesisValid(gen) == gen.proposer # Null

\* LoadGenesis: the file exists, parses and is valid.
LoadsGenesis(home) ==
    /\ home.genesis.kind = "genesis"
    /\ GenesisValid(home.genesis)

\* rollconf.Load ignores a missing or unreadable evnode.yml and takes the
\* defaults; only the signer's path is found nowhere else.
FindsSigner(home) == home.config.kind = "config"

\* LoadFileSystemSigner with loadKeys: GCM refuses another passphrase.
LoadsSigner(home, pass) ==
    /\ home.signer.kind = "signer"
    /\ home.signer.pass = pass

LoadsNodeKey(home) == home.nodeKey.kind = "nodekey"

\* ExportPrivateKey decrypts with the same derivation as loadKeys.
Exportable(home, pass) == LoadsSigner(home, pass)

-----------------------------------------------------------------------------
(* `init', one file at a time.  A step yields the new home, or says that   *)
(* the command ends with an error before it writes.                        *)

InitSteps == <<"signer", "config", "nodeKey", "genesis">>

\* CreateSigner fails on an existing key file, also on a torn one; a node
\* that is no aggregator gets no signer.
CreateSignerFails(home, aggregator) == aggregator /\ Present(home.signer)
CreateSigner(home, aggregator, key, pass) ==
    IF aggregator THEN [home EXCEPT !.signer = SignerFile(key, pass)] ELSE home

\* SaveAsYaml overwrites.
SaveAsYaml(home) == [home EXCEPT !.config = ConfigFile]

\* LoadOrGenNodeKey keeps a key that loads and fails on one that does not.
NodeKeyFails(home) == Present(home.nodeKey) /\ ~LoadsNodeKey(home)
LoadOrGenNodeKey(home) ==
    IF Present(home.nodeKey) THEN home ELSE [home EXCEPT !.nodeKey = NodeKeyFile]

\* CreateGenesis keeps an existing file, which init then loads and validates.
GenesisFails(home) == Present(home.genesis) /\ ~LoadsGenesis(home)
CreateGenesis(home, proposer) ==
    IF Present(home.genesis) THEN home
    ELSE [home EXCEPT !.genesis = GenesisFile(proposer, 0)]

InitFails(home, step, aggregator) ==
    \/ step = "signer"  /\ CreateSignerFails(home, aggregator)
    \/ step = "nodeKey" /\ NodeKeyFails(home)
    \/ step = "genesis" /\ GenesisFails(home)

\* The proposer is the address of the key CreateSigner has made, which init
\* holds in memory.
ProposerOf(key, aggregator) == IF aggregator THEN key ELSE Null

InitWrites(home, step, aggregator, key, pass) ==
    CASE step = "signer"  -> CreateSigner(home, aggregator, key, pass)
      [] step = "config"  -> SaveAsYaml(home)
      [] step = "nodeKey" -> LoadOrGenNodeKey(home)
      [] step = "genesis" -> CreateGenesis(home, ProposerOf(key, aggregator))

-----------------------------------------------------------------------------
(* `keys import': without --force an existing file, torn or not, is kept.  *)

ImportRefused(home, force) == Present(home.signer) /\ ~force
ImportPrivateKey(home, key, pass) == [home EXCEPT !.signer = SignerFile(key, pass)]

-----------------------------------------------------------------------------
(* `start'.  A sequencer needs its signer, and NewExecutor refuses a       *)
(* signer that is not the proposer of the genesis; a full node's syncer    *)
(* refuses a stored DA height below the genesis' start (0: nothing stored).*)

\* Slip: any key that loads may sign.
IsProposerAny(home) == home.signer.kind = "signer"

IsProposer(home) == home.signer.key = home.genesis.proposer

SequencerStarts(home, pass) ==
    /\ LoadsGenesis(home)
    /\ LoadsNodeKey(home)
    /\ FindsSigner(home)
    /\ LoadsSigner(home, pass)
    /\ IsProposer(home)

FullNodeStarts(home, daHeight) ==
    /\ LoadsGenesis(home)
    /\ LoadsNodeKey(home)
    /\ daHeight = 0 \/ daHeight >= home.genesis.start

\* The file a step of init rewrites or creates is cut short when the
\* command is killed during the write.
TornBy(home, step) ==
    CASE step = "signer"  -> [home EXCEPT !.signer = Torn]
      [] step = "config"  -> [home EXCEPT !.config = Torn]
      [] step = "nodeKey" -> [home EXCEPT !.nodeKey = Torn]
      [] step = "genesis" -> [home EXCEPT !.genesis = Torn]
=============================================================================
