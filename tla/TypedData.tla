------------------------------ MODULE TypedData -------------------------------
(***************************************************************************)
(* How a transaction is described to be signed, and read back.  Each kind   *)
(* has a struct with fields; TypedData puts them under the names of a       *)
(* message; SuggestedFee makes a transaction from an Input with Decode and  *)
(* returns its typed data; IssueTx reads typed data with ParseTypedData.    *)
(* The sender of a transaction is whoever signed the digest of the typed    *)
(* data it is described by: a transaction read back with another field      *)
(* than the one signed has an unknown sender.                               *)
(*                                                                          *)
(* Values are abstract, with Zero the zero value of every type; a result    *)
(* that may be an error is a sequence of at most one element.  The digest   *)
(* is free of collisions, so it is the typed data itself.  WithdrawnTx,     *)
(* which the codec does not know, cannot be encoded and is left out.        *)
(***************************************************************************)
EXTENDS Integers, Sequences

CONSTANTS Zero, Stranger

\* The fields of each kind.
Struct ==
    [set      |-> {"Value"},
     transfer |-> {"To", "Units"},
     stake    |-> {"StakerType", "StakeAmount", "StakerAddr"},
     unstake  |-> {"StakerType", "RewardAmount", "EndTime"},
     register |-> {"ActionID", "StakerType", "Params", "WorkKey", "StakerAddr"},
     refresh  |-> {"Params", "WorkKey"},
     proof    |-> {"Netflow", "StartTime", "EndTime", "Ser"},
     govern   |-> {"ActionID"},
     claim    |-> {"RewardAmount", "EndTime"},
     vote     |-> {"ActionID"},
     proposal |-> {"ActionID", "ActionType", "Key", "NewValue", "StartTime", "EndTime"},
     addUser  |-> {"StartTime", "EndTime", "PayAmount", "UserType", "Connections", "Address"}]

Kind == DOMAIN Struct

Field == UNION {Struct[kind] : kind \in Kind}

\* A transaction of a kind in which v has filled the given fields, each with a value of
\* its own.
Filled(kind, given, v) ==
    [kind |-> kind, f |-> [x \in Struct[kind] |-> IF x \in given THEN <<v, x>> ELSE Zero],
     block |-> 0, price |-> 0]

-----------------------------------------------------------------------------
(* The TypedData methods: the primary type, and the field under each name   *)
(* of the message.  "params" is country, localIP, minPort, maxPort,         *)
(* publicIP and checkPort.                                                  *)

SetMessage == [primary |-> "set", names |-> [value |-> "Value"]]

TransferMessageWithoutTo == [primary |-> "transfer", names |-> [units |-> "Units"]]

TransferMessage == [primary |-> "transfer", names |-> [to |-> "To", units |-> "Units"]]

StakeMessage ==
    [primary |-> "stake",
     names |-> [stakerAddr |-> "StakerAddr", stakerType |-> "StakerType",
                stakeAmount |-> "StakeAmount"]]

\* Without the end time.
UnStakeMessage ==
    [primary |-> "unstake",
     names |-> [stakerType |-> "StakerType", stakeAmount |-> "RewardAmount"]]

RegisterMessage ==
    [primary |-> "register",
     names |-> [actionID |-> "ActionID", stakerType |-> "StakerType", params |-> "Params",
                workKey |-> "WorkKey", stakerAddr |-> "StakerAddr"]]

RefreshMessage ==
    [primary |-> "refresh", names |-> [params |-> "Params", workKey |-> "WorkKey"]]

ProofMessage ==
    [primary |-> "proof",
     names |-> [ser |-> "Ser", startTime |-> "StartTime", endTime |-> "EndTime",
                netflow |-> "Netflow"]]

GovernMessage == [primary |-> "govern", names |-> [actionID |-> "ActionID"]]

ClaimMessage ==
    [primary |-> "claim", names |-> [reward |-> "RewardAmount", endTime |-> "EndTime"]]

\* The primary type is that of GovernTx.
VoteMessage == [primary |-> "govern", names |-> [actionID |-> "ActionID"]]

ProposalMessage ==
    [primary |-> "proposal",
     names |-> [actionID |-> "ActionID", key |-> "Key", newValue |-> "NewValue",
                startTime |-> "StartTime", endTime |-> "EndTime", actionType |-> "ActionType"]]

AddUserMessage ==
    [primary |-> "addUser",
     names |-> [address |-> "Address", startTime |-> "StartTime", endTime |-> "EndTime",
                stakeAmount |-> "PayAmount", userType |-> "UserType",
                connections |-> "Connections"]]

Message ==
    [set |-> SetMessage, transfer |-> TransferMessage, stake |-> StakeMessage,
     unstake |-> UnStakeMessage, register |-> RegisterMessage, refresh |-> RefreshMessage,
     proof |-> ProofMessage, govern |-> GovernMessage, claim |-> ClaimMessage,
     vote |-> VoteMessage, proposal |-> ProposalMessage, addUser |-> AddUserMessage]

\* CreateTypedData, of the transaction's kind.
TypedDataOf(u) ==
    LET m == Message[u.kind] IN
    [primary |-> m.primary, block |-> u.block, price |-> u.price,
     message |-> [n \in DOMAIN m.names |-> u.f[m.names[n]]]]

-----------------------------------------------------------------------------
(* The cases of ParseTypedData: the name under which each field is read; a  *)
(* name that the message lacks is an error.                                 *)

ParseSet == [Value |-> "value"]

ParseTransfer == [To |-> "to", Units |-> "units"]

ParseStake ==
    [StakerAddr |-> "stakerAddr", StakerType |-> "stakerType", StakeAmount |-> "stakeAmount"]

ParseUnStake ==
    [StakerType |-> "stakerType", RewardAmount |-> "stakeAmount", EndTime |-> "endTime"]

ParseRegister ==
    [ActionID |-> "actionID", StakerType |-> "stakerType", Params |-> "params",
     WorkKey |-> "workKey", StakerAddr |-> "stakerAddr"]

ParseRefresh == [Params |-> "params", WorkKey |-> "workKey"]

ParseProof ==
    [Netflow |-> "netflow", StartTime |-> "startTime", EndTime |-> "endTime", Ser |-> "ser"]

ParseGovern == [ActionID |-> "actionID"]

\* Without the action type.
ParseProposal ==
    [ActionID |-> "actionID", Key |-> "key", NewValue |-> "newValue",
     StartTime |-> "startTime", EndTime |-> "endTime"]

ParseClaim == [RewardAmount |-> "stakeAmount", EndTime |-> "endTime"]

ParseVote == [ActionID |-> "actionID"]

Parse ==
    [set |-> ParseSet, transfer |-> ParseTransfer, stake |-> ParseStake,
     unstake |-> ParseUnStake, register |-> ParseRegister, refresh |-> ParseRefresh,
     proof |-> ParseProof, govern |-> ParseGovern, claim |-> ParseClaim,
     vote |-> ParseVote, proposal |-> ParseProposal]

\* The fields, each from its name.
ParsedFields(td) ==
    LET names == Parse[td.primary] IN
    [x \in Struct[td.primary] |-> IF x \in DOMAIN names THEN td.message[names[x]] ELSE Zero]

\* ParseTypedData, with parseBaseTx.
ParseTypedData(td) ==
    IF /\ td.primary \in DOMAIN Parse
       /\ \A x \in DOMAIN Parse[td.primary] : Parse[td.primary][x] \in DOMAIN td.message
    THEN <<[kind |-> td.primary, f |-> ParsedFields(td), block |-> td.block,
            price |-> td.price]>>
    ELSE <<>>

-----------------------------------------------------------------------------
(* Decode: the fields taken from an Input; Input has no action type, and    *)
(* VoteTx is left without its BaseTx.                                       *)

Decoded ==
    [set |-> {"Value"}, transfer |-> {"To", "Units"},
     stake |-> {"StakerType", "StakeAmount", "StakerAddr"},
     unstake |-> {"StakerType", "RewardAmount"},
     register |-> {"ActionID", "StakerType", "Params", "WorkKey", "StakerAddr"},
     refresh |-> {"Params", "WorkKey"},
     proof |-> {"Netflow", "StartTime", "EndTime", "Ser"},
     govern |-> {"ActionID"}, claim |-> {"RewardAmount", "EndTime"},
     vote |-> {"ActionID"},
     proposal |-> {"ActionID", "Key", "NewValue", "StartTime", "EndTime"}]

HasBaseTx(kind) == kind # "vote"

-----------------------------------------------------------------------------
(* Signatures.                                                              *)

\* DigestHash, Sign and NewTx.  The signature is part of what a transaction's id is
\* computed from.
Signed(u, td, by) == [u |-> u, by |-> by, digest |-> td, sig |-> "signed"]

\* The transaction of a kind that typed data describes, with v in the fields that it is
\* silent about.
Reading(td, kind, v) ==
    LET names == Message[kind].names
        From(x) == {n \in DOMAIN names \cap DOMAIN td.message : names[n] = x}
    IN  [kind |-> kind, block |-> td.block, price |-> td.price,
         f |-> [x \in Struct[kind] |->
                  IF From(x) = {} THEN v ELSE td.message[CHOOSE n \in From(x) : TRUE]]]

\* The transactions that the same signature is good for.
Readings(td, values) ==
    {u \in {Reading(td, kind, v) : kind \in Kind, v \in values} : TypedDataOf(u) = td}

\* Init and DeriveSender.
Sender(tx) == IF TypedDataOf(tx.u) = tx.digest THEN tx.by ELSE Stranger

\* FeeUnits and LoadUnits; a value is one unit.
FeeUnits(u) ==
    CASE u.kind = "set" -> 2
      [] u.kind \in {"refresh", "proof"} -> 0
      [] OTHER -> 1
=============================================================================
