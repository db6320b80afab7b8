---------------------------- MODULE FleetStorage ----------------------------
(***************************************************************************)
(* The storage keys of the fleet contract (package contract) and the      *)
(* contract they are keys of.  The contract keeps two whitelists, of      *)
(* devices and of clients, as mappings at the storage positions           *)
(* DeviceWhitelistIndex and AccessWhitelistIndex; the client computes the *)
(* key of an address and looks it up in the storage of the contract.      *)
(*                                                                         *)
(* A storage word has WordLen bytes (32 in the code) and an account is    *)
(* the number its address bytes denote.  The hash keeps its input.        *)
(***************************************************************************)
EXTENDS Naturals, Sequences, SequencesExt

CONSTANTS
    WordLen,    \* bytes of a storage word
    Accounts,   \* the accounts the contract may list
    Lookups     \* the address bytes a client may ask about

ASSUME /\ WordLen \in Nat \ {0}
       /\ Accounts \subseteq 0..(256 ^ WordLen - 1)
       /\ \A addr \in Lookups : Len(addr) <= WordLen

VARIABLES
    devices,    \* the accounts on the device whitelist
    clients,    \* the accounts on the access whitelist
    answer      \* the last lookup: the list, the address, what was found

vars == <<devices, clients, answer>>

-----------------------------------------------------------------------------
(* package util, the hash and the storage layout of a mapping *)

IntToBytes(n) == <<n>>

PaddingBytesPrefix(bytes, pad, totalLen) ==
    [i \in 1..(totalLen - Len(bytes)) |-> pad] \o bytes

Keccak256(data) == [keccak256 |-> data]

Word(n) == [i \in 1..WordLen |-> (n \div 256 ^ (WordLen - i)) % 256]

\* the slot of mapping[account] of the mapping at storage position index
MappingSlot(account, index) == Keccak256(Word(account) \o Word(index))

-----------------------------------------------------------------------------
(* fleet.go *)

DiodeRegistryIndex   == 0
OperatorIndex        == DiodeRegistryIndex + 1
AccountantIndex      == OperatorIndex + 1
ValueIndex           == AccountantIndex + 1
AccessRootIndex      == ValueIndex + 1
DeviceRootIndex      == AccessRootIndex + 1
DeviceWhitelistIndex == DeviceRootIndex + 1
AccessWhitelistIndex == DeviceWhitelistIndex + 1

\* a slip: the index before the address
DeviceWhitelistKeyIndexFirst(addr) ==
    LET padIndex == PaddingBytesPrefix(IntToBytes(DeviceWhitelistIndex), 0, WordLen)
        padAddr  == PaddingBytesPrefix(addr, 0, WordLen)
    IN  Keccak256(padIndex \o padAddr)

DeviceWhitelistKey(addr) ==
    LET padIndex == PaddingBytesPrefix(IntToBytes(DeviceWhitelistIndex), 0, WordLen)
        padAddr  == PaddingBytesPrefix(addr, 0, WordLen)
    IN  Keccak256(padAddr \o padIndex)

AccessWhitelistKey(addr) ==
    LET padIndex == PaddingBytesPrefix(IntToBytes(AccessWhitelistIndex), 0, WordLen)
        padAddr  == PaddingBytesPrefix(addr, 0, WordLen)
    IN  Keccak256(padAddr \o padIndex)

-----------------------------------------------------------------------------
(* The contract and a client that reads its storage *)

\* the slots of the contract that hold a value other than zero
Storage ==
    {MappingSlot(a, DeviceWhitelistIndex) : a \in devices}
        \cup {MappingSlot(a, AccessWhitelistIndex) : a \in clients}

NoAnswer == [list |-> "none"]

Init ==
    /\ devices = {}
    /\ clients = {}
    /\ answer = NoAnswer

SetDeviceWhitelist(account, listed) ==
    /\ devices' = IF listed THEN devices \cup {account} ELSE devices \ {account}
    /\ UNCHANGED <<clients, answer>>

SetAccessWhitelist(account, listed) ==
    /\ clients' = IF listed THEN clients \cup {account} ELSE clients \ {account}
    /\ UNCHANGED <<devices, answer>>

Asked(list, addr, key, members) ==
    /\ answer' = [list |-> list, addr |-> addr,
                  found |-> key \in Storage, members |-> members]
    /\ UNCHANGED <<devices, clients>>

IsDeviceWhitelisted ==
    \E addr \in Lookups : Asked("device", addr, DeviceWhitelistKey(addr), devices)

IsAccessWhitelisted ==
    \E addr \in Lookups : Asked("access", addr, AccessWhitelistKey(addr), clients)

Next ==
    \/ \E a \in Accounts, listed \in BOOLEAN : SetDeviceWhitelist(a, listed)
    \/ \E a \in Accounts, listed \in BOOLEAN : SetAccessWhitelist(a, listed)
    \/ IsDeviceWhitelisted
    \/ IsAccessWhitelisted

Spec == Init /\ [][Next]_vars

-----------------------------------------------------------------------------
(* Properties *)

AccountOf(addr) == FoldLeft(LAMBDA acc, b : acc * 256 + b, 0, addr)

\* A lookup with DeviceWhitelistKey or AccessWhitelistKey finds a value in
\* the storage of the contract exactly when the account of the address was
\* on that whitelist in the state read, however the address is written
\* (with or without leading zeros) and whatever the other list holds: the
\* two keys are the slots of two different mappings and never meet.
WhitelistKeysFindTheirEntries ==
    answer # NoAnswer => (answer.found <=> AccountOf(answer.addr) \in answer.members)

=============================================================================
