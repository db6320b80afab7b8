SPECIFICATION Spec
CONSTANTS
    WordLen <- MCWordLen
    Accounts <- MCAccounts
    Lookups <- MCLookups
INVARIANT WhitelistKeysFindTheirEntries
