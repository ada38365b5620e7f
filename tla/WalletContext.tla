--------------------------- MODULE WalletContext ----------------------------
(***************************************************************************)
(* WalletProvider: which wallet the pages believe they are connected to.   *)
(* It lives as long as the browser tab; its address is kept in             *)
(* localStorage and the wallet library keeps a session of its own.         *)
(***************************************************************************)
EXTENDS Naturals

CONSTANTS
    Addresses,   \* the STX addresses of the customer's wallets
    Nothing,     \* null
    MaxPrompts   \* bound: wallet prompts open at once

VARIABLES
    connected,   \* isConnected
    address,     \* the address, or Nothing
    stored,      \* the address in localStorage, or Nothing
    session,     \* whether the wallet library has a session
    checking,    \* whether the library is still to be asked for one
    prompts      \* calls of connect() the customer has not answered

wallet == <<connected, address, stored, session, checking, prompts>>

\* checkConnection up to its await, when a page is loaded: the stored address,
\* or else the library has to be imported and asked.
Load ==
    /\ connected' = (stored # Nothing)
    /\ address' = stored
    /\ checking' = (stored = Nothing)
    /\ prompts' = 0
    /\ UNCHANGED <<stored, session>>

WalletInit ==
    /\ stored \in Addresses \cup {Nothing} /\ session \in BOOLEAN
    /\ stored # Nothing => session
    /\ connected = (stored # Nothing) /\ address = stored
    /\ checking = (stored = Nothing)
    /\ prompts = 0

\* checkConnection after its await: a session of the library connects the
\* page, without an address.
CheckSession ==
    /\ checking
    /\ checking' = FALSE
    /\ connected' = (connected \/ session)
    /\ UNCHANGED <<address, stored, session, prompts>>

\* connectWallet up to its await, also while a wallet is connected or a prompt
\* is open.
ConnectWallet ==
    /\ prompts < MaxPrompts
    /\ prompts' = prompts + 1
    /\ UNCHANGED <<connected, address, stored, session, checking>>

\* connectWallet after its await, with the STX address of the answer: the
\* customer's choice, or Nothing when the wallet has none.
Connected(a) ==
    /\ prompts > 0
    /\ prompts' = prompts - 1
    /\ session' = TRUE
    /\ UNCHANGED checking
    /\ IF a = Nothing THEN UNCHANGED <<connected, address, stored>>
       ELSE connected' = TRUE /\ address' = a /\ stored' = a

\* The customer closes the prompt.
Dismissed ==
    /\ prompts > 0
    /\ prompts' = prompts - 1
    /\ UNCHANGED <<connected, address, stored, session, checking>>

DisconnectWallet ==
    /\ connected
    /\ connected' = FALSE /\ address' = Nothing /\ stored' = Nothing /\ session' = FALSE
    /\ UNCHANGED <<checking, prompts>>

WalletTypeOK ==
    /\ connected \in BOOLEAN /\ session \in BOOLEAN
    /\ address \in Addresses \cup {Nothing} /\ stored = address
    /\ address # Nothing => connected
    /\ connected => session
    /\ checking \in BOOLEAN
    /\ prompts \in 0..MaxPrompts

=============================================================================
