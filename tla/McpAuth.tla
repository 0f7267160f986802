------------------------------ MODULE McpAuth ------------------------------
(***************************************************************************)
(* The tokens of MCP servers (mcp/auth.ts, mcp/manage.ts): the browser     *)
(* flow of `chorus mcp auth`, the encrypted store it fills, and the        *)
(* providers that read it, in one process.  The steps of a save are        *)
(* synchronous: only a crash of the process comes between them.            *)
(***************************************************************************)
EXTENDS Integers, FiniteSets

CONSTANTS Servers,    \* the configured servers that need a token
          Flowing,    \* those of type authorization_code; the rest have client credentials
          MaxTokens,  \* bound: tokens the authorization servers issue
          MaxKeys,    \* bound: how many keys are generated; the last one in full
          None

\* What the file decrypts to: tokens by server
TokenMaps == UNION {[known -> 1..MaxTokens] : known \in SUBSET Servers}
Stores == [key : 1..MaxKeys, servers : TokenMaps]

AuthBounds ==
    /\ Flowing \subseteq Servers /\ MaxTokens \in Nat /\ MaxKeys \in Nat \ {0}
    /\ None \notin Nat \cup Stores

Torn == 0                            \* a key file of another length than KEY_LENGTH

VARIABLES key,        \* the key file
          store,      \* mcp-auth.json: None or [key, servers]
          save,       \* the writer's save: [at, key, servers, for]
          flow,       \* the authorization of each server
          cache,      \* the token the provider of a server holds, None without one
          issued, keys,
          last        \* history: what was last stored or cleared for a server
uvars == <<key, store, save, flow, cache, issued, keys, last>>

NoTokens == [s \in {} |-> None]
Idle == [at |-> "idle", key |-> Torn, servers |-> NoTokens, for |-> None]

Whole(k) == k # None /\ k # Torn
\* loadAuthStore: what cannot be read, or decrypted, is taken to be empty
LoadAuthStore == IF store # None /\ store.key = key THEN store.servers ELSE NoTokens
LoadTokens(s) == LET t == LoadAuthStore IN IF s \in DOMAIN t THEN t[s] ELSE None

MutStoredWith(s, token) == [k \in {s} |-> token]
StoredWith(s, token) ==
    LET t == LoadAuthStore
    IN  [k \in DOMAIN t \cup {s} |-> IF k = s THEN token ELSE t[k]]
Without(s) == [k \in DOMAIN LoadAuthStore \ {s} |-> LoadAuthStore[k]]

UInit ==
    /\ key = None /\ store = None /\ save = Idle
    /\ flow = [s \in Flowing |-> "idle"]
    /\ cache = [s \in Servers |-> None]
    /\ issued = 0 /\ keys = 0 /\ last = [s \in Servers |-> None]

-----------------------------------------------------------------------------
(* saveAuthStore: the key, a temporary file, and its rename                *)

Begins(s, servers) ==
    save' = [at |-> "key", key |-> Torn, servers |-> servers, for |-> s]

UsesKey ==
    /\ save.at = "key" /\ Whole(key)
    /\ save' = [save EXCEPT !.at = "write", !.key = key]
    /\ UNCHANGED <<key, store, flow, cache, issued, keys, last>>
CreatesKey ==     \* writeFileSync creates the file, then fills it
    /\ save.at = "key" /\ ~Whole(key)
    /\ key' = Torn /\ keys' = keys + 1
    /\ save' = [save EXCEPT !.at = "keying"]
    /\ UNCHANGED <<store, flow, cache, issued, last>>
FillsKey ==
    /\ save.at = "keying"
    /\ key' = keys
    /\ save' = [save EXCEPT !.at = "write", !.key = keys]
    /\ UNCHANGED <<store, flow, cache, issued, keys, last>>

Token(servers, s) == IF s \in DOMAIN servers THEN servers[s] ELSE None
Renames ==
    /\ save.at = "write"
    /\ store' = [key |-> save.key, servers |-> save.servers]
    /\ last' = [last EXCEPT ![save.for] = Token(save.servers, save.for)]
    /\ flow' = [s \in Flowing |-> IF s = save.for /\ flow[s] = "saving" THEN "done" ELSE flow[s]]
    /\ save' = Idle
    /\ UNCHANGED <<key, cache, issued, keys>>

-----------------------------------------------------------------------------
(* runOAuthFlow and the callback server                                    *)

RunOAuthFlow(s) ==
    /\ save = Idle /\ flow[s] \in {"idle", "done", "failed"}
    /\ flow' = [flow EXCEPT ![s] = "waiting"]
    /\ UNCHANGED <<key, store, save, cache, issued, keys, last>>

Moves(s, from, to) ==
    /\ save = Idle /\ flow[s] = from
    /\ flow' = [flow EXCEPT ![s] = to]
    /\ UNCHANGED <<key, store, save, cache, issued, keys, last>>
Callback(s) == Moves(s, "waiting", "exchanging")
\* an error, no code, or the state of another flow: the server is closed
BadCallback(s) == Moves(s, "waiting", "failed")
TimesOut(s) == Moves(s, "waiting", "failed")
ExchangeFails(s) == Moves(s, "exchanging", "failed")

ExchangeCodeForTokens(s) ==
    /\ save = Idle /\ flow[s] = "exchanging" /\ issued < MaxTokens
    /\ issued' = issued + 1
    /\ flow' = [flow EXCEPT ![s] = "saving"]
    /\ Begins(s, StoredWith(s, issued + 1))
    /\ UNCHANGED <<key, store, cache, keys, last>>

\* The SDK got a token with the client's credentials
SaveTokens(s) ==
    /\ save = Idle /\ s \notin Flowing /\ issued < MaxTokens
    /\ issued' = issued + 1
    /\ cache' = [cache EXCEPT ![s] = issued + 1]
    /\ Begins(s, StoredWith(s, issued + 1))
    /\ UNCHANGED <<key, store, flow, keys, last>>

\* `chorus mcp unauth`
ClearTokens(s) ==
    /\ save = Idle /\ LoadAuthStore # NoTokens
    /\ Begins(s, Without(s))
    /\ UNCHANGED <<key, store, flow, cache, issued, keys, last>>

-----------------------------------------------------------------------------
(* Providers                                                               *)

\* getAuthStatus, of a server whose client is in the environment
NeedsAuth(s) == s \in Flowing /\ LoadTokens(s) = None

\* A flow's provider is not built without a token, one of client
\* credentials is; what it has read it keeps, also after an unauth
BuildAuthProvider(s) ==
    /\ save = Idle /\ cache[s] = None /\ ~NeedsAuth(s)
    /\ cache' = [cache EXCEPT ![s] = LoadTokens(s)]
    /\ UNCHANGED <<key, store, save, flow, issued, keys, last>>

Crash ==
    /\ save.at = "keying" => keys < MaxKeys
    /\ cache' = [s \in Servers |-> None]
    /\ save' = Idle /\ flow' = [s \in Flowing |-> "idle"]
    /\ UNCHANGED <<key, store, issued, keys, last>>

Saves == UsesKey \/ CreatesKey \/ FillsKey \/ Renames
UNext ==
    \/ Saves
    \/ \E s \in Flowing :
          RunOAuthFlow(s) \/ Callback(s) \/ BadCallback(s) \/ TimesOut(s) \/ ExchangeFails(s)
          \/ ExchangeCodeForTokens(s)
    \/ \E s \in Servers \ Flowing : SaveTokens(s)
    \/ \E s \in Servers : ClearTokens(s) \/ BuildAuthProvider(s)
    \/ Crash

\* The process runs; between its saves it serves the timer of the callback
\* server, and the answer to its fetch
UFairness ==
    /\ WF_uvars(Saves)
    /\ \A s \in Flowing : SF_uvars(TimesOut(s)) /\ SF_uvars(ExchangeCodeForTokens(s) \/ ExchangeFails(s))
USpec == UInit /\ [][UNext]_uvars /\ UFairness

UTypeOK ==
    /\ key \in {None, Torn} \cup 1..MaxKeys /\ keys \in 0..MaxKeys /\ issued \in 0..MaxTokens
    /\ store # None => store.key \in 1..MaxKeys /\ DOMAIN store.servers \subseteq Servers
    /\ save.at \in {"idle", "key", "keying", "write"} /\ save.for \in Servers \cup {None}
    /\ \A s \in Flowing : flow[s] \in {"idle", "waiting", "exchanging", "saving", "done", "failed"}
    /\ \A s \in Servers : cache[s] \in {None} \cup 1..MaxTokens

-----------------------------------------------------------------------------
\* Wherever a crash falls, the store on disk can be decrypted with the key on
\* disk: a key is whole before anything is encrypted with it (auth.ts:35-58).
StoreReadable == store # None => Whole(key) /\ store.key = key

\* Flows that overlap, and saves a crash interrupts, never lose a token: the
\* store holds for each server what was last stored for it, and nothing that
\* was cleared (auth.ts:128-143, 389-393).
TokensKept == \A s \in Servers : LoadTokens(s) = last[s]

AuthSafe == StoreReadable /\ TokensKept

\* What must not last: an authorization that was begun.
FlowOpen(s) == flow[s] \notin {"idle", "done", "failed"}
=============================================================================
