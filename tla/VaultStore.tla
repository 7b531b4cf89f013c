------------------------------ MODULE VaultStore ------------------------------
(***************************************************************************)
(* The credential vault (vault/) and the commands that edit it             *)
(* (cli vault-command.ts).                                                 *)
(*                                                                         *)
(* vault.db holds a data key wrapped by the master password, secrets       *)
(* sealed by the data key, substitution rules and scoped tokens; vault.env *)
(* holds the placeholders programs see instead.  Every command is a        *)
(* process of its own on the same file: it checks, asks for the password,  *)
(* derives a key for a good while and only then writes.  The proxy         *)
(* verifies a token when a tunnel opens and substitutes secrets when the   *)
(* request in the tunnel arrives.                                          *)
(***************************************************************************)
EXTENDS Naturals, FiniteSets

CONSTANTS
    SecretNames, Hosts, Passwords,
    Operators,    \* who run commands; each runs one at a time
    MaxDeks,      \* bound: data keys made
    MaxVals,      \* bound: values a secret is given
    MaxTokens, MaxTunnels, MaxRules, \* bounds
    MaxCommands   \* bound: two-step commands run

VARIABLES
    meta,     \* vault_meta: the password that unwraps the data key, and the key (0: none)
    secrets,  \* vault_secrets: each name's value (0: none) and the key that sealed it
    rules,    \* vault_rules: <<host or "*", secret>>
    vaultEnv, \* names with a placeholder in vault.env
    tokens,   \* vault_tokens
    tunnels,  \* CONNECT tunnels of the proxy
    commands, \* each operator's command that waits for its password or derives a key
    deks, ranCommands
vaultVars == <<meta, secrets, rules, vaultEnv, tokens, tunnels, commands, deks, ranCommands>>

NoVaultCommand == [kind |-> "none"]
FreeToken == [at |-> "none", hosts |-> {}, names |-> {}]
FreeTunnel == [at |-> "none", token |-> 0, host |-> "none", got |-> {}]

VaultInit ==
    /\ meta = [pw |-> "none", dek |-> 0]
    /\ secrets = [s \in SecretNames |-> [val |-> 0, dek |-> 0]]
    /\ rules = {} /\ vaultEnv = {}
    /\ tokens = [t \in 1..MaxTokens |-> FreeToken]
    /\ tunnels = [c \in 1..MaxTunnels |-> FreeTunnel]
    /\ commands = [o \in Operators |-> NoVaultCommand] /\ deks = 0 /\ ranCommands = 0

Initialised == meta.dek # 0
Unseals(pw) == Initialised /\ pw = meta.pw
Kept == UNCHANGED <<tunnels, deks, ranCommands>>

(* A command checks the file, then waits for its password.                 *)
Begins(o, c) ==
    /\ commands[o] = NoVaultCommand /\ ranCommands < MaxCommands
    /\ commands' = [commands EXCEPT ![o] = c] /\ ranCommands' = ranCommands + 1
    /\ UNCHANGED <<meta, secrets, rules, vaultEnv, tokens, tunnels, deks>>
(* The last thing a command does; its data key stays what it read or made. *)
Ends(o, newMeta) ==
    /\ meta' = newMeta /\ commands' = [commands EXCEPT ![o] = NoVaultCommand]
    /\ UNCHANGED <<secrets, rules, vaultEnv, tokens, tunnels, deks, ranCommands>>

(* vault init: refused when the file is initialised, before the prompt     *)
(* and again by initVault(), which then derives a key and only then        *)
(* writes.                                                                 *)
InitAsked(o, pw) == ~Initialised /\ Begins(o, [kind |-> "init", pw |-> pw])
InitDerives(o) ==
    /\ commands[o].kind = "init" /\ ~Initialised /\ deks < MaxDeks
    /\ deks' = deks + 1
    /\ commands' = [commands EXCEPT ![o] = [kind |-> "wrap", pw |-> @.pw, dek |-> deks + 1]]
    /\ UNCHANGED <<meta, secrets, rules, vaultEnv, tokens, tunnels, ranCommands>>
InitRefused(o) == commands[o].kind = "init" /\ Initialised /\ Ends(o, meta)

(* vault change-password: unseal with the old one, wrap the same key.      *)
ChangeAsked(o, old, new) == Initialised /\ Begins(o, [kind |-> "change", pw |-> old, new |-> new])
FreshKey == deks + 1
RewrapKey == meta.dek
ChangeDerives(o) ==
    /\ commands[o].kind = "change" /\ Unseals(commands[o].pw)
    /\ commands' = [commands EXCEPT ![o] = [kind |-> "wrap", pw |-> @.new, dek |-> RewrapKey]]
    /\ UNCHANGED <<meta, secrets, rules, vaultEnv, tokens, tunnels, deks, ranCommands>>
ChangeRefused(o) == commands[o].kind = "change" /\ ~Unseals(commands[o].pw) /\ Ends(o, meta)
MetaWritten(o) == commands[o].kind = "wrap" /\ Ends(o, [pw |-> commands[o].pw, dek |-> commands[o].dek])

(* putSecret() seals under the key the command unsealed.                   *)
Put(s, v) == [secrets EXCEPT ![s] = [val |-> v, dek |-> meta.dek]]
NextVal(s) == secrets[s].val + 1
(* vault put, and vault import-env --overwrite without --emit.             *)
VaultPut(s, pw) ==
    /\ Initialised /\ NextVal(s) <= MaxVals
    /\ secrets' = IF Unseals(pw) THEN Put(s, NextVal(s)) ELSE secrets
    /\ UNCHANGED <<meta, rules, vaultEnv, tokens, commands>> /\ Kept

AddRule(r) == rules \cup {r}
(* vault add: the secret, its rule, its placeholder, in this order; a host *)
(* or target addRule() rejects ends the command after the secret.          *)
VaultAdd(s, h, pw, valid) ==
    /\ Unseals(pw) /\ NextVal(s) <= MaxVals /\ secrets' = Put(s, NextVal(s))
    /\ rules' = (IF valid THEN AddRule(<<h, s>>) ELSE rules) /\ Cardinality(rules') <= MaxRules
    /\ vaultEnv' = IF valid THEN vaultEnv \cup {s} ELSE vaultEnv
    /\ UNCHANGED <<meta, tokens, commands>> /\ Kept

(* vault import-env --emit and step 2 of vault setup: secrets that are not *)
(* there, then vault.env as a whole, then the rules.                       *)
Import(S) == [s \in SecretNames |-> IF s \in S /\ secrets[s].val = 0 THEN [val |-> 1, dek |-> meta.dek] ELSE secrets[s]]
VaultImport(S, pw) ==
    /\ S # {} /\ Unseals(pw) /\ secrets' = Import(S)
    /\ vaultEnv' = S /\ rules' = rules \cup {<<"*", s>> : s \in S} /\ Cardinality(rules') <= MaxRules
    /\ UNCHANGED <<meta, tokens, commands>> /\ Kept

(* vault rm leaves the rule and the placeholder; vault rule add and rm.    *)
VaultRm(s) ==
    /\ secrets[s].val # 0 /\ secrets' = [secrets EXCEPT ![s] = [val |-> 0, dek |-> 0]]
    /\ UNCHANGED <<meta, rules, vaultEnv, tokens, commands>> /\ Kept
RemoveRule(r) == rules \ {r}
RuleEdit(r) ==
    /\ Initialised /\ rules' = IF r \in rules THEN RemoveRule(r) ELSE AddRule(r)
    /\ Cardinality(rules') <= MaxRules
    /\ UNCHANGED <<meta, secrets, vaultEnv, tokens, commands>> /\ Kept

(* Tokens: vault token mint with a scope, or the scope that the rules      *)
(* give (setup, vault run); expiry; vault token revoke and the end of a    *)
(* vault run.                                                              *)
RuleScope == IF rules = {} THEN [hosts |-> {"*"}, names |-> {"*"}]
             ELSE [hosts |-> {r[1] : r \in rules}, names |-> {r[2] : r \in rules}]
MintToken(t, scope) == [tokens EXCEPT ![t] = [at |-> "live", hosts |-> scope.hosts, names |-> scope.names]]
Mint(scope) ==
    /\ Initialised
    /\ \E t \in 1..MaxTokens :
         /\ tokens[t].at = "none" /\ \A u \in 1..(t - 1) : tokens[u].at # "none"
         /\ tokens' = MintToken(t, scope)
    /\ UNCHANGED <<meta, secrets, rules, vaultEnv, commands>> /\ Kept
VerifyToken(t) == tokens[t].at = "live"   \* neither expired nor revoked
TokenEnds(t, how) ==
    /\ VerifyToken(t) /\ tokens' = [tokens EXCEPT ![t].at = how]
    /\ UNCHANGED <<meta, secrets, rules, vaultEnv, commands>> /\ Kept

(* handleConnect(): verifyToken, then hostMatchesScope.                    *)
Matches(x, patterns) == "*" \in patterns \/ x \in patterns
Verifies(t, h) == VerifyToken(t) /\ Matches(h, tokens[t].hosts)
TunnelOpens(c, t, h) ==
    /\ tunnels[c].at = "none" /\ Verifies(t, h)
    /\ tunnels' = [tunnels EXCEPT ![c] = [at |-> "open", token |-> t, host |-> h, got |-> {}]]
    /\ UNCHANGED <<meta, secrets, rules, vaultEnv, tokens, commands, deks, ranCommands>>

(* handleDecryptedRequest(): each rule of the host whose secret is in the  *)
(* token's scope and in the vault replaces its placeholder.                *)
BrokerHas(s) == secrets[s].val # 0
MatchRule(h) == {r \in rules : r[1] \in {"*", h}}
SubstitutesAll(c) == {s \in SecretNames : BrokerHas(s) /\ \E r \in MatchRule(tunnels[c].host) : r[2] = s}
Substitutes(c) == {s \in SubstitutesAll(c) : Matches(s, tokens[tunnels[c].token].names)}
RequestForwarded(c) ==
    /\ tunnels[c].at = "open" /\ tunnels' = [tunnels EXCEPT ![c].at = "done", ![c].got = Substitutes(c)]
    /\ UNCHANGED <<meta, secrets, rules, vaultEnv, tokens, commands, deks, ranCommands>>

(* A socket that closes before its headers end, or headers the proxy       *)
(* rejects.                                                                *)
RequestRefused(c) ==
    /\ tunnels[c].at = "open" /\ tunnels' = [tunnels EXCEPT ![c].at = "refused"]
    /\ UNCHANGED <<meta, secrets, rules, vaultEnv, tokens, commands, deks, ranCommands>>

Patterns == Hosts \cup {"*"}
VaultNext ==
    \/ Mint(RuleScope)
    \/ \E o \in Operators : InitDerives(o) \/ InitRefused(o) \/ ChangeDerives(o) \/ ChangeRefused(o) \/ MetaWritten(o)
    \/ \E o \in Operators, pw \in Passwords : InitAsked(o, pw) \/ \E new \in Passwords : ChangeAsked(o, pw, new)
    \/ \E s \in SecretNames, pw \in Passwords : VaultPut(s, pw) \/ \E h \in Patterns, ok \in BOOLEAN : VaultAdd(s, h, pw, ok)
    \/ \E S \in SUBSET SecretNames, pw \in Passwords : VaultImport(S, pw)
    \/ \E s \in SecretNames : VaultRm(s) \/ \E h \in Patterns : RuleEdit(<<h, s>>) \/ Mint([hosts |-> {h}, names |-> {s}])
    \/ \E t \in 1..MaxTokens, how \in {"revoked", "expired"} : TokenEnds(t, how)
    \/ \E c \in 1..MaxTunnels : RequestForwarded(c) \/ RequestRefused(c) \/ \E t \in 1..MaxTokens, h \in Hosts : TunnelOpens(c, t, h)
-----------------------------------------------------------------------------
(* Every secret in the vault can be read: it is sealed by the key the      *)
(* master password unwraps now, after any sequence of rotations, imports   *)
(* and edits ("re-wraps DEK; secrets untouched", vault-command.ts:1654).   *)
SecretsReadable == \A s \in SecretNames : secrets[s].val # 0 => secrets[s].dek = meta.dek

(* What a request carried out is within the scope of its token, in both    *)
(* dimensions at once: the host it went to and the secrets put in          *)
(* (proxy.ts applyRule 81-92, handleConnect 393-430).                      *)
ForwardedInScope == \A c \in 1..MaxTunnels : tunnels[c].at = "done" =>
    /\ Matches(tunnels[c].host, tokens[tunnels[c].token].hosts)
    /\ \A s \in tunnels[c].got : Matches(s, tokens[tunnels[c].token].names)

=============================================================================
