----------------------------- MODULE MCCheckout -----------------------------
(***************************************************************************)
(* The texts an operator may put in the environment: three environments    *)
(* that are accepted and everything one or two of the interesting changes  *)
(* away from them.                                                         *)
(***************************************************************************)
EXTENDS Checkout, TLC

\* Four accounts, each with its checksummed text and others.
SomeAddress == "0xPayee" :> "payee" @@ "0XPAYEE" :> "payee" @@ "Payee" :> "payee" @@
               "0xUsdc" :> "usdc" @@ "0XUSDC" :> "usdc" @@ "Usdc" :> "usdc" @@
               "0xAlice" :> "alice" @@ "0xalice" :> "alice" @@
               "0xBob" :> "bob" @@ "Bob" :> "bob"

SomeHex == "payee" :> "0xPayee" @@ "usdc" :> "0xUsdc" @@
           "alice" :> "0xAlice" @@ "bob" :> "0xBob"

SomeLower == "0xPayee" :> "0xpayee" @@ "0XPAYEE" :> "0xpayee" @@ "Payee" :> "payee" @@
             "0xUsdc" :> "0xusdc" @@ "0xAlice" :> "0xalice" @@ "0xBob" :> "0xbob" @@
             "Solana" :> "solana"

SomeInts == "-1" :> -1 @@ "0" :> 0 @@ "60" :> 60 @@ "8453" :> 8453 @@ "7" :> 7

SomeBools == "true" :> TRUE @@ "0" :> FALSE

SomeFloats == "-1" :> "negative" @@ "0" :> "zero" @@ "1.5" :> "positive" @@
              "+Inf" :> "inf" @@ "NaN" :> "nan"

Usdcs == 8453 :> "0xUsdc" @@ 84532 :> "0xUsdc"

Names == 8453 :> "USD Coin" @@ 84532 :> "USDC"

Rpcs == 8453 :> "base" @@ 84532 :> "sepolia"

Clusters == "devnet" :> "devnet-node"

Unset == [k \in DOMAIN Limits \cup
            {"PAYMENT_CHAIN", "CHAIN_ID", "DRY_RUN", "GAS_PRIVATE_KEY", "USDC_ADDRESS",
             "USDC_NAME", "USDC_VERSION", "RPC_URL", "SOLANA_CLUSTER",
             "SOLANA_CONFIRMATION", "MARKUP", "UPSTREAM_URL", "UPSTREAM_TOKEN",
             "PAY_TO_ADDRESS"} |-> ""]

Live == [Unset EXCEPT !["UPSTREAM_URL"] = "url", !["UPSTREAM_TOKEN"] = "token",
                      !["PAY_TO_ADDRESS"] = "0xPayee", !["GAS_PRIVATE_KEY"] = "key"]

Dry == [Live EXCEPT !["DRY_RUN"] = "true", !["GAS_PRIVATE_KEY"] = ""]

OnSolana == [Live EXCEPT !["PAYMENT_CHAIN"] = "Solana", !["PAY_TO_ADDRESS"] = "So1",
                         !["USDC_ADDRESS"] = "So2", !["GAS_PRIVATE_KEY"] = ""]

\* What each variable may be set to instead.  Of the limits only the lifetime of
\* a signature is seen by anybody after Load.
Texts ==
    [SIG_TIMEOUT_SECS |-> {"-1", "0", "60", "junk"}] @@
    [k \in DOMAIN Limits |-> {"-1", "0", "junk"}] @@
    [PAYMENT_CHAIN |-> {"evm", "Solana", "junk"},
     CHAIN_ID |-> {"8453", "7", "0", "-1", "junk"},
     DRY_RUN |-> {"true", "0", "junk"},
     GAS_PRIVATE_KEY |-> {"", "key", "junk"},
     USDC_ADDRESS |-> {"", "0XUSDC", "Usdc", "So2", "junk"},
     USDC_NAME |-> {"Token"},
     USDC_VERSION |-> {"1"},
     RPC_URL |-> {"wss", "node", "junk"},
     SOLANA_CLUSTER |-> {"devnet", "junk"},
     SOLANA_CONFIRMATION |-> {"finalized", "junk"},
     MARKUP |-> DOMAIN SomeFloats \cup {"junk"},
     UPSTREAM_URL |-> {"", "/"},
     UPSTREAM_TOKEN |-> {""},
     PAY_TO_ADDRESS |-> {"", "0XPAYEE", "Payee", "So1", "junk"}]

Changed(e) == UNION {{[e EXCEPT ![k] = t] : t \in Texts[k]} : k \in DOMAIN Texts}

\* The variables that interact: the token, the chain and the payee.
Targets == {"CHAIN_ID", "USDC_ADDRESS", "PAY_TO_ADDRESS"}

Retargeted(e) ==
    UNION {{[e EXCEPT ![k] = s, ![l] = t] : s \in Texts[k], t \in Texts[l]} :
               k \in Targets, l \in Targets}

SomeEnvs == {Live, Dry, OnSolana} \cup Changed(Live) \cup Changed(OnSolana)
                \cup Retargeted(Live)

\* A new file, one of the release without cached_input, one of this release.
SomeDatabases == {{}, Objects \ {"cached_input"}, Objects}
=============================================================================
