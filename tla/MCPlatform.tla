----------------------------- MODULE MCPlatform ------------------------------
(***************************************************************************)
(* Runs the modules around the trading loop: each behaviour takes the steps*)
(* of one of them.  They run in processes of their own and share no state, *)
(* so one run checks them side by side.                                    *)
(***************************************************************************)
EXTENDS CandleStore, SchemaBootstrap, EventStream, DesktopShell,
        ModelDeploy, MarketFeed, MlService

VARIABLE part   \* the module whose steps this behaviour takes

parts == {"candles", "schema", "events", "shell", "models", "feed", "ml service"}
platformVars == <<part, candleVars, schemaVars, eventVars, shellVars, deployVars, feedVars, mlVars>>

PlatformInit ==
    /\ part \in parts
    /\ CandleStoreInit
    /\ SchemaInit
    /\ EventStreamInit
    /\ ShellInit
    /\ ModelDeployInit
    /\ FeedInit
    /\ MlInit
    \* what a part that takes no steps starts from is fixed
    /\ part # "shell" => platform = "posix" /\ service[Other] = "none"
    /\ part # "feed" => symbols = FeedSymbols

PlatformNext ==
    \/ part = "candles" /\ CandleStoreNext
       /\ UNCHANGED <<part, schemaVars, eventVars, shellVars, deployVars, feedVars, mlVars>>
    \/ part = "schema" /\ SchemaNext
       /\ UNCHANGED <<part, candleVars, eventVars, shellVars, deployVars, feedVars, mlVars>>
    \/ part = "events" /\ EventStreamNext
       /\ UNCHANGED <<part, candleVars, schemaVars, shellVars, deployVars, feedVars, mlVars>>
    \/ part = "shell" /\ ShellNext
       /\ UNCHANGED <<part, candleVars, schemaVars, eventVars, deployVars, feedVars, mlVars>>
    \/ part = "models" /\ ModelDeployNext
       /\ UNCHANGED <<part, candleVars, schemaVars, eventVars, shellVars, feedVars, mlVars>>
    \/ part = "feed" /\ FeedNext
       /\ UNCHANGED <<part, candleVars, schemaVars, eventVars, shellVars, deployVars, mlVars>>
    \/ part = "ml service" /\ MlNext
       /\ UNCHANGED <<part, candleVars, schemaVars, eventVars, shellVars, deployVars, feedVars>>

PlatformSpec == PlatformInit /\ [][PlatformNext]_platformVars

(* Every module's state has its type through all of its steps.             *)
PlatformTypeOK ==
    /\ CandleStoreTypeOK
    /\ SchemaTypeOK
    /\ EventStreamTypeOK
    /\ ShellTypeOK
    /\ ModelDeployTypeOK
    /\ MarketFeedTypeOK
    /\ MlServiceTypeOK
=============================================================================
