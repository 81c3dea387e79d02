---- MODULE Stores ----
(***************************************************************************)
(* Five things the server keeps and does not own alone: the settings file, *)
(* the ledger of what was spent, the cache of answers, the buckets of a    *)
(* public demo and the shelf of operation plans.  None of them reads       *)
(* another: a behaviour of this module is a behaviour of one of them, and  *)
(* the rest stands still.                                                  *)
(***************************************************************************)
EXTENDS Settings, SpendLedger, AnswerCache, Kiosk, Operations

VARIABLE part       \* the one that moves

storesVars == <<part, settingsVars, ledgerVars, cacheVars, kioskVars, opsVars>>

StoresInit ==
    /\ part \in {"settings", "ledger", "cache", "kiosk", "plans"}
    /\ SettingsInit /\ LedgerInit /\ CacheInit /\ KioskInit /\ OpsInit

StoresNext ==
    /\ UNCHANGED part
    /\ \/ part = "settings" /\ SettingsNext
          /\ UNCHANGED <<ledgerVars, cacheVars, kioskVars, opsVars>>
       \/ part = "ledger" /\ LedgerNext /\ UNCHANGED <<settingsVars, cacheVars, kioskVars, opsVars>>
       \/ part = "cache" /\ CacheNext /\ UNCHANGED <<settingsVars, ledgerVars, kioskVars, opsVars>>
       \/ part = "kiosk" /\ KioskNext /\ UNCHANGED <<settingsVars, ledgerVars, cacheVars, opsVars>>
       \/ part = "plans" /\ OpsNext /\ UNCHANGED <<settingsVars, ledgerVars, cacheVars, kioskVars>>

StoresSpec == StoresInit /\ [][StoresNext]_storesVars
====
