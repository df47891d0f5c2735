------------------------------ MODULE SidHook ------------------------------
(***************************************************************************)
(* The two bridges of src/compat/w2k_veh.c that share ensure_chrome_sid_   *)
(* hook: the redirection of ConvertStringSidToSidW through the import      *)
(* tables of the executable and of chrome.dll, and GetModuleHandleEx.      *)
(* Every export first makes sure that chrome.dll is hooked, without a      *)
(* lock; conversions run at the same time, through entries that may be     *)
(* redirected already or still be resolved by the delay loader.  A         *)
(* conversion always passes WD: a numeric SID succeeds whatever the path.  *)
(***************************************************************************)
EXTENDS Integers, FiniteSets

CONSTANTS Thread,
          MaxLoads     \* bound: how often the library asked for is loaded

ASSUME SidHookAssumption == MaxLoads \in Nat \ {0}

Image == {"main", "chrome"}
Entry == Image \X {"static", "delay"}
ChromeStatic == <<"chrome", "static">>
ChromeDelay  == <<"chrome", "delay">>

VARIABLES
    imports,     \* the entries the images really have
    loaded,      \* images in the process
    attached,    \* DllMain has run
    iat,         \* what each entry points to
    original,    \* g_original_convert_string_sid_to_sid_w
    installed,   \* g_chrome_sid_hook_installed
    overrun,     \* history: the delay loader wrote over the hook
    repeated,    \* history: attach patched chrome.dll's static entry, or two threads
                 \* have been inside ensure_chrome_sid_hook at once
    owner,       \* the library GetModuleHandleEx is asked for has another user
    instance,    \* which load of it this is
    module,      \* local: the instance a thread has found
    got,         \* the instance a thread was given with a reference, or 0
    pc, export,  \* where a thread is, and which export it is in
    via          \* the entry a thread's delayed call is being resolved for

image == <<imports, loaded, attached>>
lib   == <<owner, instance, module, got>>
past  == <<overrun, repeated>>
vars  == <<image, iat, original, installed, past, lib, pc, export, via>>

Goto(t, step) == pc' = [pc EXCEPT ![t] = step]
----------------------------------------------------------------------------
(* The library is attached under the loader's lock: no export runs yet.    *)

Init ==
    /\ imports \in SUBSET Entry
    /\ loaded \in {{"main"}, Image}
    /\ attached = FALSE
    /\ iat = [e \in Entry |-> IF e[2] = "static" THEN "system" ELSE "stub"]
    /\ original = "null"
    /\ installed = FALSE
    /\ overrun = FALSE /\ repeated = FALSE
    /\ owner = TRUE /\ instance = 1
    /\ module = [t \in Thread |-> 0]
    /\ got = [t \in Thread |-> 0]
    /\ pc = [t \in Thread |-> "idle"]
    /\ export = [t \in Thread |-> "none"]
    /\ via = [t \in Thread |-> ChromeDelay]

\* A static entry is captured before VirtualProtect, which may refuse any entry.
Attach ==
    /\ ~attached
    /\ attached' = TRUE
    /\ \E patched \in SUBSET {e \in imports : e[1] \in loaded} :
          /\ iat' = [e \in Entry |-> IF e \in patched THEN "hook" ELSE iat[e]]
          /\ repeated' = (repeated \/ ChromeStatic \in patched)
    /\ original' = IF \E m \in loaded : <<m, "static">> \in imports
                   THEN "system" ELSE original
    /\ UNCHANGED <<imports, loaded, installed, overrun, lib, pc, export, via>>

LoadChrome ==
    /\ attached
    /\ loaded' = Image
    /\ UNCHANGED <<imports, attached, iat, original, installed, past, lib, pc, export, via>>
----------------------------------------------------------------------------
(* ensure_chrome_sid_hook, on the way into an export.                      *)

\* What follows in the calls on handlers is the module VEH.
AfterEnsure(f) == IF f = "veh" THEN "idle" ELSE "lookup"

Inside == {"capture", "static", "delay", "flag"}

\* Mutant: the flag is not looked at.
SkipsMissing == "chrome" \notin loaded

Skips == installed \/ "chrome" \notin loaded

Enter(t) ==
    /\ attached /\ pc[t] = "idle"
    /\ \E f \in {"veh", "unchanged", "count"} :
          /\ f = "count" => got[t] = 0
          /\ export' = [export EXCEPT ![t] = f]
          /\ Goto(t, IF Skips THEN AfterEnsure(f) ELSE "capture")
    /\ repeated' = (repeated \/ (~Skips /\ \E u \in Thread : pc[u] \in Inside))
    /\ UNCHANGED <<image, iat, original, installed, overrun, lib, via>>

\* The delay loader's stub is not captured.
CaptureStatic(t) ==
    /\ pc[t] = "capture"
    /\ IF ChromeStatic \in imports
       THEN original' = iat[ChromeStatic] /\ Goto(t, "static")
       ELSE UNCHANGED original /\ Goto(t, "delay")
    /\ UNCHANGED <<image, iat, installed, past, lib, export, via>>

\* Mutant: a refusal is taken for a patch.
BelievesPatched == "flag"

\* Where the function goes on when VirtualProtect refuses.
WhenRefused == "delay"

PatchStatic(t) ==
    /\ pc[t] = "static"
    /\ \/ iat' = [iat EXCEPT ![ChromeStatic] = "hook"] /\ Goto(t, "flag")
       \/ UNCHANGED iat /\ Goto(t, WhenRefused)
    /\ UNCHANGED <<image, original, installed, past, lib, export, via>>

PatchDelay(t) ==
    /\ pc[t] = "delay"
    /\ \/ ChromeDelay \in imports /\ iat' = [iat EXCEPT ![ChromeDelay] = "hook"] /\ Goto(t, "flag")
       \/ UNCHANGED iat /\ Goto(t, AfterEnsure(export[t]))
    /\ UNCHANGED <<image, original, installed, past, lib, export, via>>

SetInstalled(t) ==
    /\ pc[t] = "flag"
    /\ installed' = TRUE
    /\ Goto(t, AfterEnsure(export[t]))
    /\ UNCHANGED <<image, iat, original, past, lib, export, via>>
----------------------------------------------------------------------------
(* A conversion of WD by a caller in one of the images.  Windows 2000      *)
(* itself refuses WD.                                                      *)

CallImport(t) ==
    /\ attached /\ pc[t] = "idle"
    /\ \E e \in imports :
          /\ e[1] \in loaded
          /\ iat[e] # "system"                \* else the call never comes here
          /\ via' = [via EXCEPT ![t] = e]
          /\ Goto(t, IF iat[e] = "stub" THEN "resolving" ELSE "hook")
    /\ UNCHANGED <<image, iat, original, installed, past, lib, export>>

\* The delay loader writes the entry it resolved and calls the function itself.
DelayResolved(t) ==
    /\ pc[t] = "resolving"
    /\ iat' = [iat EXCEPT ![via[t]] = "system"]
    /\ overrun' = (overrun \/ iat[via[t]] = "hook")
    /\ Goto(t, "idle")
    /\ via' = [via EXCEPT ![t] = ChromeDelay]
    /\ UNCHANGED <<image, original, installed, repeated, lib, export>>

TestOriginal(t) ==
    /\ pc[t] = "hook"
    /\ Goto(t, IF original = "null" THEN "resolve" ELSE "forward")
    /\ UNCHANGED <<image, iat, original, installed, past, lib, export, via>>

\* What another thread has captured since is written over.  Without ADVAPI32 the
\* conversion fails, unless there is an original by now.
ResolveOriginal(t) ==
    /\ pc[t] = "resolve"
    /\ \/ original' = "system" /\ Goto(t, "forward")
       \/ UNCHANGED original /\ Goto(t, IF original = "null" THEN "idle" ELSE "forward")
    /\ UNCHANGED <<image, iat, installed, past, lib, export, via>>

\* WD is replaced by its SID; a hook that has itself for the original never returns.
ForwardAlias(t) ==
    /\ pc[t] = "forward"
    /\ Goto(t, IF original = "hook" THEN "overflow" ELSE "idle")
    /\ via' = [via EXCEPT ![t] = ChromeDelay]
    /\ UNCHANGED <<image, iat, original, installed, past, lib, export>>
----------------------------------------------------------------------------
(* W2KGetModuleHandleExA and W: a lookup, and unless the count is to stay  *)
(* unchanged the module's file name and LoadLibrary, three separate calls. *)
(* PIN takes the same one reference; who pins does not free it.            *)

Loaded == owner \/ \E t \in Thread : got[t] # 0

Lookup(t) ==
    /\ pc[t] = "lookup"
    /\ IF Loaded
            /\ export[t] = "count"
       THEN module' = [module EXCEPT ![t] = instance] /\ Goto(t, "path")
       ELSE UNCHANGED module /\ Goto(t, "idle")
    /\ UNCHANGED <<image, iat, original, installed, past, owner, instance, got, export, via>>

FilePath(t) ==
    /\ pc[t] = "path"
    /\ \/ Loaded /\ Goto(t, "load") /\ UNCHANGED module
       \/ /\ ~Loaded \/ module[t] # instance               \* the old handle is invalid
          /\ module' = [module EXCEPT ![t] = 0]
          /\ Goto(t, "idle")
    /\ UNCHANGED <<image, iat, original, installed, past, owner, instance, got, export, via>>

\* A library that is still there gains a reference; one that has gone since is
\* loaded again.
Fresh == IF Loaded THEN instance ELSE instance + 1

\* Mutant: the caller is given the handle that was looked up.
LookedUp(t) == module[t]

\* The caller is given what LoadLibrary returned.
Returned(t) == Fresh

LoadByPath(t) ==
    /\ pc[t] = "load"
    /\ Goto(t, "idle")
    /\ module' = [module EXCEPT ![t] = 0]
    /\ \/ /\ Fresh <= MaxLoads
          /\ instance' = Fresh
          /\ got' = [got EXCEPT ![t] = Returned(t)]
       \/ ~Loaded /\ UNCHANGED <<instance, got>>              \* LoadLibrary fails
    /\ UNCHANGED <<image, iat, original, installed, past, owner, export, via>>

FreeLibrary(t) ==
    /\ pc[t] = "idle"
    /\ got' = [got EXCEPT ![t] = 0]
    /\ UNCHANGED <<image, iat, original, installed, past, owner, instance, module, pc, export, via>>

OwnerFrees ==
    /\ owner' = FALSE
    /\ UNCHANGED <<image, iat, original, installed, past, instance, module, got, pc, export, via>>
----------------------------------------------------------------------------
Next ==
    \/ Attach \/ LoadChrome \/ OwnerFrees
    \/ \E t \in Thread :
          \/ Enter(t) \/ CaptureStatic(t) \/ PatchStatic(t) \/ PatchDelay(t) \/ SetInstalled(t)
          \/ CallImport(t) \/ DelayResolved(t)
          \/ TestOriginal(t) \/ ResolveOriginal(t) \/ ForwardAlias(t)
          \/ Lookup(t) \/ FilePath(t) \/ LoadByPath(t) \/ FreeLibrary(t)

Spec == Init /\ [][Next]_vars
----------------------------------------------------------------------------
Steps == {"idle", "capture", "static", "delay", "flag", "lookup", "path", "load",
          "resolving", "hook", "resolve", "forward", "overflow"}

TypeOK ==
    /\ imports \subseteq Entry /\ loaded \subseteq Image /\ attached \in BOOLEAN
    /\ iat \in [Entry -> {"system", "stub", "hook"}]
    /\ original \in {"null", "system", "stub", "hook"}
    /\ installed \in BOOLEAN /\ overrun \in BOOLEAN /\ repeated \in BOOLEAN /\ owner \in BOOLEAN
    /\ instance \in 1 .. MaxLoads
    /\ module \in [Thread -> 0 .. MaxLoads] /\ got \in [Thread -> 0 .. MaxLoads]
    /\ pc \in [Thread -> Steps] /\ export \in [Thread -> {"none", "veh", "unchanged", "count"}]
    /\ via \in [Thread -> Entry]

(* The hook takes itself for the original, and then calls itself without   *)
(* end, only when ensure_chrome_sid_hook reads chrome.dll's static entry   *)
(* after attach has patched it or while another thread is inside the       *)
(* function; one run after the other, and however VirtualProtect answers,  *)
(* never does.  The delay loader's stub is never the original.             *)
CapturesItselfOnlyOnRepeat ==
    /\ original # "stub"
    /\ \A t \in Thread :
          original = "hook" \/ pc[t] = "overflow" => ChromeStatic \in imports /\ repeated

(* Once ensure_chrome_sid_hook has reported success chrome.dll reaches     *)
(* Windows, which refuses WD, through no entry it imports, unless a delay  *)
(* resolution that began before wrote over the hook, or chrome.dll has     *)
(* both entries, of which ensure_chrome_sid_hook patches one.              *)
InstalledIsHooked ==
    LET chrome == imports \cap {ChromeStatic, ChromeDelay}
    IN  installed => \/ overrun
                     \/ Cardinality(chrome) = 2
                     \/ \A e \in chrome : iat[e] = "hook"

(* A handle that W2KGetModuleHandleEx returned with a reference is that of *)
(* the library as it is loaded now, although the library may be unloaded   *)
(* and come back between the three calls the function makes.               *)
HandleIsLive == \A t \in Thread : got[t] # 0 => got[t] = instance
============================================================================
