--------------------------- MODULE SidHook_proofs ---------------------------
(***************************************************************************)
(* What the runs of SidHook show of two threads and two loads, for every   *)
(* set of threads and every number of loads.                               *)
(***************************************************************************)
EXTENDS SidHook, FiniteSetTheorems, TLAPS

(* The delay loader touches delay-loaded entries only, so that a static    *)
(* entry, once patched, stays patched.                                     *)
StubsAreDelayed ==
    /\ \A e \in Entry : iat[e] = "stub" => e[2] = "delay"
    /\ \A t \in Thread : pc[t] = "resolving" => via[t][2] = "delay"

StaticExists == \A t \in Thread : pc[t] = "static" => ChromeStatic \in imports

(* InstalledIsHooked of the threads that are about to set the flag as      *)
(* well, with the entries by name instead of counted.                      *)
FlagIsHooked ==
    installed \/ (\E t \in Thread : pc[t] = "flag") =>
       \/ overrun
       \/ {ChromeStatic, ChromeDelay} \subseteq imports
       \/ \A e \in imports \cap {ChromeStatic, ChromeDelay} : iat[e] = "hook"

(* As long as nothing was repeated a thread is alone inside ensure_chrome_ *)
(* sid_hook, nobody is inside once the flag is set, and the static entry   *)
(* of chrome.dll is patched only when the flag is set or is about to be.   *)
OnceOnly ==
    ~repeated =>
       /\ \A t, u \in Thread : pc[t] \in Inside /\ pc[u] \in Inside => t = u
       /\ installed => \A t \in Thread : pc[t] \notin Inside
       /\ iat[ChromeStatic] = "hook" => installed \/ \E t \in Thread : pc[t] = "flag"

HookInv ==
    /\ TypeOK
    /\ StubsAreDelayed
    /\ StaticExists
    /\ OnceOnly
    /\ CapturesItselfOnlyOnRepeat
    /\ FlagIsHooked
    /\ HandleIsLive
-----------------------------------------------------------------------------
(* The four entries are pairs of an image and a kind of import.            *)
LEMMA Entries ==
    /\ ChromeStatic \in Entry /\ ChromeDelay \in Entry
    /\ ChromeStatic # ChromeDelay
    /\ ChromeStatic[2] = "static" /\ ChromeDelay[2] = "delay"
    /\ ChromeStatic[1] = "chrome" /\ ChromeDelay[1] = "chrome"
BY DEF Entry, Image, ChromeStatic, ChromeDelay

(* An entry that is patched stays patched, unless the delay loader writes  *)
(* over it; then overrun says so.                                          *)
Kept == \A e \in Entry : iat[e] = "hook" => iat'[e] = "hook" \/ (overrun' /\ e[2] = "delay")

(* chrome.dll's two entries are two.                                       *)
LEMMA BothAreTwo ==
    ASSUME {ChromeStatic, ChromeDelay} \subseteq imports
    PROVE  Cardinality(imports \cap {ChromeStatic, ChromeDelay}) = 2
<1>1. imports \cap {ChromeStatic, ChromeDelay} = {ChromeStatic} \cup {ChromeDelay}
  OBVIOUS
<1>2. IsFiniteSet({ChromeStatic}) /\ Cardinality({ChromeStatic}) = 1
  BY FS_Singleton
<1>3. ChromeDelay \notin {ChromeStatic}
  BY Entries
<1>4. Cardinality({ChromeStatic} \cup {ChromeDelay}) = Cardinality({ChromeStatic}) + 1
  BY <1>2, <1>3, FS_AddElement
<1> QED
  BY <1>1, <1>2, <1>4
-----------------------------------------------------------------------------
(* When the process starts no thread is in an export.                      *)
LEMMA InitHolds == Init => HookInv
<1> SUFFICES ASSUME Init PROVE HookInv
  OBVIOUS
<1> USE DEF Init
<1>1. TypeOK
  <2>1. /\ iat \in [Entry -> {"system", "stub", "hook"}]
        /\ via \in [Thread -> Entry]
    BY Entries
  <2>2. /\ pc \in [Thread -> Steps]
        /\ export \in [Thread -> {"none", "veh", "unchanged", "count"}]
    BY DEF Steps
  <2>3. /\ instance \in 1 .. MaxLoads
        /\ module \in [Thread -> 0 .. MaxLoads]
        /\ got \in [Thread -> 0 .. MaxLoads]
    BY SidHookAssumption
  <2>4. loaded \subseteq Image
    BY DEF Image
  <2> QED BY <2>1, <2>2, <2>3, <2>4 DEF TypeOK
<1>2. StubsAreDelayed
  <2>1. \A e \in Entry : iat[e] = "stub" => e[2] = "delay"
    BY DEF Entry
  <2> QED BY <2>1 DEF StubsAreDelayed
<1>3. StaticExists /\ OnceOnly /\ CapturesItselfOnlyOnRepeat
  BY Entries DEF StaticExists, OnceOnly, Inside, CapturesItselfOnlyOnRepeat
<1>4. FlagIsHooked /\ HandleIsLive
  BY DEF FlagIsHooked, HandleIsLive
<1> QED BY <1>1, <1>2, <1>3, <1>4 DEF HookInv

(* No step leaves the types.                                               *)
LEMMA TypeHolds == HookInv /\ [Next]_vars => TypeOK'
<1> SUFFICES ASSUME HookInv, [Next]_vars PROVE TypeOK'
  OBVIOUS
<1> USE SidHookAssumption, Entries DEF HookInv, TypeOK, Goto, Steps, past
<1>1. CASE Attach
  <2>1. iat' \in [Entry -> {"system", "stub", "hook"}]
    BY <1>1 DEF Attach
  <2>2. /\ original' \in {"null", "system", "stub", "hook"}
        /\ attached' \in BOOLEAN /\ repeated' \in BOOLEAN
    BY <1>1 DEF Attach
  <2> QED BY <1>1, <2>1, <2>2 DEF Attach, lib
<1>0. CASE LoadChrome \/ OwnerFrees
  <2>1. loaded' \subseteq Image /\ owner' \in BOOLEAN
    BY <1>0 DEF LoadChrome, OwnerFrees, image, lib
  <2> QED BY <1>0, <2>1 DEF LoadChrome, OwnerFrees, lib, image
<1>2. ASSUME NEW t \in Thread, Enter(t) PROVE TypeOK'
  <2>1. repeated' \in BOOLEAN
    BY <1>2 DEF Enter
  <2> QED BY <1>2, <2>1 DEF Enter, AfterEnsure, lib, image
<1>3. ASSUME NEW t \in Thread, CaptureStatic(t) PROVE TypeOK'
  <2>1. original' \in {"null", "system", "stub", "hook"}
    BY <1>3 DEF CaptureStatic
  <2> QED BY <1>3, <2>1 DEF CaptureStatic, lib, image
<1>4. ASSUME NEW t \in Thread, PatchStatic(t) PROVE TypeOK'
  BY <1>4 DEF PatchStatic, WhenRefused, lib, image
<1>5. ASSUME NEW t \in Thread, PatchDelay(t) PROVE TypeOK'
  BY <1>5 DEF PatchDelay, AfterEnsure, lib, image
<1>6. ASSUME NEW t \in Thread, SetInstalled(t) PROVE TypeOK'
  BY <1>6 DEF SetInstalled, AfterEnsure, lib, image
<1>7. ASSUME NEW t \in Thread, CallImport(t) PROVE TypeOK'
  BY <1>7 DEF CallImport, lib, image
<1>8. ASSUME NEW t \in Thread, DelayResolved(t) PROVE TypeOK'
  BY <1>8 DEF DelayResolved, lib, image
<1>9. ASSUME NEW t \in Thread, TestOriginal(t) \/ ResolveOriginal(t) PROVE TypeOK'
  BY <1>9 DEF TestOriginal, ResolveOriginal, lib, image
<1>10. ASSUME NEW t \in Thread, ForwardAlias(t) PROVE TypeOK'
  BY <1>10 DEF ForwardAlias, lib, image
<1>11. ASSUME NEW t \in Thread, Lookup(t) PROVE TypeOK'
  BY <1>11 DEF Lookup, image
<1>12. ASSUME NEW t \in Thread, FilePath(t) PROVE TypeOK'
  BY <1>12 DEF FilePath, image
<1>13. ASSUME NEW t \in Thread, LoadByPath(t) PROVE TypeOK'
  <2>1. CASE UNCHANGED <<instance, got>>
    BY <1>13, <2>1 DEF LoadByPath, image
  <2>2. CASE /\ Fresh <= MaxLoads
             /\ instance' = Fresh
             /\ got' = [got EXCEPT ![t] = Returned(t)]
    <3>1. Fresh \in 1 .. MaxLoads
      BY <2>2 DEF Fresh
    <3> QED BY <1>13, <2>2, <3>1 DEF LoadByPath, Returned, image
  <2> QED BY <1>13, <2>1, <2>2 DEF LoadByPath
<1>14. ASSUME NEW t \in Thread, FreeLibrary(t) PROVE TypeOK'
  BY <1>14 DEF FreeLibrary, image
<1>15. CASE UNCHANGED vars
  BY <1>15 DEF vars, lib, image
<1> QED
  BY <1>0, <1>1, <1>2, <1>3, <1>4, <1>5, <1>6, <1>7, <1>8, <1>9, <1>10, <1>11,
     <1>12, <1>13, <1>14, <1>15 DEF Next
-----------------------------------------------------------------------------
(* A handle that was given out stays that of the library as it is loaded:  *)
(* only a library that nobody has a reference to is loaded anew.           *)
LEMMA HandleStaysLive == HookInv /\ [Next]_vars => HandleIsLive'
<1> SUFFICES ASSUME HookInv, [Next]_vars PROVE HandleIsLive'
  OBVIOUS
<1> USE DEF HookInv, TypeOK, HandleIsLive
<1>1. ASSUME NEW t \in Thread, LoadByPath(t) PROVE HandleIsLive'
  <2>1. CASE UNCHANGED <<instance, got>>
    BY <2>1
  <2>2. CASE instance' = Fresh /\ got' = [got EXCEPT ![t] = Fresh]
    <3>1. \A s \in Thread : got[s] # 0 => Fresh = got[s]
      BY DEF Fresh, Loaded
    <3> QED BY <2>2, <3>1
  <2> QED BY <1>1, <2>1, <2>2 DEF LoadByPath, Returned
<1>2. ASSUME NEW t \in Thread, FreeLibrary(t) PROVE HandleIsLive'
  BY <1>2 DEF FreeLibrary
<1>3. CASE UNCHANGED <<instance, got>>
  BY <1>3
<1> QED
  BY <1>1, <1>2, <1>3
  DEF Next, Attach, LoadChrome, OwnerFrees, Enter, CaptureStatic, PatchStatic,
      PatchDelay, SetInstalled, CallImport, DelayResolved, TestOriginal, ResolveOriginal,
      ForwardAlias, Lookup, FilePath, vars, lib

(* Static entries are never stubs, and only the delay loader's own entries *)
(* are written back.                                                       *)
LEMMA StubsStayDelayed == HookInv /\ [Next]_vars => StubsAreDelayed' /\ StaticExists' /\ Kept
<1> SUFFICES ASSUME HookInv, [Next]_vars PROVE StubsAreDelayed' /\ StaticExists' /\ Kept
  OBVIOUS
<1> USE Entries DEF HookInv, TypeOK, StubsAreDelayed, StaticExists, Kept, Goto, Steps
<1>1. CASE Attach
  BY <1>1 DEF Attach
<1>2. CASE LoadChrome \/ OwnerFrees
  BY <1>2 DEF LoadChrome, OwnerFrees, image
<1>3. ASSUME NEW t \in Thread, Enter(t) PROVE StubsAreDelayed' /\ StaticExists' /\ Kept
  BY <1>3 DEF Enter, AfterEnsure, image
<1>4. ASSUME NEW t \in Thread, CaptureStatic(t) PROVE StubsAreDelayed' /\ StaticExists' /\ Kept
  BY <1>4 DEF CaptureStatic, image
<1>5. ASSUME NEW t \in Thread, PatchStatic(t) PROVE StubsAreDelayed' /\ StaticExists' /\ Kept
  BY <1>5 DEF PatchStatic, WhenRefused, image
<1>6. ASSUME NEW t \in Thread, PatchDelay(t) PROVE StubsAreDelayed' /\ StaticExists' /\ Kept
  BY <1>6 DEF PatchDelay, AfterEnsure, image
<1>7. ASSUME NEW t \in Thread, SetInstalled(t) PROVE StubsAreDelayed' /\ StaticExists' /\ Kept
  BY <1>7 DEF SetInstalled, AfterEnsure, image
<1>8. ASSUME NEW t \in Thread, CallImport(t) PROVE StubsAreDelayed' /\ StaticExists' /\ Kept
  BY <1>8 DEF CallImport, image
<1>9. ASSUME NEW t \in Thread, DelayResolved(t) PROVE StubsAreDelayed' /\ StaticExists' /\ Kept
  BY <1>9 DEF DelayResolved, image
<1>10. ASSUME NEW t \in Thread, TestOriginal(t) \/ ResolveOriginal(t) \/ ForwardAlias(t)
       PROVE  StubsAreDelayed' /\ StaticExists' /\ Kept
  BY <1>10 DEF TestOriginal, ResolveOriginal, ForwardAlias, image
<1>11. ASSUME NEW t \in Thread, Lookup(t) \/ FilePath(t) \/ LoadByPath(t)
       PROVE  StubsAreDelayed' /\ StaticExists' /\ Kept
  BY <1>11 DEF Lookup, FilePath, LoadByPath, image
<1>12. ASSUME NEW t \in Thread, FreeLibrary(t) PROVE StubsAreDelayed' /\ StaticExists' /\ Kept
  BY <1>12 DEF FreeLibrary, image
<1>13. CASE UNCHANGED vars
  BY <1>13 DEF vars, image
<1> QED
  BY <1>1, <1>2, <1>3, <1>4, <1>5, <1>6, <1>7, <1>8, <1>9, <1>10, <1>11, <1>12, <1>13 DEF Next

(* A step of a thread that is not inside and stays out disturbs nothing.   *)
LEMMA OutsideKeeps ==
    ASSUME TypeOK, OnceOnly, NEW t \in Thread, NEW x,
           pc[t] \notin Inside, x \notin Inside, pc' = [pc EXCEPT ![t] = x],
           UNCHANGED <<installed, repeated>>, iat'[ChromeStatic] = iat[ChromeStatic]
    PROVE  OnceOnly'
<1>1. \A u \in Thread : u # t => pc'[u] = pc[u]
  BY DEF TypeOK
<1>2. pc'[t] \notin Inside
  BY DEF TypeOK
<1>3. pc[t] # "flag"
  BY DEF Inside
<1> QED BY <1>1, <1>2, <1>3 DEF OnceOnly

(* Threads enter one by one until something is repeated.                   *)
LEMMA OnceStaysSo == HookInv /\ [Next]_vars => OnceOnly'
<1> SUFFICES ASSUME HookInv, [Next]_vars PROVE OnceOnly'
  OBVIOUS
<1> USE Entries DEF HookInv, Goto
<1>1. CASE Attach
  <2> SUFFICES ASSUME ~repeated' PROVE OnceOnly'
    BY DEF OnceOnly
  <2>1. PICK patched \in SUBSET {e \in imports : e[1] \in loaded} :
           /\ iat' = [e \in Entry |-> IF e \in patched THEN "hook" ELSE iat[e]]
           /\ repeated' = (repeated \/ ChromeStatic \in patched)
    BY <1>1 DEF Attach
  <2>2. ~repeated /\ iat'[ChromeStatic] = iat[ChromeStatic]
    BY <2>1
  <2>3. UNCHANGED <<pc, installed>>
    BY <1>1 DEF Attach
  <2> QED BY <2>2, <2>3 DEF OnceOnly
<1>2. CASE LoadChrome \/ OwnerFrees \/ UNCHANGED vars
  BY <1>2 DEF LoadChrome, OwnerFrees, vars, past, OnceOnly
<1>3. ASSUME NEW t \in Thread, Enter(t) PROVE OnceOnly'
  <2> SUFFICES ASSUME ~repeated' PROVE OnceOnly'
    BY DEF OnceOnly
  <2>1. /\ ~repeated /\ (Skips \/ \A u \in Thread : pc[u] \notin Inside)
        /\ UNCHANGED <<iat, installed>> /\ pc[t] = "idle"
        /\ pc' = [pc EXCEPT ![t] = "idle"] \/ pc' = [pc EXCEPT ![t] = "lookup"]
           \/ (~Skips /\ pc' = [pc EXCEPT ![t] = "capture"])
    BY <1>3 DEF Enter, AfterEnsure, TypeOK
  <2>2. CASE pc' = [pc EXCEPT ![t] = "idle"] \/ pc' = [pc EXCEPT ![t] = "lookup"]
    <3>1. /\ TypeOK /\ OnceOnly /\ ~repeated
          /\ pc[t] \notin Inside /\ "idle" \notin Inside /\ "lookup" \notin Inside
      BY <2>1 DEF Inside
    <3>2. repeated \in BOOLEAN /\ repeated' \in BOOLEAN
      BY <1>3, TypeHolds DEF TypeOK
    <3>3. UNCHANGED <<installed, repeated>> /\ iat'[ChromeStatic] = iat[ChromeStatic]
      <4>1. repeated' = repeated
        BY <3>1, <3>2
      <4> QED BY <2>1, <4>1
    <3> QED BY <2>2, <3>1, <3>3, OutsideKeeps
  <2>3. CASE ~Skips /\ pc' = [pc EXCEPT ![t] = "capture"]
    <3>1. ~installed /\ \A u \in Thread : pc[u] \notin Inside
      BY <2>1, <2>3 DEF Skips
    <3>2. \A u \in Thread : u # t => pc'[u] = pc[u]
      BY <2>3 DEF TypeOK
    <3>3. iat[ChromeStatic] # "hook"
      BY <2>1, <3>1 DEF OnceOnly, Inside
    <3> QED BY <2>1, <3>1, <3>2, <3>3 DEF OnceOnly
  <2> QED BY <2>1, <2>2, <2>3
<1>4. ASSUME NEW t \in Thread, CaptureStatic(t) \/ PatchStatic(t) \/ PatchDelay(t) PROVE OnceOnly'
  <2> SUFFICES ASSUME ~repeated' PROVE OnceOnly'
    BY DEF OnceOnly
  <2>1. /\ ~repeated /\ UNCHANGED installed /\ pc[t] \in Inside /\ pc[t] # "flag"
        /\ iat'[ChromeStatic] = "hook" => iat[ChromeStatic] = "hook" \/ pc'[t] = "flag"
        /\ \A u \in Thread : u # t => pc'[u] = pc[u]
    BY <1>4 DEF CaptureStatic, PatchStatic, PatchDelay, past, Inside, TypeOK
  <2>2. \A u \in Thread : u # t => pc[u] \notin Inside
    BY <2>1 DEF OnceOnly
  <2>3. ~installed
    BY <2>1 DEF OnceOnly
  <2>4. iat[ChromeStatic] # "hook"
    <3>1. \A u \in Thread : pc[u] # "flag"
      BY <2>1, <2>2 DEF Inside
    <3> QED BY <2>1, <2>3, <3>1 DEF OnceOnly
  <2> QED BY <2>1, <2>2, <2>3, <2>4 DEF OnceOnly
<1>5. ASSUME NEW t \in Thread, SetInstalled(t) PROVE OnceOnly'
  <2> SUFFICES ASSUME ~repeated' PROVE OnceOnly'
    BY DEF OnceOnly
  <2>1. /\ ~repeated /\ installed' = TRUE /\ pc[t] = "flag" /\ pc'[t] \in {"idle", "lookup"}
        /\ \A u \in Thread : u # t => pc'[u] = pc[u]
    BY <1>5 DEF SetInstalled, AfterEnsure, past, TypeOK
  <2>2. \A u \in Thread : u # t => pc[u] \notin Inside
    BY <2>1 DEF OnceOnly, Inside
  <2>3. \A u \in Thread : pc'[u] \notin Inside
    BY <2>1, <2>2 DEF Inside
  <2> QED BY <2>1, <2>3 DEF OnceOnly
<1>6. ASSUME NEW t \in Thread, CallImport(t) \/ TestOriginal(t) \/ ResolveOriginal(t) \/ ForwardAlias(t)
      PROVE  OnceOnly'
  <2>1. /\ UNCHANGED <<iat, installed, repeated>> /\ pc[t] \notin Inside
        /\ \E x \in {"idle", "resolving", "hook", "resolve", "forward", "overflow"} :
              pc' = [pc EXCEPT ![t] = x]
    BY <1>6 DEF CallImport, TestOriginal, ResolveOriginal, ForwardAlias, past, Inside
  <2> QED BY <1>6, <2>1, OutsideKeeps DEF Inside
<1>7. ASSUME NEW t \in Thread, DelayResolved(t) PROVE OnceOnly'
  <2>1. /\ UNCHANGED <<installed, repeated>> /\ pc[t] \notin Inside
        /\ pc' = [pc EXCEPT ![t] = "idle"] /\ iat'[ChromeStatic] = iat[ChromeStatic]
    BY <1>7 DEF DelayResolved, Inside, StubsAreDelayed, TypeOK
  <2> QED BY <1>7, <2>1, OutsideKeeps DEF Inside
<1>8. ASSUME NEW t \in Thread, Lookup(t) \/ FilePath(t) \/ LoadByPath(t) PROVE OnceOnly'
  <2>1. /\ UNCHANGED <<iat, installed, repeated>> /\ pc[t] \notin Inside
        /\ \E x \in {"idle", "path", "load"} : pc' = [pc EXCEPT ![t] = x]
    BY <1>8 DEF Lookup, FilePath, LoadByPath, past, Inside
  <2> QED BY <1>8, <2>1, OutsideKeeps DEF Inside
<1>9. ASSUME NEW t \in Thread, FreeLibrary(t) PROVE OnceOnly'
  BY <1>9 DEF FreeLibrary, past, OnceOnly
<1> QED BY <1>1, <1>2, <1>3, <1>4, <1>5, <1>6, <1>7, <1>8, <1>9 DEF Next

(* The hook is read as its own original only by a thread that is inside    *)
(* when the entry is patched, and then something has been repeated.        *)
LEMMA CapturedStaysSo == HookInv /\ [Next]_vars => CapturesItselfOnlyOnRepeat'
<1> SUFFICES ASSUME HookInv, [Next]_vars PROVE CapturesItselfOnlyOnRepeat'
  OBVIOUS
<1> USE Entries DEF HookInv, TypeOK, CapturesItselfOnlyOnRepeat, Goto
<1>1. imports' = imports /\ (repeated => repeated')
  BY DEF Next, Attach, LoadChrome, OwnerFrees, Enter, CaptureStatic, PatchStatic,
         PatchDelay, SetInstalled, CallImport, DelayResolved, TestOriginal, ResolveOriginal,
         ForwardAlias, Lookup, FilePath, LoadByPath, FreeLibrary, vars, past, image
<1>2. ASSUME NEW t \in Thread, CaptureStatic(t) PROVE CapturesItselfOnlyOnRepeat'
  <2>1. pc[t] = "capture" /\ pc'[t] # "overflow" /\ \A u \in Thread : u # t => pc'[u] = pc[u]
    BY <1>2 DEF CaptureStatic
  <2>2. CASE original' = original
    BY <1>1, <2>1, <2>2
  <2>3. CASE ChromeStatic \in imports /\ original' = iat[ChromeStatic]
    <3>1. iat[ChromeStatic] # "stub"
      BY DEF StubsAreDelayed
    <3>2. iat[ChromeStatic] = "hook" => repeated
      BY <2>1 DEF OnceOnly, Inside
    <3> QED BY <1>1, <2>1, <2>3, <3>1, <3>2
  <2> QED BY <1>2, <2>2, <2>3 DEF CaptureStatic
<1>3. ASSUME NEW t \in Thread, ForwardAlias(t) PROVE CapturesItselfOnlyOnRepeat'
  BY <1>1, <1>3 DEF ForwardAlias
<1>4. ASSUME original' \in {original, "system"},
             \A u \in Thread : pc'[u] = "overflow" => pc[u] = "overflow"
      PROVE  CapturesItselfOnlyOnRepeat'
  BY <1>1, <1>4
<1>5. CASE Attach \/ LoadChrome \/ OwnerFrees \/ UNCHANGED vars
  BY <1>4, <1>5 DEF Attach, LoadChrome, OwnerFrees, vars
<1>6. ASSUME NEW t \in Thread, Enter(t) \/ PatchStatic(t) \/ PatchDelay(t) \/ SetInstalled(t)
      PROVE  CapturesItselfOnlyOnRepeat'
  BY <1>4, <1>6 DEF Enter, AfterEnsure, PatchStatic, WhenRefused, PatchDelay, SetInstalled
<1>7. ASSUME NEW t \in Thread,
             CallImport(t) \/ DelayResolved(t) \/ TestOriginal(t) \/ ResolveOriginal(t)
      PROVE  CapturesItselfOnlyOnRepeat'
  BY <1>4, <1>7 DEF CallImport, DelayResolved, TestOriginal, ResolveOriginal
<1>8. ASSUME NEW t \in Thread, Lookup(t) \/ FilePath(t) \/ LoadByPath(t) \/ FreeLibrary(t)
      PROVE  CapturesItselfOnlyOnRepeat'
  BY <1>4, <1>8 DEF Lookup, FilePath, LoadByPath, FreeLibrary
<1> QED BY <1>2, <1>3, <1>5, <1>6, <1>7, <1>8 DEF Next

(* The flag is raised only behind a patch of one of chrome.dll's entries,  *)
(* and what is patched stays so or is overrun.                             *)
LEMMA FlagStaysHooked == HookInv /\ [Next]_vars => FlagIsHooked'
<1> SUFFICES ASSUME HookInv, [Next]_vars,
                    installed' \/ \E t \in Thread : pc'[t] = "flag"
             PROVE  \/ overrun'
                    \/ {ChromeStatic, ChromeDelay} \subseteq imports'
                    \/ \A e \in imports' \cap {ChromeStatic, ChromeDelay} : iat'[e] = "hook"
  BY DEF FlagIsHooked
<1> USE Entries DEF HookInv, TypeOK, Goto
<1>1. imports' = imports /\ (overrun => overrun')
  BY DEF Next, Attach, LoadChrome, OwnerFrees, Enter, CaptureStatic, PatchStatic,
         PatchDelay, SetInstalled, CallImport, DelayResolved, TestOriginal, ResolveOriginal,
         ForwardAlias, Lookup, FilePath, LoadByPath, FreeLibrary, vars, image, past
<1>2. \A e \in Entry : iat[e] = "hook" => iat'[e] = "hook" \/ overrun'
  BY StubsStayDelayed DEF Kept
<1>3. CASE installed \/ \E t \in Thread : pc[t] = "flag"
  BY <1>1, <1>2, <1>3 DEF FlagIsHooked
<1>4. CASE ~installed /\ \A t \in Thread : pc[t] # "flag"
  <2>1. PICK t \in Thread :
            \/ PatchStatic(t) /\ iat' = [iat EXCEPT ![ChromeStatic] = "hook"]
            \/ /\ PatchDelay(t) /\ ChromeDelay \in imports
               /\ iat' = [iat EXCEPT ![ChromeDelay] = "hook"]
    BY <1>4 DEF Next, Attach, LoadChrome, OwnerFrees, Enter, AfterEnsure, CaptureStatic,
                PatchStatic, WhenRefused, PatchDelay, SetInstalled, CallImport, DelayResolved,
                TestOriginal, ResolveOriginal, ForwardAlias, Lookup, FilePath, LoadByPath, FreeLibrary,
                vars
  <2>2. \/ iat'[ChromeStatic] = "hook" /\ ChromeStatic \in imports
        \/ iat'[ChromeDelay] = "hook" /\ ChromeDelay \in imports
    <3>1. CASE PatchStatic(t) /\ iat' = [iat EXCEPT ![ChromeStatic] = "hook"]
      BY <3>1 DEF PatchStatic, StaticExists
    <3>2. CASE ChromeDelay \in imports /\ iat' = [iat EXCEPT ![ChromeDelay] = "hook"]
      BY <3>2
    <3> QED BY <2>1, <3>1, <3>2
  <2> QED BY <1>1, <2>2
<1> QED BY <1>3, <1>4

(* Every reachable state satisfies the invariant.                          *)
THEOREM HookInvHolds == Spec => []HookInv
<1>1. HookInv /\ [Next]_vars => HookInv'
  BY TypeHolds, HandleStaysLive, StubsStayDelayed, OnceStaysSo, CapturedStaysSo, FlagStaysHooked
  DEF HookInv
<1> QED BY InitHolds, <1>1, PTL DEF Spec
-----------------------------------------------------------------------------
(* The hook recurses without end only where chrome.dll imports the         *)
(* function statically and attach patched that entry, or two threads were  *)
(* inside ensure_chrome_sid_hook at once (w2k_veh.c:163-171, 248-262), and *)
(* the stub of the delay loader is never kept as the original.             *)
THEOREM CapturesItselfOnlyOnRepeatHolds == Spec => []CapturesItselfOnlyOnRepeat
<1>1. HookInv => CapturesItselfOnlyOnRepeat
  BY DEF HookInv
<1> QED BY HookInvHolds, <1>1, PTL

(* When ensure_chrome_sid_hook has reported success chrome.dll's import is *)
(* redirected, but for the two exceptions the property names.              *)
THEOREM InstalledIsHookedHolds == Spec => []InstalledIsHooked
<1>1. HookInv => InstalledIsHooked
  BY BothAreTwo DEF HookInv, FlagIsHooked, InstalledIsHooked
<1> QED BY HookInvHolds, <1>1, PTL

(* W2KGetModuleHandleEx returns, with a reference, the library as it is    *)
(* loaded, whatever happens between its three calls.                       *)
THEOREM HandleIsLiveHolds == Spec => []HandleIsLive
<1>1. HookInv => HandleIsLive
  BY DEF HookInv
<1> QED BY HookInvHolds, <1>1, PTL
=============================================================================
