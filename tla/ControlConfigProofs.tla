-------------------------- MODULE ControlConfigProofs --------------------------
(***************************************************************************)
(* What an acknowledged setting is worth, for any number of threads,      *)
(* sessions, keys and requests.  Each of the three arguments says of the  *)
(* copies that requests have on their way what the property says of the   *)
(* place they will be written to.                                         *)
(***************************************************************************)
EXTENDS ControlConfig, TLAPS

Saving == {"payload", "write"}
Global == Saving \cup {"sync", "push"}
Stores == {"store", "create"}

(* What a thread holds, by what it does.                                  *)
Shaped(th) ==
  /\ th.pc \in Global => th.session = "" /\ th.key \in RuntimeKeys
  /\ th.pc = "write" => th.copy \in [RuntimeKeys -> Values]
  /\ th.pc \in {"sync", "push"} => th.key = Risk
  /\ th.pc \in Stores => /\ th.session \in Sessions /\ th.key \in SessionKeys
                         /\ th.copy \in Settings
  /\ th.pc = "store" => th.copy[th.key] = th.value

TypeInv == TypeOK /\ \A t \in Threads : Shaped(threads[t])

(* Copies of the runtime settings that will be written: each holds what   *)
(* must survive, and what the saves that will promise it hold.            *)
CopiesKeep ==
  \A k \in RuntimeKeys : kept[k] # NoValue =>
    \A u \in Threads : threads[u].pc = "write" => threads[u].copy[k] = kept[k]

CopiesAreFresh ==
  \A t, u \in Threads :
    threads[t].pc \in Saving /\ ~ threads[t].stale /\ threads[u].pc = "write"
      => threads[u].copy[threads[t].key] = memory[threads[t].key]

RuntimeInv == RuntimeIsDurable /\ CopiesKeep /\ CopiesAreFresh

(* Copies of a session's settings: each holds what is promised of the     *)
(* fields that its own request does not change.                           *)
StoresKeep ==
  \A s \in Sessions, k \in SessionKeys : promised[s][k] # NoValue =>
    \A u \in Threads : threads[u].session = s =>
      /\ threads[u].pc = "store" /\ threads[u].key # k => threads[u].copy[k] = promised[s][k]
      /\ threads[u].pc = "create" => threads[u].copy[k] = promised[s][k]

FilesInv == SettingIsKept /\ StoresKeep

(* The risk that will be pushed is the one in force, and where it is not  *)
(* yet, somebody is about to push.                                        *)
PushIsFresh ==
  \A t \in Threads : threads[t].pc = "push" /\ ~ threads[t].stale
                       => threads[t].value = memory[Risk]

Behind == \E s \in Sessions : Exists(s) /\ ~ own[s] /\ sessions[s].risk # memory[Risk]
PushComes == \E t \in Threads : threads[t].pc \in Global /\ threads[t].key = Risk

RiskInv == PushIsFresh /\ (Behind => PushComes)

IInv == TypeInv /\ RuntimeInv /\ FilesInv /\ RiskInv

-----------------------------------------------------------------------------
(* Settings are not mistaken for the lack of a file or of a session.      *)
LEMMA SettingsAreStored ==
  ASSUME NEW c \in Settings
  PROVE  /\ c # NoFile /\ c[Risk] \in Values
         /\ NewSession(c) \in [config : Settings, risk : Values]
         /\ NewSession(c) # NoSession
<1>1. DOMAIN c = SessionKeys /\ DOMAIN NoFile = {} /\ Risk \in SessionKeys
  BY RiskAssumption DEF Settings, NoFile
<1>2. c # NoFile
  BY <1>1
<1>3. c[Risk] \in Values
  BY <1>1 DEF Settings
<1> QED
  BY <1>2, <1>3, ValuesAssumption DEF NewSession, NoSession

LEMMA MergedIsSettings ==
  ASSUME TypeOK, NEW s \in Sessions
  PROVE  /\ Merged(s) \in Settings
         /\ Stored(s) => Merged(s) = files[s] /\ files[s] \in Settings
<1>1. Defaults(s) \in Settings
  BY ValuesAssumption DEF Defaults, Settings, TypeOK
<1>2. Stored(s) => files[s] \in Settings
  BY DEF Stored, TypeOK
<1> QED
  BY <1>1, <1>2 DEF Merged

LEMMA WithRiskIs ==
  ASSUME NEW A, NEW B, NEW session \in [config : A, risk : B], NEW r
  PROVE  WithRisk(session, r) = [config |-> session.config, risk |-> r]
BY DEF WithRisk

LEMMA AppliedIsTyped ==
  ASSUME TypeOK, NEW s \in Sessions, NEW c \in Settings, Exists(s)
  PROVE  /\ Applied(s, c) = [sessions EXCEPT ![s] = [config |-> c, risk |-> c[Risk]]]
         /\ Applied(s, c) \in [Sessions -> [config : Settings, risk : Values] \cup {NoSession}]
<1>1. sessions[s] \in [config : Settings, risk : Values]
  BY DEF TypeOK, Exists
<1>d. DEFINE old == [sessions[s] EXCEPT !.config = c]
<1>2. old \in [config : Settings, risk : Values] /\ old.config = c
  BY <1>1
<1>4. WithRisk(old, c[Risk]) = [config |-> c, risk |-> c[Risk]]
  BY <1>2, WithRiskIs
<1>3. Applied(s, c) = [sessions EXCEPT ![s] = [config |-> c, risk |-> c[Risk]]]
  BY <1>4 DEF Applied
<1> QED
  BY <1>3, SettingsAreStored DEF TypeOK

-----------------------------------------------------------------------------
(* A step of one thread.                                                  *)
LEMMA ThreadMoves ==
  ASSUME TypeInv, NEW t \in Threads, NEW x \in ThreadType, Shaped(x),
         threads' = [threads EXCEPT ![t] = x]
  PROVE  /\ threads' \in [Threads -> ThreadType]
         /\ \A u \in Threads : Shaped(threads'[u])
         /\ threads'[t] = x
         /\ \A u \in Threads \ {t} : threads'[u] = threads[u]
BY DEF TypeInv, TypeOK

LEMMA IdleIsShaped == Idle \in ThreadType /\ Shaped(Idle)
BY RiskAssumption, ValuesAssumption DEF Idle, ThreadType, Shaped, Global, Saving, Stores

(* Steps that do not concern the runtime settings, the files, the risk.   *)
LEMMA RuntimeUntouched ==
  ASSUME RuntimeInv, UNCHANGED <<memory, disk, kept>>,
         \A u \in Threads : threads'[u].pc \in Saving => threads'[u] = threads[u]
  PROVE  RuntimeInv'
<1>1. RuntimeIsDurable'
  BY DEF RuntimeInv, RuntimeIsDurable
<1>2. CopiesKeep'
  BY DEF RuntimeInv, CopiesKeep, Saving
<1>3. CopiesAreFresh'
  BY DEF RuntimeInv, CopiesAreFresh, Saving
<1> QED
  BY <1>1, <1>2, <1>3 DEF RuntimeInv

LEMMA FilesUntouched ==
  ASSUME FilesInv, UNCHANGED <<files, sessions, promised>>,
         \A u \in Threads : threads'[u].pc \in Stores => threads'[u] = threads[u]
  PROVE  FilesInv'
<1>1. SettingIsKept'
  BY DEF FilesInv, SettingIsKept, Exists, Stored
<1>2. StoresKeep'
  <2> SUFFICES ASSUME NEW s \in Sessions, NEW k \in SessionKeys, promised[s][k] # NoValue,
                      NEW u \in Threads, threads'[u].session = s
               PROVE  /\ threads'[u].pc = "store" /\ threads'[u].key # k
                           => threads'[u].copy[k] = promised[s][k]
                      /\ threads'[u].pc = "create" => threads'[u].copy[k] = promised[s][k]
    BY DEF StoresKeep
  <2> QED
    BY DEF FilesInv, StoresKeep, Stores
<1> QED
  BY <1>1, <1>2 DEF FilesInv

LEMMA RiskUntouched ==
  ASSUME RiskInv, UNCHANGED <<memory, sessions, own>>,
         \A u \in Threads : /\ threads'[u].pc = "push" => threads'[u] = threads[u]
                            /\ threads[u].pc \in Global /\ threads[u].key = Risk
                                 => threads'[u].pc \in Global /\ threads'[u].key = Risk
  PROVE  RiskInv'
<1>1. PushIsFresh'
  BY DEF RiskInv, PushIsFresh
<1>2. Behind' => Behind
  BY DEF Behind, Exists
<1>3. PushComes => PushComes'
  BY DEF PushComes
<1> QED
  BY <1>1, <1>2, <1>3 DEF RiskInv

LEMMA BuildPayloadKeeps ==
  ASSUME IInv, NEW t \in Threads, BuildPayload(t)
  PROVE  IInv'
<1> DEFINE x == [threads[t] EXCEPT !.pc = "write", !.copy = memory]
<1>1. x \in ThreadType /\ Shaped(x)
  <2>1. /\ threads[t] \in ThreadType /\ Shaped(threads[t]) /\ threads[t].pc = "payload"
        /\ memory \in [RuntimeKeys -> Values]
    BY DEF IInv, TypeInv, TypeOK, BuildPayload
  <2>2. x \in ThreadType
    BY <2>1 DEF ThreadType
  <2>3. x.pc = "write" /\ x.copy = memory /\ x.session = "" /\ x.key \in RuntimeKeys
    BY <2>1 DEF ThreadType, Shaped, Global, Saving
  <2> QED BY <2>1, <2>2, <2>3 DEF Shaped, Stores
<1>2. threads' = [threads EXCEPT ![t] = x]
  BY DEF IInv, TypeInv, TypeOK, BuildPayload
<1>3. UNCHANGED <<memory, disk, files, sessions, kept, promised, own>>
  BY DEF BuildPayload, fileVars, sessionVars, historyVars
<1>4. /\ threads' \in [Threads -> ThreadType]
      /\ \A u \in Threads : Shaped(threads'[u])
      /\ threads'[t] = x
      /\ \A u \in Threads \ {t} : threads'[u] = threads[u]
  BY <1>1, <1>2, ThreadMoves DEF IInv
<1>5. /\ x.pc = "write" /\ x.copy = memory /\ x.key = threads[t].key
      /\ x.stale = threads[t].stale /\ x.session = "" /\ threads[t].pc = "payload"
  BY DEF IInv, TypeInv, TypeOK, ThreadType, Shaped, BuildPayload, Global, Saving
<1>6. TypeInv'
  BY <1>3, <1>4 DEF IInv, TypeInv, TypeOK, Exists
<1> HIDE DEF x
<1>7. RuntimeInv'
  <2>1. RuntimeIsDurable'
    BY <1>3 DEF IInv, RuntimeInv, RuntimeIsDurable
  <2>2. CopiesKeep'
    <3> SUFFICES ASSUME NEW k \in RuntimeKeys, kept[k] # NoValue,
                        NEW u \in Threads, threads'[u].pc = "write"
                 PROVE  threads'[u].copy[k] = kept[k]
      BY <1>3 DEF CopiesKeep
    <3>1. CASE u = t
      BY <3>1, <1>4, <1>5 DEF IInv, RuntimeInv, RuntimeIsDurable
    <3>2. CASE u # t
      BY <3>2, <1>4 DEF IInv, RuntimeInv, CopiesKeep
    <3> QED
      BY <3>1, <3>2
  <2>3. CopiesAreFresh'
    <3> SUFFICES ASSUME NEW w \in Threads, threads'[w].pc \in Saving, ~ threads'[w].stale,
                        NEW u \in Threads, threads'[u].pc = "write"
                 PROVE  threads'[u].copy[threads'[w].key] = memory[threads'[w].key]
      BY <1>3 DEF CopiesAreFresh
    <3>1. /\ threads[w].pc \in Saving /\ ~ threads[w].stale
          /\ threads'[w].key = threads[w].key
      BY <1>4, <1>5 DEF Saving
    <3>2. CASE u = t
      BY <3>2, <1>4, <1>5
    <3>3. CASE u # t
      BY <3>1, <3>3, <1>4 DEF IInv, RuntimeInv, CopiesAreFresh
    <3> QED
      BY <3>2, <3>3
  <2> QED
    BY <2>1, <2>2, <2>3 DEF RuntimeInv
<1>8. FilesInv'
  BY <1>3, <1>4, <1>5, FilesUntouched DEF IInv, Stores
<1>9. RiskInv'
  BY <1>3, <1>4, <1>5, RiskUntouched DEF IInv, Global, Saving
<1> QED
  BY <1>6, <1>7, <1>8, <1>9 DEF IInv

LEMMA WriteRuntimeKeeps ==
  ASSUME IInv, NEW t \in Threads, WriteRuntime(t)
  PROVE  IInv'
<1> DEFINE k == threads[t].key
           x == IF k = Risk THEN [threads[t] EXCEPT !.pc = "sync"] ELSE Idle
<1>1. /\ threads[t] \in ThreadType /\ threads[t].pc = "write" /\ threads[t].session = ""
      /\ k \in RuntimeKeys /\ threads[t].copy \in [RuntimeKeys -> Values]
  BY DEF IInv, TypeInv, TypeOK, Shaped, WriteRuntime, Global, Saving
<1>2. x \in ThreadType /\ Shaped(x)
  <2>1. CASE k = Risk
    BY <1>1, <2>1 DEF ThreadType, Shaped, Global, Saving, Stores
  <2>2. CASE k # Risk
    BY <2>2, IdleIsShaped
  <2> QED
    BY <2>1, <2>2
<1>3. /\ threads' = [threads EXCEPT ![t] = x]
      /\ disk' = threads[t].copy
      /\ kept' = IF threads[t].stale THEN kept ELSE [kept EXCEPT ![k] = memory[k]]
      /\ UNCHANGED <<memory, files, sessions, promised, own>>
  BY DEF IInv, TypeInv, TypeOK, WriteRuntime, sessionVars
<1>4. /\ threads' \in [Threads -> ThreadType]
      /\ \A u \in Threads : Shaped(threads'[u])
      /\ threads'[t] = x
      /\ \A u \in Threads \ {t} : threads'[u] = threads[u]
  BY <1>2, <1>3, ThreadMoves DEF IInv
<1>5. IF k = Risk THEN x.pc = "sync" /\ x.key = Risk ELSE x.pc = "idle"
  BY <1>1 DEF ThreadType, Idle
<1> HIDE DEF x
<1>6. TypeInv'
  BY <1>1, <1>3, <1>4 DEF IInv, TypeInv, TypeOK
<1>7. RuntimeInv'
  <2>1. \A u \in Threads : threads'[u].pc \in Saving => threads'[u] = threads[u] /\ u # t
    BY <1>4, <1>5 DEF Saving
  <2>2. ASSUME NEW j \in RuntimeKeys, kept'[j] # NoValue
        PROVE  /\ kept'[j] = memory[j] /\ threads[t].copy[j] = memory[j]
               /\ \A u \in Threads : threads[u].pc = "write" => threads[u].copy[j] = memory[j]
    <3>1. CASE j = k /\ ~ threads[t].stale
      BY <1>1, <1>3, <3>1 DEF IInv, TypeInv, TypeOK, RuntimeInv, CopiesAreFresh, Saving
    <3>2. CASE ~ (j = k /\ ~ threads[t].stale)
      <4>1. kept'[j] = kept[j]
        BY <1>1, <1>3, <3>2 DEF IInv, TypeInv, TypeOK
      <4> QED
        BY <4>1, <2>2, <1>1 DEF IInv, RuntimeInv, RuntimeIsDurable, CopiesKeep
    <3> QED
      BY <3>1, <3>2
  <2>3. RuntimeIsDurable'
    BY <2>2, <1>3 DEF RuntimeIsDurable
  <2>4. CopiesKeep'
    <3> SUFFICES ASSUME NEW j \in RuntimeKeys, kept'[j] # NoValue,
                        NEW u \in Threads, threads'[u].pc = "write"
                 PROVE  threads'[u].copy[j] = kept'[j]
      BY DEF CopiesKeep
    <3> QED
      BY <2>1, <2>2 DEF Saving
  <2>5. CopiesAreFresh'
    BY <2>1, <1>3 DEF IInv, RuntimeInv, CopiesAreFresh, Saving
  <2> QED
    BY <2>3, <2>4, <2>5 DEF RuntimeInv
<1>8. FilesInv'
  BY <1>3, <1>4, <1>5, FilesUntouched DEF IInv, Stores
<1>9. RiskInv'
  BY <1>1, <1>3, <1>4, <1>5, RiskUntouched DEF IInv, Global, Saving
<1> QED
  BY <1>6, <1>7, <1>8, <1>9 DEF IInv

LEMMA ReadRiskKeeps ==
  ASSUME IInv, NEW t \in Threads, ReadRisk(t)
  PROVE  IInv'
<1> DEFINE x == [threads[t] EXCEPT !.pc = "push", !.value = memory[Risk], !.stale = FALSE]
<1>1. /\ threads[t] \in ThreadType /\ threads[t].pc = "sync" /\ threads[t].session = ""
      /\ threads[t].key = Risk /\ Risk \in RuntimeKeys /\ memory[Risk] \in Values
  BY RiskAssumption DEF IInv, TypeInv, TypeOK, Shaped, ReadRisk, Global, Saving
<1>2. /\ x \in ThreadType /\ Shaped(x) /\ x.pc = "push" /\ x.key = Risk
      /\ x.value = memory[Risk]
  BY <1>1 DEF ThreadType, Shaped, Global, Saving, Stores
<1>3. /\ threads' = [threads EXCEPT ![t] = x]
      /\ UNCHANGED <<memory, disk, files, sessions, kept, promised, own>>
  BY <1>1 DEF IInv, TypeInv, TypeOK, ReadRisk, CurrentRisk, fileVars, sessionVars, historyVars
<1>4. /\ threads' \in [Threads -> ThreadType]
      /\ \A u \in Threads : Shaped(threads'[u])
      /\ threads'[t] = x
      /\ \A u \in Threads \ {t} : threads'[u] = threads[u]
  BY <1>2, <1>3, ThreadMoves DEF IInv
<1> HIDE DEF x
<1>6. TypeInv'
  BY <1>3, <1>4 DEF IInv, TypeInv, TypeOK
<1>7. RuntimeInv'
  BY <1>2, <1>3, <1>4, RuntimeUntouched DEF IInv, Saving
<1>8. FilesInv'
  BY <1>2, <1>3, <1>4, FilesUntouched DEF IInv, Stores
<1>9. RiskInv'
  <2>1. PushIsFresh'
    BY <1>2, <1>3, <1>4 DEF IInv, RiskInv, PushIsFresh
  <2>2. PushComes'
    BY <1>2, <1>4 DEF PushComes, Global, Saving
  <2> QED
    BY <2>1, <2>2 DEF RiskInv
<1> QED
  BY <1>6, <1>7, <1>8, <1>9 DEF IInv

LEMMA PushRiskKeeps ==
  ASSUME IInv, NEW t \in Threads, PushRisk(t)
  PROVE  IInv'
<1>1. /\ threads[t] \in ThreadType /\ threads[t].pc = "push"
      /\ threads[t].value \in Values /\ threads[t].stale \in BOOLEAN
  BY DEF IInv, TypeInv, TypeOK, PushRisk, ThreadType
<1>2. /\ threads' = [threads EXCEPT ![t] = Idle]
      /\ sessions' = [s \in Sessions |-> IF Exists(s)
                        THEN WithRisk(sessions[s], threads[t].value) ELSE NoSession]
      /\ own' = [s \in Sessions |-> threads[t].stale]
      /\ UNCHANGED <<memory, disk, files, kept, promised>>
  BY DEF PushRisk, fileVars
<1>3. /\ threads' \in [Threads -> ThreadType]
      /\ \A u \in Threads : Shaped(threads'[u])
      /\ threads'[t] = Idle
      /\ \A u \in Threads \ {t} : threads'[u] = threads[u]
  BY <1>2, IdleIsShaped, ThreadMoves DEF IInv
<1>4. Idle.pc = "idle"
  BY DEF Idle
<1>5. \A s \in Sessions :
        IF Exists(s)
        THEN /\ sessions'[s].config = sessions[s].config
             /\ sessions'[s].risk = threads[t].value
             /\ sessions'[s] \in [config : Settings, risk : Values]
        ELSE sessions'[s] = NoSession
  <2> SUFFICES ASSUME NEW s \in Sessions, Exists(s)
               PROVE  /\ sessions'[s].config = sessions[s].config
                      /\ sessions'[s].risk = threads[t].value
                      /\ sessions'[s] \in [config : Settings, risk : Values]
    BY <1>2
  <2>1. sessions[s] \in [config : Settings, risk : Values]
    BY DEF IInv, TypeInv, TypeOK, Exists
  <2>2. sessions'[s] = [config |-> sessions[s].config, risk |-> threads[t].value]
    BY <2>1, <1>2, WithRiskIs
  <2> QED
    BY <2>1, <2>2, <1>1
<1>6. TypeInv'
  <2>1. sessions' \in [Sessions -> [config : Settings, risk : Values] \cup {NoSession}]
    BY <1>2, <1>5
  <2>2. own' \in [Sessions -> BOOLEAN]
    BY <1>1, <1>2
  <2> QED
    BY <2>1, <2>2, <1>2, <1>3 DEF IInv, TypeInv, TypeOK
<1>7. RuntimeInv'
  BY <1>2, <1>3, <1>4, RuntimeUntouched DEF IInv, Saving
<1>8. FilesInv'
  <2>1. \A s \in Sessions : Exists(s)' => Exists(s) /\ sessions'[s].config = sessions[s].config
    <3> SUFFICES ASSUME NEW s \in Sessions, sessions'[s] # NoSession
                 PROVE  Exists(s) /\ sessions'[s].config = sessions[s].config
      BY DEF Exists
    <3> QED
      BY <1>5
  <2>2. SettingIsKept'
    <3> SUFFICES ASSUME NEW s \in Sessions, NEW j \in SessionKeys, promised[s][j] # NoValue
                 PROVE  /\ Stored(s)' /\ files[s][j] = promised[s][j]
                        /\ Exists(s)' => sessions'[s].config[j] = promised[s][j]
      BY <1>2 DEF SettingIsKept
    <3> QED
      BY <2>1, <1>2 DEF IInv, FilesInv, SettingIsKept, Stored
  <2>3. StoresKeep'
    BY <1>2, <1>3, <1>4 DEF IInv, FilesInv, StoresKeep
  <2> QED
    BY <2>2, <2>3 DEF FilesInv
<1>9. RiskInv'
  <2>1. PushIsFresh'
    BY <1>2, <1>3, <1>4 DEF IInv, RiskInv, PushIsFresh
  <2>2. ~ Behind'
    <3> SUFFICES ASSUME NEW s \in Sessions, sessions'[s] # NoSession, ~ own'[s]
                 PROVE  sessions'[s].risk = memory[Risk]
      BY <1>2 DEF Behind, Exists
    <3>1. ~ threads[t].stale
      BY <1>2
    <3>2. threads[t].value = memory[Risk]
      BY <3>1, <1>1 DEF IInv, RiskInv, PushIsFresh
    <3> QED
      BY <3>2, <1>5
  <2> QED
    BY <2>1, <2>2 DEF RiskInv
<1> QED
  BY <1>6, <1>7, <1>8, <1>9 DEF IInv

LEMMA SetRuntimeKeeps ==
  ASSUME IInv, NEW t \in Threads, NEW k \in RuntimeKeys, NEW v \in Values, SetRuntime(t, k, v)
  PROVE  IInv'
<1> DEFINE x == [Idle EXCEPT !.pc = "payload", !.key = k, !.value = v,
                             !.stale = Writers("write", "") # {}]
<1>1. /\ threads[t].pc = "idle"
      /\ memory' = [memory EXCEPT ![k] = v]
      /\ threads' = [u \in Threads |->
           IF u = t THEN x
           ELSE IF Overtaken(u, k) THEN [threads[u] EXCEPT !.stale = TRUE] ELSE threads[u]]
      /\ kept' = [kept EXCEPT ![k] = NoValue]
      /\ UNCHANGED <<disk, files, sessions, promised, own>>
  BY DEF SetRuntime, fileVars, sessionVars
<1>2. /\ x \in ThreadType /\ Shaped(x)
      /\ x.pc = "payload" /\ x.key = k /\ x.stale = (Writers("write", "") # {})
  BY RiskAssumption, ValuesAssumption
     DEF Idle, ThreadType, Shaped, Global, Saving, Stores
<1>3. \A u \in Threads : threads[u] \in ThreadType /\ Shaped(threads[u])
  BY DEF IInv, TypeInv, TypeOK
<1>4. ASSUME NEW th \in ThreadType, Shaped(th)
      PROVE  LET y == [th EXCEPT !.stale = TRUE]
             IN  /\ y \in ThreadType /\ Shaped(y) /\ y.stale = TRUE
                 /\ y.pc = th.pc /\ y.key = th.key /\ y.copy = th.copy
                 /\ y.session = th.session /\ y.value = th.value
  BY <1>4 DEF ThreadType, Shaped, Global, Saving, Stores
<1> HIDE DEF x
<1>5. /\ threads'[t] = x
      /\ \A u \in Threads \ {t} :
           /\ threads'[u] \in ThreadType /\ Shaped(threads'[u])
           /\ threads'[u].pc = threads[u].pc /\ threads'[u].key = threads[u].key
           /\ threads'[u].copy = threads[u].copy /\ threads'[u].value = threads[u].value
           /\ threads'[u].session = threads[u].session
           /\ IF Overtaken(u, k) THEN threads'[u].stale ELSE threads'[u] = threads[u]
  BY <1>1, <1>3, <1>4
<1>6. TypeInv'
  <2>1. threads' \in [Threads -> ThreadType] /\ \A u \in Threads : Shaped(threads'[u])
    BY <1>1, <1>2, <1>5
  <2>2. /\ memory' \in [RuntimeKeys -> Values]
        /\ kept' \in [RuntimeKeys -> Values \cup {NoValue}]
    BY <1>1 DEF IInv, TypeInv, TypeOK
  <2> QED
    BY <2>1, <2>2, <1>1 DEF IInv, TypeInv, TypeOK
<1>7. RuntimeInv'
  <2>1. \A j \in RuntimeKeys : /\ j # k => kept'[j] = kept[j] /\ memory'[j] = memory[j]
                               /\ j = k => kept'[j] = NoValue
    BY <1>1 DEF IInv, TypeInv, TypeOK
  <2>2. RuntimeIsDurable'
    BY <2>1, <1>1 DEF IInv, RuntimeInv, RuntimeIsDurable
  <2>3. CopiesKeep'
    <3> SUFFICES ASSUME NEW j \in RuntimeKeys, kept'[j] # NoValue,
                        NEW u \in Threads, threads'[u].pc = "write"
                 PROVE  threads'[u].copy[j] = kept'[j]
      BY DEF CopiesKeep
    <3>1. j # k /\ kept'[j] = kept[j]
      BY <2>1
    <3>2. threads[u].pc = "write" /\ threads'[u].copy = threads[u].copy
      BY <1>2, <1>5
    <3> QED
      BY <3>1, <3>2 DEF IInv, RuntimeInv, CopiesKeep
  <2>4. CopiesAreFresh'
    <3> SUFFICES ASSUME NEW w \in Threads, threads'[w].pc \in Saving, ~ threads'[w].stale,
                        NEW u \in Threads, threads'[u].pc = "write"
                 PROVE  threads'[u].copy[threads'[w].key] = memory'[threads'[w].key]
      BY DEF CopiesAreFresh
    <3>1. u # t /\ threads[u].pc = "write" /\ threads'[u].copy = threads[u].copy
      BY <1>2, <1>5
    <3>2. u \in Writers("write", "")
      BY <3>1, <1>3 DEF Writers, Shaped, Global, Saving
    <3>3. w # t
      BY <3>2, <1>2, <1>5
    <3>4. ~ Overtaken(w, k) /\ threads'[w] = threads[w]
      BY <3>3, <1>5
    <3>5. threads[w].key # k /\ threads[w].key \in RuntimeKeys
      BY <3>4, <1>3 DEF Overtaken, Shaped, Saving, Global
    <3> QED
      BY <3>1, <3>4, <3>5, <2>1 DEF IInv, RuntimeInv, CopiesAreFresh
  <2> QED
    BY <2>2, <2>3, <2>4 DEF RuntimeInv
<1>8. FilesInv'
  <2>1. \A u \in Threads : threads'[u].pc \in Stores => threads'[u] = threads[u]
    BY <1>2, <1>5 DEF Overtaken, Stores
  <2> QED
    BY <2>1, <1>1, FilesUntouched DEF IInv
<1>9. RiskInv'
  <2>1. k # Risk => memory'[Risk] = memory[Risk]
    BY <1>1, RiskAssumption DEF IInv, TypeInv, TypeOK
  <2>2. PushIsFresh'
    BY <2>1, <1>2, <1>5 DEF IInv, RiskInv, PushIsFresh, Overtaken
  <2>3. CASE k = Risk
    BY <2>2, <2>3, <1>2, <1>5 DEF RiskInv, PushComes, Global, Saving
  <2>4. CASE k # Risk
    <3>1. Behind' => Behind
      BY <2>1, <2>4, <1>1 DEF Behind, Exists
    <3>2. PushComes => PushComes'
      BY <1>1, <1>5 DEF PushComes, Global, Saving
    <3> QED
      BY <3>1, <3>2, <2>2 DEF IInv, RiskInv
  <2> QED
    BY <2>3, <2>4
<1> QED
  BY <1>6, <1>7, <1>8, <1>9 DEF IInv

-----------------------------------------------------------------------------
(* Steps that concern the files and the sessions only.                    *)

(* A session that appears or changes has the settings of its file, and a  *)
(* risk of its own.                                                       *)
LEMMA SessionChanges ==
  ASSUME IInv, NEW s \in Sessions, NEW c \in Settings,
         sessions' = [sessions EXCEPT ![s] = [config |-> c, risk |-> c[Risk]]],
         own' = [own EXCEPT ![s] = TRUE],
         UNCHANGED memory,
         \A u \in Threads : /\ threads'[u].pc = "push" => threads'[u] = threads[u]
                            /\ threads[u].pc \in Global => threads'[u] = threads[u]
  PROVE  /\ sessions' \in [Sessions -> [config : Settings, risk : Values] \cup {NoSession}]
         /\ own' \in [Sessions -> BOOLEAN]
         /\ sessions'[s].config = c
         /\ \A r \in Sessions \ {s} : sessions'[r] = sessions[r]
         /\ RiskInv'
<1>1. [config |-> c, risk |-> c[Risk]] \in [config : Settings, risk : Values]
  BY SettingsAreStored DEF NewSession
<1>2. /\ sessions' \in [Sessions -> [config : Settings, risk : Values] \cup {NoSession}]
      /\ sessions'[s].config = c
      /\ \A r \in Sessions \ {s} : sessions'[r] = sessions[r]
  BY <1>1 DEF IInv, TypeInv, TypeOK
<1>3. /\ own' \in [Sessions -> BOOLEAN]
      /\ own'[s] /\ \A r \in Sessions \ {s} : own'[r] = own[r]
  BY DEF IInv, TypeInv, TypeOK
<1>4. PushIsFresh'
  BY DEF IInv, RiskInv, PushIsFresh
<1>5. Behind' => Behind
  <2> SUFFICES ASSUME NEW r \in Sessions, sessions'[r] # NoSession, ~ own'[r],
                      sessions'[r].risk # memory[Risk]
               PROVE  Behind
    BY DEF Behind, Exists
  <2>1. r # s /\ sessions'[r] = sessions[r] /\ own'[r] = own[r]
    BY <1>2, <1>3
  <2> QED
    BY <2>1 DEF Behind, Exists
<1>6. PushComes => PushComes'
  BY DEF PushComes
<1> QED
  BY <1>2, <1>3, <1>4, <1>5, <1>6 DEF IInv, RiskInv

(* What a thread reads of the settings of a session keeps what is promised. *)
LEMMA MergedKeeps ==
  ASSUME IInv, NEW s \in Sessions, NEW k \in SessionKeys, promised[s][k] # NoValue
  PROVE  Merged(s)[k] = promised[s][k]
BY MergedIsSettings DEF IInv, TypeInv, FilesInv, SettingIsKept

(* A thread begins with what it read.                                     *)
LEMMA ReaderBegins ==
  ASSUME IInv, NEW t \in Threads, NEW s \in Sessions, NEW x \in ThreadType, Shaped(x),
         threads[t].pc = "idle", threads' = [threads EXCEPT ![t] = x],
         x.pc \in Stores, x.session = s,
         \A k \in SessionKeys : (x.pc = "store" /\ x.key = k) \/ x.copy[k] = Merged(s)[k],
         UNCHANGED <<memory, disk, files, sessions, kept, promised, own>>
  PROVE  IInv'
<1>1. /\ threads' \in [Threads -> ThreadType]
      /\ \A u \in Threads : Shaped(threads'[u])
      /\ threads'[t] = x
      /\ \A u \in Threads \ {t} : threads'[u] = threads[u]
  BY ThreadMoves DEF IInv
<1>2. TypeInv'
  BY <1>1 DEF IInv, TypeInv, TypeOK
<1>3. RuntimeInv'
  BY <1>1, RuntimeUntouched DEF IInv, Saving, Stores
<1>4. RiskInv'
  BY <1>1, RiskUntouched DEF IInv, Global, Saving, Stores
<1>5. SettingIsKept'
  BY DEF IInv, FilesInv, SettingIsKept, Exists, Stored
<1>6. StoresKeep'
  <2> SUFFICES ASSUME NEW r \in Sessions, NEW k \in SessionKeys, promised[r][k] # NoValue,
                      NEW u \in Threads, threads'[u].session = r
               PROVE  /\ threads'[u].pc = "store" /\ threads'[u].key # k
                           => threads'[u].copy[k] = promised[r][k]
                      /\ threads'[u].pc = "create" => threads'[u].copy[k] = promised[r][k]
    BY DEF StoresKeep
  <2>1. CASE u = t
    BY <2>1, <1>1, MergedKeeps
  <2>2. CASE u # t
    BY <2>2, <1>1 DEF IInv, FilesInv, StoresKeep
  <2> QED
    BY <2>1, <2>2
<1> QED
  BY <1>2, <1>3, <1>4, <1>5, <1>6 DEF IInv, FilesInv

LEMMA LoadStoredKeeps ==
  ASSUME IInv, NEW t \in Threads, NEW s \in Sessions, NEW k \in SessionKeys,
         NEW v \in Values, LoadStored(t, s, k, v)
  PROVE  IInv'
<1> DEFINE c == [Merged(s) EXCEPT ![k] = v]
           x == [Idle EXCEPT !.pc = "store", !.session = s, !.key = k, !.value = v,
                             !.copy = c]
<1>1. /\ threads[t].pc = "idle" /\ threads' = [threads EXCEPT ![t] = x]
      /\ UNCHANGED <<memory, disk, files, sessions, kept, promised, own>>
  BY DEF LoadStored, fileVars, sessionVars, historyVars
<1>2. /\ c \in Settings /\ c[k] = v
      /\ \A j \in SessionKeys \ {k} : c[j] = Merged(s)[j]
  BY MergedIsSettings DEF IInv, TypeInv, Settings
<1> HIDE DEF c
<1>3. /\ x \in ThreadType /\ Shaped(x) /\ x.pc = "store" /\ x.session = s
      /\ x.key = k /\ x.copy = c
  BY <1>2 DEF Idle, ThreadType, Shaped, Global, Saving, Stores
<1> HIDE DEF x
<1> QED
  BY <1>1, <1>2, <1>3, ReaderBegins DEF Stores

LEMMA FindNoSessionKeeps ==
  ASSUME IInv, NEW t \in Threads, NEW s \in Sessions, FindNoSession(t, s)
  PROVE  IInv'
<1> DEFINE x == [Idle EXCEPT !.pc = "create", !.session = s, !.copy = Merged(s)]
<1>1. /\ threads[t].pc = "idle" /\ threads' = [threads EXCEPT ![t] = x]
      /\ UNCHANGED <<memory, disk, files, sessions, kept, promised, own>>
  BY DEF FindNoSession, fileVars, sessionVars, historyVars
<1>2. Merged(s) \in Settings
  BY MergedIsSettings DEF IInv, TypeInv
<1>3. /\ x \in ThreadType /\ Shaped(x) /\ x.pc = "create" /\ x.session = s
      /\ x.copy = Merged(s)
  BY <1>2, RiskAssumption, ValuesAssumption
     DEF Idle, ThreadType, Shaped, Global, Saving, Stores
<1> HIDE DEF x
<1> QED
  BY <1>1, <1>3, ReaderBegins DEF Stores

(* The file is replaced by a copy that keeps the other fields; its own is  *)
(* promised only when no other copy of the session's settings is on its way. *)
LEMMA WriteStoredKeeps ==
  ASSUME IInv, NEW t \in Threads, WriteStored(t)
  PROVE  IInv'
<1> DEFINE s == threads[t].session
           k == threads[t].key
           c == threads[t].copy
           v == IF Exists(s) THEN NoValue ELSE threads[t].value
           others == (Writers("store", s) \ {t}) \cup Writers("create", s)
           p == IF others = {} THEN v ELSE NoValue
<1>1. /\ threads[t] \in ThreadType /\ threads[t].pc = "store"
      /\ s \in Sessions /\ k \in SessionKeys /\ c \in Settings /\ c[k] = threads[t].value
      /\ threads[t].value \in Values /\ p \in Values \cup {NoValue}
  BY DEF IInv, TypeInv, TypeOK, Shaped, WriteStored, Stores, ThreadType
<1>2. /\ files' = [files EXCEPT ![s] = c]
      /\ promised' = [promised EXCEPT ![s][k] = p]
      /\ threads' = [threads EXCEPT ![t] = Idle]
      /\ UNCHANGED <<memory, disk, sessions, kept, own>>
  BY DEF WriteStored, Promise, sessionVars
<1>3. /\ threads' \in [Threads -> ThreadType]
      /\ \A u \in Threads : Shaped(threads'[u])
      /\ threads'[t] = Idle
      /\ \A u \in Threads \ {t} : threads'[u] = threads[u]
  BY <1>2, IdleIsShaped, ThreadMoves DEF IInv
<1>4. Idle.pc = "idle"
  BY DEF Idle
<1>5. p # NoValue => ~ Exists(s) /\ p = c[k] /\ others = {}
  BY <1>1
<1>5a. others = {} => \A u \in Threads \ {t} :
                        threads[u].session = s => threads[u].pc \notin Stores
  BY DEF Writers, Stores
<1> HIDE DEF others, v, p
<1>6. /\ files' \in [Sessions -> Settings \cup {NoFile}]
      /\ promised' \in [Sessions -> [SessionKeys -> Values \cup {NoValue}]]
      /\ files'[s] = c /\ promised'[s][k] = p
      /\ \A r \in Sessions \ {s} : files'[r] = files[r]
      /\ \A r \in Sessions, j \in SessionKeys :
           r # s \/ j # k => promised'[r][j] = promised[r][j]
  BY <1>1, <1>2 DEF IInv, TypeInv, TypeOK
<1>7. TypeInv'
  BY <1>2, <1>3, <1>6 DEF IInv, TypeInv, TypeOK
<1>8. RuntimeInv'
  BY <1>2, <1>3, <1>4, RuntimeUntouched DEF IInv, Saving
<1>9. RiskInv'
  BY <1>1, <1>2, <1>3, <1>4, RiskUntouched DEF IInv, Global, Saving
<1>10. SettingIsKept'
  <2> SUFFICES ASSUME NEW r \in Sessions, NEW j \in SessionKeys, promised'[r][j] # NoValue
               PROVE  /\ files'[r] # NoFile /\ files'[r][j] = promised'[r][j]
                      /\ Exists(r) => sessions[r].config[j] = promised'[r][j]
    BY <1>2 DEF SettingIsKept, Stored, Exists
  <2>1. CASE r = s /\ j = k
    BY <2>1, <1>1, <1>5, <1>6, SettingsAreStored
  <2>2. CASE r = s /\ j # k
    <3>1. promised[r][j] # NoValue /\ promised'[r][j] = promised[r][j]
      BY <2>2, <1>6
    <3>2. c[j] = promised[r][j]
      BY <2>2, <3>1, <1>1 DEF IInv, FilesInv, StoresKeep
    <3> QED
      BY <2>2, <3>1, <3>2, <1>1, <1>6, SettingsAreStored DEF IInv, FilesInv, SettingIsKept
  <2>3. CASE r # s
    BY <2>3, <1>6 DEF IInv, FilesInv, SettingIsKept, Stored
  <2> QED
    BY <2>1, <2>2, <2>3
<1>11. StoresKeep'
  <2> SUFFICES ASSUME NEW r \in Sessions, NEW j \in SessionKeys, promised'[r][j] # NoValue,
                      NEW u \in Threads, threads'[u].session = r, threads'[u].pc \in Stores
               PROVE  /\ threads'[u].pc = "store" /\ threads'[u].key # j
                           => threads'[u].copy[j] = promised'[r][j]
                      /\ threads'[u].pc = "create" => threads'[u].copy[j] = promised'[r][j]
    BY DEF StoresKeep, Stores
  <2>1. u # t /\ threads'[u] = threads[u]
    BY <1>3, <1>4 DEF Stores
  <2>2. ~ (r = s /\ j = k)
    BY <2>1, <1>5, <1>5a, <1>6
  <2> QED
    BY <2>1, <2>2, <1>6 DEF IInv, FilesInv, StoresKeep
<1> QED
  BY <1>7, <1>8, <1>9, <1>10, <1>11 DEF IInv, FilesInv

(* A session is registered with settings that keep what is promised.      *)
LEMMA RegisterKeeps ==
  ASSUME IInv, NEW s \in Sessions, NEW c \in Settings,
         sessions' = [sessions EXCEPT ![s] = [config |-> c, risk |-> c[Risk]]],
         own' = [own EXCEPT ![s] = TRUE],
         \A k \in SessionKeys : promised[s][k] # NoValue => c[k] = promised[s][k],
         UNCHANGED <<memory, disk, files, kept, promised>>,
         threads' \in [Threads -> ThreadType],
         \A u \in Threads : \/ threads'[u] = threads[u]
                            \/ threads[u].pc = "create" /\ threads'[u] = Idle
  PROVE  IInv'
<1>1. Idle.pc = "idle" /\ Shaped(Idle)
  BY IdleIsShaped DEF Idle
<1>2. \A u \in Threads : /\ threads'[u].pc # "idle" => threads'[u] = threads[u]
                         /\ threads[u].pc # "create" => threads'[u] = threads[u]
  BY <1>1
<1>3. /\ sessions' \in [Sessions -> [config : Settings, risk : Values] \cup {NoSession}]
      /\ own' \in [Sessions -> BOOLEAN]
      /\ sessions'[s].config = c
      /\ \A r \in Sessions \ {s} : sessions'[r] = sessions[r]
      /\ RiskInv'
  BY <1>2, SessionChanges DEF Global, Saving
<1>4. TypeInv'
  BY <1>1, <1>3 DEF IInv, TypeInv, TypeOK
<1>5. RuntimeInv'
  BY <1>2, RuntimeUntouched DEF IInv, Saving
<1>6. SettingIsKept'
  <2> SUFFICES ASSUME NEW r \in Sessions, NEW j \in SessionKeys, promised[r][j] # NoValue
               PROVE  /\ Stored(r) /\ files[r][j] = promised[r][j]
                      /\ sessions'[r] # NoSession => sessions'[r].config[j] = promised[r][j]
    BY DEF SettingIsKept, Stored, Exists
  <2>1. CASE r = s
    BY <2>1, <1>3 DEF IInv, FilesInv, SettingIsKept
  <2>2. CASE r # s
    BY <2>2, <1>3 DEF IInv, FilesInv, SettingIsKept, Exists
  <2> QED
    BY <2>1, <2>2
<1>7. StoresKeep'
  BY <1>2 DEF IInv, FilesInv, StoresKeep
<1> QED
  BY <1>3, <1>4, <1>5, <1>6, <1>7 DEF IInv, FilesInv

LEMMA CreateSessionKeeps ==
  ASSUME IInv, NEW s \in Sessions, CreateSession(s)
  PROVE  IInv'
<1>1. /\ sessions' = [sessions EXCEPT ![s] = [config |-> Merged(s), risk |-> Merged(s)[Risk]]]
      /\ own' = [own EXCEPT ![s] = TRUE]
      /\ UNCHANGED <<memory, disk, files, threads, kept, promised>>
  BY DEF CreateSession, Register, NewSession, fileVars
<1>2. Merged(s) \in Settings /\ threads' \in [Threads -> ThreadType]
  BY <1>1, MergedIsSettings DEF IInv, TypeInv, TypeOK
<1>3. \A k \in SessionKeys : promised[s][k] # NoValue => Merged(s)[k] = promised[s][k]
  BY MergedKeeps
<1> QED
  BY <1>1, <1>2, <1>3, RegisterKeeps

LEMMA RegisterFoundKeeps ==
  ASSUME IInv, NEW t \in Threads, RegisterFound(t)
  PROVE  IInv'
<1> DEFINE s == threads[t].session
           c == threads[t].copy
<1>1. threads[t].pc = "create" /\ s \in Sessions /\ c \in Settings
  BY DEF IInv, TypeInv, Shaped, RegisterFound, Stores
<1>2. /\ sessions' = [sessions EXCEPT ![s] = [config |-> c, risk |-> c[Risk]]]
      /\ own' = [own EXCEPT ![s] = TRUE]
      /\ threads' = [threads EXCEPT ![t] = Idle]
      /\ UNCHANGED <<memory, disk, files, kept, promised>>
  BY DEF RegisterFound, Register, NewSession, fileVars
<1>3. /\ threads' \in [Threads -> ThreadType]
      /\ \A u \in Threads : \/ threads'[u] = threads[u]
                            \/ threads[u].pc = "create" /\ threads'[u] = Idle
  BY <1>1, <1>2, IdleIsShaped DEF IInv, TypeInv, TypeOK
<1>4. \A k \in SessionKeys : promised[s][k] # NoValue => c[k] = promised[s][k]
  BY <1>1 DEF IInv, FilesInv, StoresKeep
<1> QED
  BY <1>1, <1>2, <1>3, <1>4, RegisterKeeps

LEMMA StartBacktestKeeps ==
  ASSUME IInv, NEW s \in Sessions, StartBacktest(s)
  PROVE  IInv'
<1>1. Merged(s) \in Settings /\ threads' = threads /\ Exists(s)
  BY MergedIsSettings DEF IInv, TypeInv, StartBacktest
<1>2. /\ sessions' = [sessions EXCEPT ![s] = [config |-> Merged(s), risk |-> Merged(s)[Risk]]]
      /\ own' = [own EXCEPT ![s] = TRUE]
      /\ UNCHANGED <<memory, disk, files, kept, promised>>
  BY <1>1, AppliedIsTyped DEF IInv, TypeInv, StartBacktest, fileVars
<1>3. threads' \in [Threads -> ThreadType]
  BY <1>1 DEF IInv, TypeInv, TypeOK
<1>4. \A k \in SessionKeys : promised[s][k] # NoValue => Merged(s)[k] = promised[s][k]
  BY MergedKeeps
<1> QED
  BY <1>1, <1>2, <1>3, <1>4, RegisterKeeps

LEMMA UpdateSessionConfigKeeps ==
  ASSUME IInv, NEW s \in Sessions, NEW k \in SessionKeys, NEW v \in Values,
         UpdateSessionConfig(s, k, v)
  PROVE  IInv'
<1> DEFINE c == [Merged(s) EXCEPT ![k] = v]
           others == Writers("store", s) \cup Writers("create", s)
           p == IF others = {} THEN v ELSE NoValue
<1>1. /\ c \in Settings /\ c[k] = v
      /\ \A j \in SessionKeys \ {k} : c[j] = Merged(s)[j]
  BY MergedIsSettings DEF IInv, TypeInv, Settings
<1>2. /\ files' = [files EXCEPT ![s] = c]
      /\ sessions' = IF Exists(s) THEN Applied(s, c) ELSE sessions
      /\ promised' = [promised EXCEPT ![s][k] = p]
      /\ own' = [own EXCEPT ![s] = TRUE]
      /\ UNCHANGED <<memory, disk, threads, kept>>
  BY DEF UpdateSessionConfig, Promise
<1>3. p \in Values \cup {NoValue} /\ (p # NoValue => p = c[k] /\ others = {})
  BY <1>1
<1>4. others = {} => \A u \in Threads : threads[u].session = s => threads[u].pc \notin Stores
  BY DEF Writers, Stores
<1>5. /\ Exists(s) => sessions' = [sessions EXCEPT ![s] = [config |-> c, risk |-> c[Risk]]]
      /\ ~ Exists(s) => sessions' = sessions
  BY <1>1, <1>2, AppliedIsTyped DEF IInv, TypeInv
<1> HIDE DEF c, others, p
<1>6. /\ files' \in [Sessions -> Settings \cup {NoFile}]
      /\ promised' \in [Sessions -> [SessionKeys -> Values \cup {NoValue}]]
      /\ files'[s] = c /\ promised'[s][k] = p
      /\ \A r \in Sessions \ {s} : files'[r] = files[r]
      /\ \A r \in Sessions, j \in SessionKeys :
           r # s \/ j # k => promised'[r][j] = promised[r][j]
  BY <1>1, <1>2, <1>3 DEF IInv, TypeInv, TypeOK
<1>7. /\ sessions' \in [Sessions -> [config : Settings, risk : Values] \cup {NoSession}]
      /\ own' \in [Sessions -> BOOLEAN]
      /\ sessions'[s] # NoSession => sessions'[s].config = c
      /\ \A r \in Sessions \ {s} : sessions'[r] = sessions[r]
      /\ RiskInv'
  <2>1. CASE Exists(s)
    BY <2>1, <1>1, <1>2, <1>5, SessionChanges
  <2>2. CASE ~ Exists(s)
    <3>1. sessions' = sessions /\ sessions[s] = NoSession
      BY <2>2, <1>5 DEF Exists
    <3>2. /\ own' \in [Sessions -> BOOLEAN] /\ \A r \in Sessions \ {s} : own'[r] = own[r]
      BY <1>2 DEF IInv, TypeInv, TypeOK
    <3>3. PushIsFresh'
      BY <1>2 DEF IInv, RiskInv, PushIsFresh
    <3>4. Behind' => Behind
      <4> SUFFICES ASSUME NEW r \in Sessions, sessions'[r] # NoSession, ~ own'[r],
                          sessions'[r].risk # memory[Risk]
                   PROVE  Behind
        BY <1>2 DEF Behind, Exists
      <4>1. r # s
        BY <3>1
      <4> QED
        BY <4>1, <3>1, <3>2 DEF Behind, Exists
    <3>5. PushComes => PushComes'
      BY <1>2 DEF PushComes
    <3>6. RiskInv'
      BY <3>3, <3>4, <3>5 DEF IInv, RiskInv
    <3> QED
      BY <3>1, <3>2, <3>6 DEF IInv, TypeInv, TypeOK
  <2> QED
    BY <2>1, <2>2
<1>8. TypeInv'
  BY <1>2, <1>6, <1>7 DEF IInv, TypeInv, TypeOK
<1>9. RuntimeInv'
  BY <1>2, RuntimeUntouched DEF IInv
<1>10. SettingIsKept'
  <2> SUFFICES ASSUME NEW r \in Sessions, NEW j \in SessionKeys, promised'[r][j] # NoValue
               PROVE  /\ files'[r] # NoFile /\ files'[r][j] = promised'[r][j]
                      /\ sessions'[r] # NoSession => sessions'[r].config[j] = promised'[r][j]
    BY DEF SettingIsKept, Stored, Exists
  <2>1. CASE r = s /\ j = k
    BY <2>1, <1>1, <1>3, <1>6, <1>7, SettingsAreStored
  <2>2. CASE r = s /\ j # k
    <3>1. promised[r][j] # NoValue /\ promised'[r][j] = promised[r][j]
      BY <2>2, <1>6
    <3>2. c[j] = promised[r][j]
      BY <2>2, <3>1, <1>1, MergedKeeps
    <3> QED
      BY <2>2, <3>1, <3>2, <1>1, <1>6, <1>7, SettingsAreStored
  <2>3. CASE r # s
    BY <2>3, <1>6, <1>7 DEF IInv, FilesInv, SettingIsKept, Stored, Exists
  <2> QED
    BY <2>1, <2>2, <2>3
<1>11. StoresKeep'
  <2> SUFFICES ASSUME NEW r \in Sessions, NEW j \in SessionKeys, promised'[r][j] # NoValue,
                      NEW u \in Threads, threads[u].session = r, threads[u].pc \in Stores
               PROVE  /\ threads[u].pc = "store" /\ threads[u].key # j
                           => threads[u].copy[j] = promised'[r][j]
                      /\ threads[u].pc = "create" => threads[u].copy[j] = promised'[r][j]
    BY <1>2 DEF StoresKeep, Stores
  <2>1. ~ (r = s /\ j = k)
    BY <1>3, <1>4, <1>6
  <2> QED
    BY <2>1, <1>6 DEF IInv, FilesInv, StoresKeep
<1> QED
  BY <1>7, <1>8, <1>9, <1>10, <1>11 DEF IInv, FilesInv

(* A new process: no request, no session, and what the disk holds.        *)
LEMMA RestartKeeps ==
  ASSUME IInv, Restart
  PROVE  IInv'
<1>1. /\ memory' = disk
      /\ sessions' = [s \in Sessions |-> NoSession]
      /\ threads' = [t \in Threads |-> Idle]
      /\ own' = [s \in Sessions |-> FALSE]
      /\ UNCHANGED <<disk, files, kept, promised>>
  BY DEF Restart, LoadedFromDisk, fileVars
<1>2. \A t \in Threads : threads'[t] = Idle /\ threads'[t].pc = "idle"
  BY <1>1 DEF Idle
<1>3. TypeInv'
  BY <1>1, IdleIsShaped DEF IInv, TypeInv, TypeOK
<1>4. RuntimeInv'
  BY <1>1, <1>2 DEF IInv, RuntimeInv, RuntimeIsDurable, CopiesKeep, CopiesAreFresh, Saving
<1>5. FilesInv'
  BY <1>1, <1>2 DEF IInv, FilesInv, SettingIsKept, StoresKeep, Stored, Exists
<1>6. RiskInv'
  BY <1>1, <1>2 DEF RiskInv, PushIsFresh, Behind, Exists
<1> QED
  BY <1>3, <1>4, <1>5, <1>6 DEF IInv

(* What a backtest does, and a step of something else.                    *)
LEMMA OthersKeep ==
  ASSUME IInv, UNCHANGED <<memory, disk, files, sessions, threads, kept, promised, own>>
  PROVE  IInv'
<1>1. TypeInv'
  BY DEF IInv, TypeInv, TypeOK
<1>2. RuntimeInv'
  BY RuntimeUntouched DEF IInv
<1>3. FilesInv'
  BY FilesUntouched DEF IInv
<1>4. RiskInv'
  BY RiskUntouched DEF IInv
<1> QED
  BY <1>1, <1>2, <1>3, <1>4 DEF IInv

-----------------------------------------------------------------------------
LEMMA InitInvariant == Init => IInv
<1> SUFFICES ASSUME Init PROVE IInv
  OBVIOUS
<1>1. \A t \in Threads : threads[t] = Idle /\ threads[t].pc = "idle"
  BY DEF Init, Idle
<1>2. TypeInv
  BY IdleIsShaped, ValuesAssumption DEF Init, TypeInv, TypeOK
<1>3. RuntimeInv
  BY <1>1 DEF Init, RuntimeInv, RuntimeIsDurable, CopiesKeep, CopiesAreFresh, Saving
<1>4. FilesInv
  BY <1>1 DEF Init, FilesInv, SettingIsKept, StoresKeep
<1>5. RiskInv
  BY <1>1 DEF Init, RiskInv, PushIsFresh, Behind, Exists
<1> QED
  BY <1>2, <1>3, <1>4, <1>5 DEF IInv

LEMMA NextInvariant == IInv /\ [Next]_vars => IInv'
<1> SUFFICES ASSUME IInv, [Next]_vars PROVE IInv'
  OBVIOUS
<1>1. ASSUME NEW t \in Threads, ThreadStep(t) PROVE IInv'
  BY <1>1, BuildPayloadKeeps, WriteRuntimeKeeps, ReadRiskKeeps, PushRiskKeeps,
     WriteStoredKeeps, RegisterFoundKeeps DEF ThreadStep
<1>2. ASSUME NEW t \in Threads, NEW k \in RuntimeKeys, NEW v \in Values, SetRuntime(t, k, v)
      PROVE  IInv'
  BY <1>2, SetRuntimeKeeps
<1>3. ASSUME NEW t \in Threads, NEW s \in Sessions, NEW k \in SessionKeys, NEW v \in Values,
             LoadStored(t, s, k, v)
      PROVE  IInv'
  BY <1>3, LoadStoredKeeps
<1>4. ASSUME NEW t \in Threads, NEW s \in Sessions, FindNoSession(t, s) PROVE IInv'
  BY <1>4, FindNoSessionKeeps
<1>5. ASSUME NEW s \in Sessions, CreateSession(s) \/ StartBacktest(s) PROVE IInv'
  BY <1>5, CreateSessionKeeps, StartBacktestKeeps
<1>6. ASSUME NEW s \in Sessions, StopBacktest(s) \/ RunBegins(s) \/ RunEnds(s) PROVE IInv'
  BY <1>6, OthersKeep DEF StopBacktest, RunBegins, RunEnds, fileVars, historyVars
<1>7. ASSUME NEW s \in Sessions, NEW k \in SessionKeys, NEW v \in Values,
             UpdateSessionConfig(s, k, v)
      PROVE  IInv'
  BY <1>7, UpdateSessionConfigKeeps
<1>8. CASE UNCHANGED vars
  BY <1>8, OthersKeep DEF vars, fileVars, sessionVars, historyVars
<1> QED
  BY <1>1, <1>2, <1>3, <1>4, <1>5, <1>6, <1>7, <1>8, RestartKeeps DEF Next

(***************************************************************************)
(* The strengthened invariant holds in every behaviour.                   *)
(***************************************************************************)
THEOREM ControlInvariant == Spec => []IInv
<1> QED
  BY InitInvariant, NextInvariant, PTL DEF Spec

(***************************************************************************)
(* save_runtime_config: a setting saved while no older save was under way *)
(* survives every later save and every restart.                           *)
(***************************************************************************)
THEOREM RuntimeSurvives == Spec => []RuntimeIsDurable
<1>1. IInv => RuntimeIsDurable
  BY DEF IInv, RuntimeInv
<1> QED
  BY <1>1, ControlInvariant, PTL

(***************************************************************************)
(* save_control_config_merge: an acknowledged field survives updates of   *)
(* the others, and the creation, start and restart of its session.        *)
(***************************************************************************)
THEOREM SettingsSurvive == Spec => []SettingIsKept
<1>1. IInv => SettingIsKept
  BY DEF IInv, FilesInv
<1> QED
  BY <1>1, ControlInvariant, PTL

(***************************************************************************)
(* sync_dashboard_risk_to_all_sessions: once no request is under way, no  *)
(* session is left with a risk that is no longer in force.                *)
(***************************************************************************)
THEOREM RiskAlwaysConverges == Spec => []RiskConverges
<1>1. IInv => RiskConverges
  <2> SUFFICES ASSUME IInv,
                      \A t \in Threads : threads[t].session = "" => threads[t].pc = "idle",
                      NEW s \in Sessions, Exists(s), ~ own[s]
               PROVE  sessions[s].risk = memory[Risk]
    BY DEF RiskConverges
  <2>1. ~ PushComes
    BY DEF IInv, TypeInv, Shaped, PushComes, Global, Saving
  <2> QED
    BY <2>1 DEF IInv, RiskInv, Behind
<1> QED
  BY <1>1, ControlInvariant, PTL

=============================================================================
