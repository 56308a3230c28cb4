-------------------------- MODULE HotReloadProofs --------------------------
(***************************************************************************)
(* Proofs about HotReload for every set of policies, callbacks, requests   *)
(* and streams and every bound.                                            *)
(*                                                                         *)
(* With any number of overlapping reloads: IInv is inductive.  Its heart   *)
(* is Ownership: a registry with running fetchers is the current policy's  *)
(* or belongs to exactly one reload, which will stop it; the swap of       *)
(* SetPolicy moves that duty from the new policy to the one it displaces.  *)
(*                                                                         *)
(* With one reloader (Callbacks = {}): SeqInv is inductive, and the reload *)
(* implements PolicySwitch.                                                *)
(***************************************************************************)
EXTENDS HotReload, TLAPS

USE NilAssumption, SighupAssumption, VersionAssumption
USE DEF Reloaders, Versions, Phases, Up, trig, local, heap, logger, served, clients, main

-----------------------------------------------------------------------------
(* Any number of reloaders.                                                *)

\* The program starts in a state of the invariant: nothing loaded, nothing running.
LEMMA InitIInv == Init => IInv
<1> SUFFICES ASSUME Init PROVE IInv
  OBVIOUS
<1>1. TypeOK
  <2>1. /\ disk \in Versions /\ lastRead \in 0..MaxVersion
        /\ level \in 0..MaxVersion /\ logging \in 0..MaxVersion
    BY DEF Init
  <2>2. version \in [Policies -> 0..MaxVersion]
    BY DEF Init
  <2> QED
    BY <2>1, <2>2, Zenon DEF Init, TypeOK
<1>2. Locals /\ Pointers
  BY Zenon DEF Init, Locals, Pointers
<1>3. Ownership
  BY Zenon DEF Init, Ownership
<1> QED
  BY <1>1, <1>2, <1>3, Zenon DEF IInv

\* Every step of every goroutine keeps the invariant.
LEMMA StepIInv == IInv /\ [Next]_vars => IInv'
<1> SUFFICES ASSUME IInv, [Next]_vars PROVE IInv'
  OBVIOUS
<1> USE DEF IInv
<1>1. ASSUME Edit PROVE IInv'
  BY <1>1 DEF Edit, TypeOK, Locals, Pointers, Ownership, Own, Ready
<1>2. ASSUME Signal PROVE IInv'
  BY <1>2 DEF Signal, TypeOK, Locals, Pointers, Ownership, Own, Ready
<1>3. ASSUME TakeSignal PROVE IInv'
  <2>1. TypeOK'
    BY <1>3, Zenon DEF TakeSignal, TypeOK, Locals, Pointers
  <2>2. Locals' /\ Pointers'
    BY <1>3, Zenon DEF TakeSignal, TypeOK, Locals, Pointers, Ownership
  <2>3. Ownership'
    BY <1>3, SMTT(30) DEF TakeSignal, TypeOK, Locals, Pointers, Ownership, Own, Ready
  <2> QED
    BY <2>1, <2>2, <2>3, Zenon
<1>4. ASSUME WatchEvent PROVE IInv'
  BY <1>4, SMTT(30) DEF WatchEvent, TypeOK, Locals, Pointers, Ownership, Own, Ready
<1>5. ASSUME NEW c \in Callbacks, TimerExpires(c) PROVE IInv'
  <2>1. TypeOK'
    BY <1>5, Zenon DEF TimerExpires, TypeOK, Locals, Pointers
  <2>2. Locals' /\ Pointers'
    BY <1>5, Zenon DEF TimerExpires, TypeOK, Locals, Pointers, Ownership
  <2>3. Ownership'
    BY <1>5, SMTT(30) DEF TimerExpires, TypeOK, Locals, Pointers, Ownership, Own, Ready
  <2> QED
    BY <2>1, <2>2, <2>3, Zenon
<1>6. ASSUME NEW t \in Reloaders, LoadFile(t) PROVE IInv'
  <2>1. TypeOK'
    BY <1>6 DEF LoadFile, Fresh, Referenced, TypeOK, Locals, Pointers
  <2>2. Locals' /\ Pointers'
    BY <1>6 DEF LoadFile, Fresh, Referenced, TypeOK, Locals, Pointers, Ownership
  <2>3. Ownership'
    BY <1>6, SMTT(30) DEF LoadFile, Fresh, Referenced, TypeOK, Locals, Pointers, Ownership,
       Own, Ready
  <2> QED
    BY <2>1, <2>2, <2>3, Zenon
<1>7. ASSUME NEW t \in Reloaders, LoadFails(t) PROVE IInv'
  <2>1. TypeOK'
    BY <1>7 DEF LoadFails, Return, TypeOK, Locals, Pointers
  <2>2. Locals' /\ Pointers'
    BY <1>7, Zenon DEF LoadFails, Return, TypeOK, Locals, Pointers, Ownership
  <2>3. Ownership'
    BY <1>7, SMTT(30) DEF LoadFails, Return, TypeOK, Locals, Pointers, Ownership, Own, Ready
  <2> QED
    BY <2>1, <2>2, <2>3
<1>8. ASSUME NEW t \in Reloaders, Start(t) PROVE IInv'
  <2>1. TypeOK'
    BY <1>8, Zenon DEF Start, TypeOK, Locals, Pointers
  <2>2. Locals' /\ Pointers'
    BY <1>8, Zenon DEF Start, TypeOK, Locals, Pointers, Ownership
  <2>3. Ownership'
    BY <1>8, SMTT(30) DEF Start, TypeOK, Locals, Pointers, Ownership, Own, Ready
  <2> QED
    BY <2>1, <2>2, <2>3
<1>9. ASSUME NEW t \in Reloaders, StartFails(t) PROVE IInv'
  <2>1. TypeOK'
    BY <1>9, Zenon DEF StartFails, Return, TypeOK, Locals, Pointers
  <2>2. Locals' /\ Pointers'
    BY <1>9, ZenonT(30) DEF StartFails, Return, TypeOK, Locals, Pointers, Ownership
  <2>3. Ownership'
    BY <1>9, SMTT(30) DEF StartFails, Return, TypeOK, Locals, Pointers, Ownership, Own,
       Ready
  <2> QED
    BY <2>1, <2>2, <2>3
<1>10. ASSUME NEW t \in Reloaders, ApplyLogging(t) PROVE IInv'
  <2>1. TypeOK'
    BY <1>10, Zenon DEF ApplyLogging, Configure, TypeOK, Locals, Pointers
  <2>2. Locals' /\ Pointers'
    BY <1>10, Zenon DEF ApplyLogging, Configure, TypeOK, Locals, Pointers, Ownership
  <2>3. Ownership'
    BY <1>10, SMTT(30) DEF ApplyLogging, Configure, TypeOK, Locals, Pointers, Ownership, Own, Ready
  <2> QED
    BY <2>1, <2>2, <2>3
<1>11. ASSUME NEW t \in Reloaders, SwapHTTP(t) PROVE IInv'
  <2>1. TypeOK'
    BY <1>11 DEF SwapHTTP, TypeOK, Locals, Pointers
  <2>2. Locals' /\ Pointers'
    BY <1>11, Zenon DEF SwapHTTP, TypeOK, Locals, Pointers, Ownership
  <2>3. Ownership'
    BY <1>11, SMTT(30) DEF SwapHTTP, TypeOK, Locals, Pointers, Ownership, Own, Ready
  <2> QED
    BY <2>1, <2>2, <2>3
<1>12. ASSUME NEW t \in Reloaders, SwapGRPC(t) PROVE IInv'
  <2>1. TypeOK'
    BY <1>12 DEF SwapGRPC, TypeOK, Locals, Pointers
  <2>2. Locals' /\ Pointers'
    BY <1>12, Zenon DEF SwapGRPC, TypeOK, Locals, Pointers, Ownership
  <2>3. Ownership'
    BY <1>12, SMTT(30) DEF SwapGRPC, TypeOK, Locals, Pointers, Ownership, Own, Ready
  <2> QED
    BY <2>1, <2>2, <2>3
<1>13. ASSUME NEW t \in Reloaders, StopOld(t) PROVE IInv'
  <2>1. TypeOK'
    BY <1>13, Zenon DEF StopOld, Return, TypeOK, Locals, Pointers
  <2>2. Locals' /\ Pointers'
    BY <1>13, ZenonT(30) DEF StopOld, Return, TypeOK, Locals, Pointers, Ownership
  <2>3. Ownership'
    BY <1>13, SMTT(30) DEF StopOld, Return, TypeOK, Locals, Pointers, Ownership, Own, Ready
  <2> QED
    BY <2>1, <2>2, <2>3
<1>14. ASSUME NEW r \in Requests, BeginRequest(r) PROVE IInv'
  <2>1. TypeOK'
    BY <1>14, Zenon DEF BeginRequest, TypeOK, Locals, Pointers
  <2>2. Locals' /\ Pointers'
    BY <1>14, ZenonT(30) DEF BeginRequest, TypeOK, Locals, Pointers, Ownership
  <2>3. Ownership'
    BY <1>14, SMTT(30) DEF BeginRequest, TypeOK, Locals, Pointers, Ownership, Own, Ready
  <2> QED
    BY <2>1, <2>2, <2>3, Zenon
<1>15. ASSUME NEW r \in Requests, EndRequest(r) PROVE IInv'
  <2>1. TypeOK'
    BY <1>15, Zenon DEF EndRequest, TypeOK, Locals, Pointers
  <2>2. Locals' /\ Pointers'
    BY <1>15, Zenon DEF EndRequest, TypeOK, Locals, Pointers, Ownership
  <2>3. Ownership'
    BY <1>15, SMTT(30) DEF EndRequest, TypeOK, Locals, Pointers, Ownership, Own, Ready
  <2> QED
    BY <2>1, <2>2, <2>3
<1>16. ASSUME NEW s \in Streams, OpenStream(s) PROVE IInv'
  BY <1>16, SMTT(30) DEF OpenStream, TypeOK, Locals, Pointers, Ownership, Own, Ready
<1>17. ASSUME NEW s \in Streams, StreamMessage(s) PROVE IInv'
  BY <1>17, SMTT(30) DEF StreamMessage, TypeOK, Locals, Pointers, Ownership, Own, Ready
<1>18. ASSUME NEW s \in Streams, CloseStream(s) PROVE IInv'
  BY <1>18, SMTT(30) DEF CloseStream, TypeOK, Locals, Pointers, Ownership, Own, Ready
<1>19. ASSUME BootLoad PROVE IInv'
  <2>1. TypeOK'
    BY <1>19, SMTT(30) DEF BootLoad, Configure, TypeOK, Locals, Pointers
  <2>2. Locals' /\ Pointers'
    BY <1>19, SMTT(30) DEF BootLoad, Configure, TypeOK, Locals, Pointers, Ownership
  <2>3. Ownership'
    BY <1>19, Zenon DEF BootLoad, Configure, TypeOK, Locals, Pointers, Ownership, Own, Ready
  <2> QED
    BY <2>1, <2>2, <2>3
<1>20. ASSUME BootStart PROVE IInv'
  <2>1. TypeOK'
    BY <1>20, Zenon DEF BootStart, TypeOK, Locals, Pointers
  <2>2. Locals' /\ Pointers'
    BY <1>20, Zenon DEF BootStart, TypeOK, Locals, Pointers, Ownership
  <2>3. Ownership'
    BY <1>20, ZenonT(30) DEF BootStart, TypeOK, Locals, Pointers, Ownership, Own, Ready
  <2> QED
    BY <2>1, <2>2, <2>3
<1>21. ASSUME BootFails PROVE IInv'
  <2>1. TypeOK'
    BY <1>21, Zenon DEF BootFails, TypeOK, Locals, Pointers
  <2>2. Locals' /\ Pointers'
    BY <1>21, Zenon DEF BootFails, TypeOK, Locals, Pointers, Ownership
  <2>3. Ownership'
    BY <1>21, ZenonT(30) DEF BootFails, TypeOK, Locals, Pointers, Ownership, Own, Ready
  <2> QED
    BY <2>1, <2>2, <2>3
<1>22. ASSUME StopSignal PROVE IInv'
  BY <1>22, SMTT(30) DEF StopSignal, TypeOK, Locals, Pointers, Ownership, Own, Ready
<1>23. ASSUME HTTPStopped PROVE IInv'
  BY <1>23, SMTT(30) DEF HTTPStopped, TypeOK, Locals, Pointers, Ownership, Own, Ready
<1>24. ASSUME GRPCStopped PROVE IInv'
  BY <1>24, SMTT(30) DEF GRPCStopped, TypeOK, Locals, Pointers, Ownership, Own, Ready
<1>25. ASSUME TakePolicy PROVE IInv'
  <2>1. TypeOK'
    BY <1>25, Zenon DEF TakePolicy, TypeOK, Locals, Pointers
  <2>2. Locals' /\ Pointers'
    BY <1>25, ZenonT(30) DEF TakePolicy, TypeOK, Locals, Pointers, Ownership
  <2>3. Ownership'
    BY <1>25, SMTT(30) DEF TakePolicy, TypeOK, Locals, Pointers, Ownership, Own, Ready
  <2> QED
    BY <2>1, <2>2, <2>3
<1>26. ASSUME StopPolicy PROVE IInv'
  <2>1. TypeOK'
    BY <1>26, Zenon DEF StopPolicy, TypeOK, Locals, Pointers
  <2>2. Locals' /\ Pointers'
    BY <1>26, Zenon DEF StopPolicy, TypeOK, Locals, Pointers, Ownership
  <2>3. Ownership'
    BY <1>26, Zenon DEF StopPolicy, TypeOK, Locals, Pointers, Ownership, Own, Ready
  <2> QED
    BY <2>1, <2>2, <2>3
<1>27. ASSUME ServerCrash PROVE IInv'
  <2>1. TypeOK'
    BY <1>27, Zenon DEF ServerCrash, TypeOK, Locals, Pointers
  <2>2. Locals' /\ Pointers'
    BY <1>27, Zenon DEF ServerCrash, TypeOK, Locals, Pointers, Ownership
  <2>3. Ownership'
    BY <1>27, ZenonT(30) DEF ServerCrash, TypeOK, Locals, Pointers, Ownership, Own, Ready
  <2> QED
    BY <2>1, <2>2, <2>3
<1>28. CASE UNCHANGED vars
  BY <1>28, SMTT(30) DEF vars, TypeOK, Locals, Pointers, Ownership, Own, Ready
<1> QED
  BY <1>1, <1>2, <1>3, <1>4, <1>5, <1>6, <1>7, <1>8, <1>9, <1>10, <1>11, <1>12, Zenon,
     <1>13, <1>14, <1>15, <1>16, <1>17, <1>18, <1>19, <1>20, <1>21, <1>22, <1>23,
     <1>24, <1>25, <1>26, <1>27, <1>28 DEF Next, ReloadStep, Shutdown

\* The invariant of overlapping reloads.
THEOREM Invariance == Spec => []IInv
BY InitIInv, StepIInv, PTL DEF Spec

\* Every variable keeps its type: in particular no goroutine dereferences a nil
\* policy once main() serves.
THEOREM TypeCorrect == Spec => []TypeOK
<1>1. IInv => TypeOK
  BY Zenon DEF IInv
<1> QED
  BY <1>1, Invariance, PTL

\* No pointer, and no request in flight, reaches a policy Start() has not accepted.
THEOREM ServedPolicyIsReady == Spec => []ServedReady
<1>1. IInv => ServedReady
  BY Zenon DEF IInv, Ownership, Ready, ServedReady
<1> QED
  BY <1>1, Invariance, PTL

\* reload() never stops the registry of the policy ext-authz checks use, and no
\* registry is stopped by two reloads.
THEOREM CurrentPolicyIsLive == Spec => []HTTPServesLive
<1>1. IInv => HTTPServesLive
  BY Zenon DEF IInv, TypeOK, Locals, Ownership, Own, HTTPServesLive
<1> QED
  BY <1>1, Invariance, PTL

\* When no reload is in flight, no policy that reloads displaced has running fetchers: of
\* those that Start() accepted only the current one has.
THEOREM DisplacedStop == Spec => []DisplacedAreStopped
<1>1. IInv => DisplacedAreStopped
  BY DEF IInv, TypeOK, Locals, Pointers, Ownership, Own, Quiet, DisplacedAreStopped
<1> QED
  BY <1>1, Invariance, PTL

-----------------------------------------------------------------------------
(* One reloader: the program run with --watch=false.                       *)

\* The sequential invariant holds before boot.
LEMMA InitSeqInv == Init => SeqInv
BY InitIInv, Zenon DEF Init, SeqInv, Sequential, Booting, LoggedBy

\* Every step keeps it when only the SIGHUP goroutine reloads.
LEMMA StepSeqInv ==
  ASSUME Callbacks = {}
  PROVE  SeqInv /\ [Next]_vars => SeqInv'
<1> SUFFICES ASSUME SeqInv, [Next]_vars PROVE Sequential' /\ Booting'
  BY StepIInv, Zenon DEF SeqInv
<1> USE DEF SeqInv, IInv
<1>0. Reloaders = {Sighup}
  OBVIOUS
<1>1. ASSUME Edit PROVE Sequential' /\ Booting'
  BY <1>0, <1>1, SMTT(30) DEF Edit, TypeOK, Locals, Pointers, Ownership, Own, Sequential,
     Booting, LoggedBy
<1>2. ASSUME Signal PROVE Sequential' /\ Booting'
  BY <1>0, <1>2, Zenon DEF Signal, TypeOK, Locals, Pointers, Ownership, Own, Sequential,
     Booting, LoggedBy
<1>3. ASSUME TakeSignal PROVE Sequential' /\ Booting'
  BY <1>0, <1>3 DEF TakeSignal, TypeOK, Locals, Pointers, Ownership, Own,
     Sequential, Booting, LoggedBy
<1>4. ASSUME WatchEvent PROVE Sequential' /\ Booting'
  BY <1>0, <1>4, Zenon DEF WatchEvent, TypeOK, Locals, Pointers, Ownership, Own,
     Sequential, Booting, LoggedBy
<1>5. ASSUME NEW c \in Callbacks, TimerExpires(c) PROVE Sequential' /\ Booting'
  BY <1>0, <1>5, Zenon DEF TimerExpires, TypeOK, Locals, Pointers, Ownership, Own,
     Sequential, Booting, LoggedBy
<1>6. ASSUME NEW t \in Reloaders, LoadFile(t) PROVE Sequential' /\ Booting'
  BY <1>0, <1>6, SMTT(30) DEF LoadFile, Fresh, Referenced, TypeOK, Locals, Pointers,
     Ownership, Own, Sequential, Booting, LoggedBy
<1>7. ASSUME NEW t \in Reloaders, LoadFails(t) PROVE Sequential' /\ Booting'
  BY <1>0, <1>7, SMTT(30) DEF LoadFails, Return, TypeOK, Locals, Pointers, Ownership, Own,
     Sequential, Booting, LoggedBy
<1>8. ASSUME NEW t \in Reloaders, Start(t) PROVE Sequential' /\ Booting'
  BY <1>0, <1>8, Zenon DEF Start, TypeOK, Locals, Pointers, Ownership, Own, Sequential,
     Booting, LoggedBy
<1>9. ASSUME NEW t \in Reloaders, StartFails(t) PROVE Sequential' /\ Booting'
  BY <1>0, <1>9, SMTT(30) DEF StartFails, Return, TypeOK, Locals, Pointers, Ownership, Own,
     Sequential, Booting, LoggedBy
<1>10. ASSUME NEW t \in Reloaders, ApplyLogging(t) PROVE Sequential' /\ Booting'
  BY <1>0, <1>10, ZenonT(30) DEF ApplyLogging, Configure, TypeOK, Locals, Pointers, Ownership, Own,
     Sequential, Booting, LoggedBy
<1>11. ASSUME NEW t \in Reloaders, SwapHTTP(t) PROVE Sequential' /\ Booting'
  BY <1>0, <1>11, SMTT(30) DEF SwapHTTP, TypeOK, Locals, Pointers, Ownership, Own,
     Sequential, Booting, LoggedBy
<1>12. ASSUME NEW t \in Reloaders, SwapGRPC(t) PROVE Sequential' /\ Booting'
  <2>1. /\ t = Sighup /\ Up /\ pc[Sighup] = "swapGRPC" /\ pc'[Sighup] = "stop"
        /\ grpc' = newCfg[Sighup]
        /\ UNCHANGED <<http, newCfg, old, version, level, logging, disk, phase>>
    BY <1>0, <1>12, Zenon DEF SwapGRPC, TypeOK
  <2>2. /\ http = newCfg[Sighup] /\ LoggedBy(newCfg[Sighup])
        /\ version[http] \in 1..disk
    BY <2>1, Zenon DEF Sequential
  <2>3. LoggedBy(newCfg[Sighup])'
    BY <2>1, <2>2, Zenon DEF LoggedBy
  <2>4. version[http] \in 1..version[http]
    BY <2>2
  <2>5. Sequential'
    BY <2>1, <2>2, <2>3, <2>4, Zenon DEF Sequential
  <2>6. Booting'
    BY <2>1, Zenon DEF Booting
  <2> QED
    BY <2>5, <2>6, Zenon
<1>13. ASSUME NEW t \in Reloaders, StopOld(t) PROVE Sequential' /\ Booting'
  BY <1>0, <1>13, SMTT(30) DEF StopOld, Return, TypeOK, Locals, Pointers, Ownership, Own,
     Sequential, Booting, LoggedBy
<1>14. ASSUME NEW r \in Requests, BeginRequest(r) PROVE Sequential' /\ Booting'
  BY <1>0, <1>14, Zenon DEF BeginRequest, TypeOK, Locals, Pointers, Ownership, Own,
     Sequential, Booting, LoggedBy
<1>15. ASSUME NEW r \in Requests, EndRequest(r) PROVE Sequential' /\ Booting'
  BY <1>0, <1>15, Zenon DEF EndRequest, TypeOK, Locals, Pointers, Ownership, Own,
     Sequential, Booting, LoggedBy
<1>16. ASSUME NEW s \in Streams, OpenStream(s) PROVE Sequential' /\ Booting'
  BY <1>0, <1>16, Zenon DEF OpenStream, TypeOK, Locals, Pointers, Ownership, Own,
     Sequential, Booting, LoggedBy
<1>17. ASSUME NEW s \in Streams, StreamMessage(s) PROVE Sequential' /\ Booting'
  BY <1>0, <1>17, Zenon DEF StreamMessage, TypeOK, Locals, Pointers, Ownership, Own,
     Sequential, Booting, LoggedBy
<1>18. ASSUME NEW s \in Streams, CloseStream(s) PROVE Sequential' /\ Booting'
  BY <1>0, <1>18, ZenonT(30) DEF CloseStream, TypeOK, Locals, Pointers, Ownership, Own,
     Sequential, Booting, LoggedBy
<1>19. ASSUME BootLoad PROVE Sequential' /\ Booting'
  BY <1>0, <1>19, SMTT(30) DEF BootLoad, Configure, TypeOK, Locals, Pointers, Ownership, Own,
     Sequential, Booting, LoggedBy
<1>20. ASSUME BootStart PROVE Sequential' /\ Booting'
  BY <1>0, <1>20 DEF BootStart, TypeOK, Locals, Pointers, Ownership, Own,
     Sequential, Booting, LoggedBy
<1>21. ASSUME BootFails PROVE Sequential' /\ Booting'
  BY <1>0, <1>21, Zenon DEF BootFails, TypeOK, Locals, Pointers, Ownership, Own,
     Sequential, Booting, LoggedBy
<1>22. ASSUME StopSignal PROVE Sequential' /\ Booting'
  BY <1>0, <1>22, Zenon DEF StopSignal, TypeOK, Locals, Pointers, Ownership, Own,
     Sequential, Booting, LoggedBy
<1>23. ASSUME HTTPStopped PROVE Sequential' /\ Booting'
  BY <1>0, <1>23, Zenon DEF HTTPStopped, TypeOK, Locals, Pointers, Ownership, Own,
     Sequential, Booting, LoggedBy
<1>24. ASSUME GRPCStopped PROVE Sequential' /\ Booting'
  BY <1>0, <1>24, Zenon DEF GRPCStopped, TypeOK, Locals, Pointers, Ownership, Own,
     Sequential, Booting, LoggedBy
<1>25. ASSUME TakePolicy PROVE Sequential' /\ Booting'
  BY <1>0, <1>25, Zenon DEF TakePolicy, TypeOK, Locals, Pointers, Ownership, Own,
     Sequential, Booting, LoggedBy
<1>26. ASSUME StopPolicy PROVE Sequential' /\ Booting'
  BY <1>0, <1>26, Zenon DEF StopPolicy, TypeOK, Locals, Pointers, Ownership, Own,
     Sequential, Booting, LoggedBy
<1>27. ASSUME ServerCrash PROVE Sequential' /\ Booting'
  BY <1>0, <1>27, Zenon DEF ServerCrash, TypeOK, Locals, Pointers, Ownership, Own,
     Sequential, Booting, LoggedBy
<1>28. CASE UNCHANGED vars
  BY <1>28, Zenon DEF vars, Sequential, Booting, LoggedBy
<1> QED
  BY <1>1, <1>2, <1>3, <1>4, <1>5, <1>6, <1>7, <1>8, <1>9, <1>10, <1>11, <1>12, Zenon,
     <1>13, <1>14, <1>15, <1>16, <1>17, <1>18, <1>19, <1>20, <1>21, <1>22, <1>23,
     <1>24, <1>25, <1>26, <1>27, <1>28 DEF Next, ReloadStep, Shutdown

\* The invariant of sequential reloads.
THEOREM SequentialInvariance ==
  ASSUME Callbacks = {}
  PROVE  Spec => []SeqInv
BY InitSeqInv, StepSeqInv, PTL DEF Spec

\* With --watch=false both servers use the same policy whenever no reload runs.
THEOREM Agreement ==
  ASSUME Callbacks = {}
  PROVE  Spec => []ServersAgree
<1>1. SeqInv => ServersAgree
  BY Zenon DEF SeqInv, Sequential, ServersAgree, Quiet
<1> QED
  BY <1>1, SequentialInvariance, PTL

\* With --watch=false the policy ext_proc messages are handled under has running
\* fetchers, during a reload too.
THEOREM FollowerIsLive ==
  ASSUME Callbacks = {}
  PROVE  Spec => []GRPCServesLive
<1>1. SeqInv => GRPCServesLive
  BY DEF SeqInv, IInv, TypeOK, Locals, Ownership, Own, Sequential, GRPCServesLive
<1> QED
  BY <1>1, SequentialInvariance, PTL

\* With --watch=false the logger is configured by the policy in use, if log.Configure took
\* its logging block.
THEOREM LoggerFollows ==
  ASSUME Callbacks = {}
  PROVE  Spec => []LoggingFollows
<1>1. SeqInv => LoggingFollows
  BY Zenon DEF SeqInv, Sequential, LoggingFollows, Quiet, Reloaders
<1> QED
  BY <1>1, SequentialInvariance, PTL

\* Once main() serves, only SwapHTTP moves the ext-authz server's pointer.
LEMMA OnlySwapHTTP ==
  ASSUME [Next]_vars, Up, http' # http
  PROVE  \E t \in Reloaders : SwapHTTP(t)
BY Zenon DEF Next, ReloadStep, Shutdown, vars, Return, Edit, Signal, TakeSignal,
   WatchEvent, TimerExpires, LoadFile, LoadFails, Start, StartFails, ApplyLogging,
   SwapGRPC, StopOld, BeginRequest, EndRequest, OpenStream, StreamMessage,
   CloseStream, BootLoad, BootStart, BootFails, StopSignal, HTTPStopped,
   GRPCStopped, TakePolicy, StopPolicy, ServerCrash

\* The version behind a served pointer changes by a swap or at boot only.
LEMMA OtherwiseServedStays ==
  ASSUME Callbacks = {}, SeqInv, [Next]_vars,
         ~BootStart, ~SwapHTTP(Sighup), ~SwapGRPC(Sighup)
  PROVE  UNCHANGED <<ServedVersion(http), ServedVersion(grpc)>>
<1>1. CASE LoadFile(Sighup)
  BY <1>1, Zenon DEF LoadFile, Fresh, Referenced, SeqInv, IInv, TypeOK, ServedVersion
<1>2. CASE BootLoad
  BY <1>2, Zenon DEF BootLoad, Configure, SeqInv, IInv, Pointers, ServedVersion
<1>3. CASE ~LoadFile(Sighup) /\ ~BootLoad
  <2>1. UNCHANGED <<http, grpc, version>>
    BY <1>3, Zenon DEF Next, ReloadStep, Shutdown, vars, Return, Edit, Signal,
       TakeSignal, WatchEvent, TimerExpires, LoadFails, Start, StartFails,
       ApplyLogging, StopOld, BeginRequest, EndRequest, OpenStream, StreamMessage,
       CloseStream, BootFails, StopSignal, HTTPStopped, GRPCStopped, TakePolicy,
       StopPolicy, ServerCrash
  <2> QED
    BY <2>1, Zenon DEF ServedVersion
<1> QED
  BY <1>1, <1>2, <1>3, Zenon

\* With --watch=false a stream never goes back to an older policy.  Before main() serves
\* no stream has had a message; later the version behind the ext_proc server's pointer
\* only grows.
THEOREM StreamsOnlyForward ==
  ASSUME Callbacks = {}
  PROVE  Spec => []StreamsForward
<1> DEFINE Fresh0 == phase \in {"boot", "bootStart"} => \A s \in Streams : seen[s] = {}
<1>1. Init => StreamsForward /\ Fresh0
  BY Zenon DEF Init, StreamsForward
<1>2. SeqInv /\ SeqInv' /\ StreamsForward /\ Fresh0 /\ [Next]_vars => StreamsForward' /\ Fresh0'
  <2> SUFFICES ASSUME SeqInv, SeqInv', StreamsForward, Fresh0, [Next]_vars
               PROVE  StreamsForward' /\ Fresh0'
    OBVIOUS
  <2>1. CASE \E s \in Streams : StreamMessage(s)
    BY <2>1 DEF StreamMessage, StreamsForward, SeqInv, IInv, TypeOK, Pointers
  <2>2. CASE \E s \in Streams : CloseStream(s)
    BY <2>2, Zenon DEF CloseStream, StreamsForward, SeqInv, IInv, TypeOK
  <2>3. CASE SwapGRPC(Sighup)
    BY <2>3, SMTT(30) DEF SwapGRPC, StreamsForward, SeqInv, IInv, TypeOK, Sequential
  <2>4. CASE BootStart
    BY <2>4, Zenon DEF BootStart, StreamsForward
  <2>5. CASE BootLoad
    BY <2>5, Zenon DEF BootLoad, StreamsForward
  <2>6. CASE LoadFile(Sighup)
    <3>1. version'[grpc'] = version[grpc] /\ seen' = seen /\ phase' = phase
      BY <2>6 DEF LoadFile, Fresh, Referenced, SeqInv, IInv, TypeOK
    <3> QED
      BY <3>1, Zenon DEF StreamsForward
  <2>7. CASE /\ ~\E s \in Streams : StreamMessage(s) \/ CloseStream(s)
             /\ ~SwapGRPC(Sighup) /\ ~BootStart /\ ~BootLoad /\ ~LoadFile(Sighup)
    <3>1. UNCHANGED <<seen, grpc, version>>
      BY <2>7, Zenon DEF Next, ReloadStep, Shutdown, vars, Return, Edit, Signal, TakeSignal,
         WatchEvent, TimerExpires, LoadFails, Start, StartFails, ApplyLogging,
         SwapHTTP, StopOld, BeginRequest, EndRequest, OpenStream, BootFails, StopSignal,
         HTTPStopped, GRPCStopped, TakePolicy, StopPolicy, ServerCrash
    <3>2. phase' \in {"boot", "bootStart"} => phase = phase'
      BY <2>7, Zenon DEF Next, ReloadStep, Shutdown, vars, Return, Edit, Signal, TakeSignal,
         WatchEvent, TimerExpires, LoadFails, Start, StartFails, ApplyLogging,
         SwapHTTP, StopOld, BeginRequest, EndRequest, OpenStream, BootFails, StopSignal,
         HTTPStopped, GRPCStopped, TakePolicy, StopPolicy, ServerCrash
    <3> QED
      BY <3>1, <3>2, Zenon DEF StreamsForward
  <2> QED
    BY <2>1, <2>2, <2>3, <2>4, <2>5, <2>6, <2>7, Zenon
<1> QED
  BY <1>1, <1>2, SequentialInvariance, PTL DEF Spec

\* With --watch=false a reload never brings back older file content.
THEOREM Forwards ==
  ASSUME Callbacks = {}
  PROVE  Spec => NeverBackwards
<1>1. SeqInv /\ [Next]_vars => [Up => version'[http'] >= version[http]]_http
  <2> SUFFICES ASSUME SeqInv, [Next]_vars, Up, http' # http
               PROVE  version'[http'] >= version[http]
    OBVIOUS
  <2>1. PICK t \in Reloaders : SwapHTTP(t)
    BY OnlySwapHTTP, Zenon
  <2>2. t = Sighup
    OBVIOUS
  <2> QED
    BY <2>1, <2>2 DEF SwapHTTP, SeqInv, IInv, TypeOK, Sequential
<1> QED
  BY <1>1, SequentialInvariance, PTL DEF Spec, NeverBackwards

\* With --watch=false the reload implements the abstract switch: both servers open
\* together, and a new version is published only after the other server followed.
THEOREM Refinement ==
  ASSUME Callbacks = {}
  PROVE  Spec => SwitchSpec
<1>1. Init => Switch!Init
  BY Zenon DEF Init, Switch!Init, ServedVersion
<1>2. SeqInv /\ SeqInv' /\ [Next]_vars
        => [Switch!Next]_<<ServedVersion(http), ServedVersion(grpc)>>
  <2> SUFFICES ASSUME SeqInv, SeqInv', [Next]_vars
               PROVE  [Switch!Next]_<<ServedVersion(http), ServedVersion(grpc)>>
    OBVIOUS
  <2>1. CASE BootStart
    BY <2>1, SMTT(30) DEF BootStart, Booting, Switch!Next, Switch!Open, SeqInv, IInv, TypeOK, Pointers,
       ServedVersion
  <2>2. CASE SwapHTTP(Sighup)
    <3>1. /\ phase = phase' /\ Up /\ pc[Sighup] = "swapHTTP" /\ http' = newCfg[Sighup]
          /\ grpc' = grpc /\ version' = version
      BY <2>2 DEF SwapHTTP
    <3>2. /\ http \in Policies /\ newCfg[Sighup] \in Policies
          /\ http # Nil /\ newCfg[Sighup] # Nil
      BY <3>1 DEF SeqInv, IInv, TypeOK, Locals, Pointers
    <3>3. /\ grpc = http /\ version[http] \in Nat \ {0}
          /\ version[newCfg[Sighup]] \in Nat /\ version[newCfg[Sighup]] >= version[http]
      BY <3>1, <3>2 DEF SeqInv, IInv, TypeOK, Sequential
    <3> QED
      BY <3>1, <3>2, <3>3 DEF ServedVersion, Switch!Next, Switch!Publish
  <2>3. CASE SwapGRPC(Sighup)
    BY <2>3, Zenon DEF SwapGRPC, Switch!Next, Switch!Follow, SeqInv, IInv, Locals, Pointers, Sequential,
       ServedVersion
  <2>4. CASE ~BootStart /\ ~SwapHTTP(Sighup) /\ ~SwapGRPC(Sighup)
    BY <2>4, OtherwiseServedStays, Zenon
  <2> QED
    BY <2>1, <2>2, <2>3, <2>4, Zenon
<1> QED
  BY <1>1, <1>2, SequentialInvariance, PTL DEF Spec, SwitchSpec, Switch!Spec
=============================================================================
