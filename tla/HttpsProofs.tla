---------------------------- MODULE HttpsProofs ----------------------------
(***************************************************************************)
(* Proofs about Https, whatever signs the error codes of getaddrinfo have. *)
(* The invariants are proved one after the other, each relative to those   *)
(* before it; all of them speak of single program points.                  *)
(***************************************************************************)
EXTENDS Https, TLAPS

LEMMA OptionsLen == NumOptions = 7
BY DEF NumOptions, Options

\* The counters, with the program points at which they still are what the
\* start of the publish made them.
CountInv ==
  /\ thread_sem \in 0..1
  /\ pc \in Boot \cup Publish \cup {"take", "returned"}
  /\ nopt \in 0..NumOptions /\ calls \in 0..1
  /\ pc \in {"encode", "lookup", "socket"} => nopt = 0
  /\ pc = "option" => nopt < NumOptions
  /\ pc \in Publish \ {"close", "free", "k_free"} => calls = 0

DataInv ==
  /\ store \in {"none", "cert", "other"}
  /\ lte \in BOOLEAN /\ timer \in BOOLEAN /\ clean \in BOOLEAN
  /\ provision \in {"pending", "ok", "error"}
  /\ held \subseteq {"msg", "res", "fd"}
  /\ err \in BOOLEAN /\ ret \in BOOLEAN /\ sent \in BOOLEAN
  /\ status \in BOOLEAN

LEMMA InitTypes == Init => CountInv /\ DataInv
<1> SUFFICES ASSUME Init PROVE CountInv /\ DataInv
  OBVIOUS
<1>1. CountInv
  BY OptionsLen DEF Init, CountInv, Boot, Publish
<1>2. DataInv
  BY Zenon DEF Init, DataInv
<1> QED
  BY <1>1, <1>2

LEMMA NextCount == CountInv /\ [Next]_vars => CountInv'
<1> SUFFICES ASSUME CountInv, [Next]_vars PROVE CountInv'
  OBVIOUS
<1> USE OptionsLen DEF CountInv, bootVars, pubVars, Goto
<1>1. CASE nrf_modem_lib_init
  BY <1>1 DEF nrf_modem_lib_init, Boot, Publish
<1>2. CASE modem_key_mgmt_exists
  BY <1>2 DEF modem_key_mgmt_exists, Provisioned, Boot, Publish
<1>3. CASE modem_key_mgmt_cmp
  BY <1>3 DEF modem_key_mgmt_cmp, Provisioned, Boot, Publish
<1>4. CASE modem_key_mgmt_delete
  BY <1>4 DEF modem_key_mgmt_delete, Boot, Publish
<1>5. CASE modem_key_mgmt_write
  BY <1>5 DEF modem_key_mgmt_write, Provisioned, Boot, Publish
<1>6. CASE lte_lc_connect
  BY <1>6 DEF lte_lc_connect, Boot, Publish
<1>7. CASE k_timer_start
  BY <1>7 DEF k_timer_start, Boot, Publish
<1>8. CASE k_sem_take
  BY <1>8 DEF k_sem_take, Boot, Publish
<1>9. CASE timeout_handler
  BY <1>9 DEF timeout_handler, k_sem_give, Boot, Publish
<1>10. CASE cJSON_PrintUnformatted
  BY <1>10 DEF cJSON_PrintUnformatted, Boot, Publish
<1>11. CASE getaddrinfo
  BY <1>11 DEF getaddrinfo, Boot, Publish
<1>12. CASE CreateSocket
  BY <1>12 DEF CreateSocket, Boot, Publish
<1>13. CASE setsockopt
  BY <1>13 DEF setsockopt, Boot, Publish
<1>14. CASE connect
  BY <1>14 DEF connect, Boot, Publish
<1>15. CASE clean_up
  BY <1>15 DEF clean_up, Boot, Publish
<1>16. CASE SendRequest
  BY <1>16 DEF SendRequest, Boot, Publish
<1>17. CASE ResponseTimeout
  BY <1>17 DEF ResponseTimeout, Boot, Publish
<1>18. CASE close
  BY <1>18 DEF close, Boot, Publish
<1>19. CASE cJSON_free \/ k_free
  BY <1>19 DEF cJSON_free, k_free, Boot, Publish
<1>20. ASSUME NEW final \in BOOLEAN, NEW body \in BOOLEAN, response_cb(final, body)
      PROVE  CountInv'
  <2>1. calls' \in 0..1 /\ (~final => calls' = 0)
    BY <1>20 DEF response_cb, CallsBack, Publish
  <2> QED
    BY <1>20, <2>1 DEF response_cb, Boot, Publish
<1>21. CASE Reboot
  BY <1>21 DEF Reboot, Boot, Publish
<1>22. CASE UNCHANGED vars
  BY <1>22 DEF vars
<1> QED
  BY <1>1, <1>2, <1>3, <1>4, <1>5, <1>6, <1>7, <1>8, <1>9, <1>10,
     <1>11, <1>12, <1>13, <1>14, <1>15, <1>16, <1>17, <1>18, <1>19,
     <1>20, <1>21, <1>22
     DEF Next, Main, MainBoot, cloud_publish, Server

LEMMA NextData == DataInv /\ [Next]_vars => DataInv'
<1> SUFFICES ASSUME DataInv, [Next]_vars PROVE DataInv'
  OBVIOUS
<1> USE DEF DataInv, bootVars, pubVars, Goto
<1>1. CASE nrf_modem_lib_init
  BY <1>1, Zenon DEF nrf_modem_lib_init
<1>2. CASE modem_key_mgmt_exists
  BY <1>2, Zenon DEF modem_key_mgmt_exists, Provisioned, CallFails
<1>3. CASE modem_key_mgmt_cmp
  BY <1>3, Zenon DEF modem_key_mgmt_cmp, Provisioned, CallFails
<1>4. CASE modem_key_mgmt_delete
  BY <1>4, Zenon DEF modem_key_mgmt_delete, CallFails
<1>5. CASE modem_key_mgmt_write
  BY <1>5, Zenon DEF modem_key_mgmt_write, Provisioned, CallFails
<1>6. CASE lte_lc_connect
  BY <1>6, Zenon DEF lte_lc_connect
<1>7. CASE k_timer_start
  BY <1>7, Zenon DEF k_timer_start
<1>8. CASE k_sem_take
  BY <1>8, Zenon DEF k_sem_take
<1>9. CASE timeout_handler
  BY <1>9, Zenon DEF timeout_handler
<1>10. CASE cJSON_PrintUnformatted
  BY <1>10, Zenon DEF cJSON_PrintUnformatted
<1>11. CASE getaddrinfo
  BY <1>11, Zenon DEF getaddrinfo
<1>12. CASE CreateSocket
  BY <1>12, Zenon DEF CreateSocket
<1>13. CASE setsockopt
  BY <1>13, Zenon DEF setsockopt
<1>14. CASE connect
  BY <1>14, Zenon DEF connect
<1>15. CASE clean_up
  BY <1>15, Zenon DEF clean_up
<1>16. CASE SendRequest
  BY <1>16, Zenon DEF SendRequest
<1>17. CASE ResponseTimeout
  BY <1>17, Zenon DEF ResponseTimeout
<1>18. CASE close
  BY <1>18, Zenon DEF close
<1>19. CASE cJSON_free \/ k_free
  BY <1>19, Zenon DEF cJSON_free, k_free
<1>20. ASSUME NEW final \in BOOLEAN, NEW body \in BOOLEAN, response_cb(final, body)
      PROVE  DataInv'
  BY <1>20, Zenon DEF response_cb
<1>21. CASE Reboot
  BY <1>21, Zenon DEF Reboot
<1>22. CASE UNCHANGED vars
  BY <1>22, Zenon DEF vars
<1> QED
  BY <1>1, <1>2, <1>3, <1>4, <1>5, <1>6, <1>7, <1>8, <1>9, <1>10,
     <1>11, <1>12, <1>13, <1>14, <1>15, <1>16, <1>17, <1>18, <1>19,
     <1>20, <1>21, <1>22
     DEF Next, Main, MainBoot, cloud_publish, Server

\* Type correctness; in particular thread_sem never exceeds its limit and one
\* publish never calls back twice.
THEOREM TypeCorrect == Spec => []TypeOK
<1>1. CountInv /\ DataInv => TypeOK
  BY Zenon DEF CountInv, DataInv, TypeOK
<1> QED
  BY <1>1, InitTypes, NextCount, NextData, PTL DEF Spec

-----------------------------------------------------------------------------
(* The certificate.  Between the deletion and the write the store is empty  *)
(* and a reboot may come; what helps is that every boot starts over with    *)
(* looking at the store, and believes it only after a compare.              *)

Provisioning == {"modem", "exists", "cmp", "delete", "write"}

StoreInv ==
  /\ pc \in Provisioning => provision = "pending"
  /\ pc \in Provisioning \cup {"lte", "returned"} => ~lte
  /\ provision = "ok" => store = "cert"
  /\ clean /\ pc = "delete" => store # "cert"
  /\ clean /\ pc \notin Provisioning \cup {"returned"} => store = "cert"

LEMMA InitStoreInv == Init => StoreInv
BY DEF Init, StoreInv, Provisioning

LEMMA NextStoreInv == StoreInv /\ [Next]_vars => StoreInv'
<1> SUFFICES ASSUME StoreInv, [Next]_vars PROVE StoreInv'
  OBVIOUS
<1> USE DEF StoreInv, Provisioning, Goto, bootVars
<1>1. CASE nrf_modem_lib_init
  BY <1>1 DEF nrf_modem_lib_init
<1>2. CASE modem_key_mgmt_exists
  BY <1>2 DEF modem_key_mgmt_exists, Provisioned, CallFails
<1>3. CASE modem_key_mgmt_cmp
  BY <1>3 DEF modem_key_mgmt_cmp, Provisioned, CallFails
<1>4. CASE modem_key_mgmt_delete
  BY <1>4 DEF modem_key_mgmt_delete, CallFails
<1>5. CASE modem_key_mgmt_write
  BY <1>5 DEF modem_key_mgmt_write, Provisioned, CallFails
<1>6. CASE lte_lc_connect \/ k_timer_start
  BY <1>6 DEF lte_lc_connect, k_timer_start
<1>7. CASE k_sem_take \/ timeout_handler \/ cloud_publish
  <2>1. UNCHANGED bootVars
    BY <1>7 DEF k_sem_take, timeout_handler, cloud_publish, cJSON_PrintUnformatted,
       getaddrinfo, CreateSocket, setsockopt, connect, clean_up, SendRequest,
       ResponseTimeout, close, cJSON_free, k_free
  <2>2. pc' = pc \/ {pc, pc'} \subseteq Publish \cup {"take"}
    <3>1. CASE k_sem_take \/ timeout_handler \/ cJSON_PrintUnformatted
      BY <3>1 DEF k_sem_take, timeout_handler, cJSON_PrintUnformatted, Publish, pubVars
    <3>4. CASE getaddrinfo
      BY <3>4 DEF getaddrinfo, Publish
    <3>2. CASE CreateSocket \/ setsockopt \/ connect
      BY <3>2 DEF CreateSocket, setsockopt, connect, Publish
    <3>3. CASE clean_up \/ SendRequest \/ ResponseTimeout \/ close \/ cJSON_free \/ k_free
      BY <3>3 DEF clean_up, SendRequest, ResponseTimeout, close, cJSON_free, k_free, Publish
    <3> QED
      BY <1>7, <3>1, <3>2, <3>3, <3>4 DEF cloud_publish
  <2> QED
    BY <2>1, <2>2 DEF Publish
<1>8. ASSUME NEW final \in BOOLEAN, NEW body \in BOOLEAN, response_cb(final, body)
      PROVE  StoreInv'
  BY <1>8 DEF response_cb
<1>9. CASE Reboot
  BY <1>9 DEF Reboot
<1>10. CASE UNCHANGED vars
  BY <1>10 DEF vars
<1> QED
  BY <1>1, <1>2, <1>3, <1>4, <1>5, <1>6, <1>7, <1>8, <1>9, <1>10
     DEF Next, Main, MainBoot, Server

LEMMA StoreInvariant == Spec => []StoreInv
BY InitStoreInv, NextStoreInv, PTL DEF Spec

\* When cert_provision returned 0 the certificate is in the modem from then on
\* (cloud.c:295-340), and one boot without a failing credential call repairs any
\* store, that of a boot cut short between delete and write included.
THEOREM StoreIsSafe == Spec => []StoreSafe
<1>1. StoreInv => ProvisionedMeansCert
  BY DEF StoreInv, ProvisionedMeansCert
<1>2. StoreInv => BootRepairs
  BY DEF StoreInv, BootRepairs, Provisioning
<1> QED
  BY <1>1, <1>2, StoreInvariant, PTL DEF StoreSafe

\* Only modem_key_mgmt_delete and _write touch the store.
LEMMA StoreChange ==
  ASSUME [Next]_vars, store' # store
  PROVE  modem_key_mgmt_delete \/ modem_key_mgmt_write
BY DEF Next, Main, MainBoot, Server, cloud_publish, vars, bootVars, Reboot,
   nrf_modem_lib_init, modem_key_mgmt_exists, modem_key_mgmt_cmp, lte_lc_connect,
   k_timer_start, k_sem_take, timeout_handler, response_cb,
   cJSON_PrintUnformatted, getaddrinfo, CreateSocket, setsockopt, connect,
   clean_up, SendRequest, ResponseTimeout, close, cJSON_free, k_free

\* The right certificate is lost only in a boot in which a call failed.
THEOREM GoodCertSurvives == Spec => GoodCertKept
<1>1. StoreInv /\ [Next]_vars => (store = "cert" /\ store' # "cert" => ~clean)
  <2> SUFFICES ASSUME StoreInv, [Next]_vars, store = "cert", store' # "cert"
               PROVE  ~clean
    OBVIOUS
  <2>1. modem_key_mgmt_delete
    BY StoreChange DEF modem_key_mgmt_write
  <2> QED
    BY <2>1 DEF modem_key_mgmt_delete, Goto, StoreInv
<1> QED
  BY <1>1, StoreInvariant, PTL DEF Spec, GoodCertKept

\* The credential store is never written with the link up (cloud.c:351).
THEOREM StoreOffline == Spec => StoreWrittenOffline
<1>1. StoreInv /\ [Next]_vars => (store' # store => ~lte)
  BY StoreChange DEF StoreInv, Provisioning, modem_key_mgmt_delete,
     modem_key_mgmt_write, Goto
<1> QED
  BY <1>1, StoreInvariant, PTL DEF Spec, StoreWrittenOffline

-----------------------------------------------------------------------------
(* What a publish holds, program point by program point.                   *)

HeldInv ==
  /\ pc \in Boot \cup {"take", "encode", "returned"} => OnlyFailedSetupLeaks
  /\ pc \in {"encode", "lookup", "socket", "option", "connect",
             "request", "response", "close", "free"} => ~err
  /\ pc = "lookup" => held = {"msg"}
  /\ pc = "socket" => held = {"msg", "res"}
  /\ pc \in {"option", "connect"} => held = {"msg", "res", "fd"}
  /\ pc = "cleanup" => {"msg"} \subseteq held /\ held \subseteq {"msg", "res", "fd"}
  /\ pc \in {"request", "response", "close"} =>
       {"msg"} \subseteq held /\ held \subseteq {"msg", "fd"}
  /\ pc = "free" => held = {"msg"}
  /\ pc = "k_free" => err /\ held = {"msg"}

LEMMA InitHeld == Init => HeldInv
BY DEF Init, HeldInv, OnlyFailedSetupLeaks

LEMMA NextHeld == HeldInv /\ [Next]_vars => HeldInv'
<1> SUFFICES ASSUME HeldInv, [Next]_vars PROVE HeldInv'
  OBVIOUS
<1> USE DEF HeldInv, OnlyFailedSetupLeaks, Boot, bootVars, pubVars, Goto
<1>1. CASE nrf_modem_lib_init \/ lte_lc_connect \/ k_timer_start
  BY <1>1 DEF nrf_modem_lib_init, lte_lc_connect, k_timer_start
<1>2. CASE modem_key_mgmt_exists \/ modem_key_mgmt_cmp
  BY <1>2 DEF modem_key_mgmt_exists, modem_key_mgmt_cmp, Provisioned
<1>3. CASE modem_key_mgmt_delete \/ modem_key_mgmt_write
  BY <1>3 DEF modem_key_mgmt_delete, modem_key_mgmt_write, Provisioned
<1>4. CASE k_sem_take \/ timeout_handler
  BY <1>4 DEF k_sem_take, timeout_handler
<1>5. CASE cJSON_PrintUnformatted
  BY <1>5 DEF cJSON_PrintUnformatted
<1>6. CASE getaddrinfo
  BY <1>6 DEF getaddrinfo
<1>7. CASE CreateSocket
  BY <1>7 DEF CreateSocket
<1>8. CASE setsockopt
  BY <1>8 DEF setsockopt
<1>9. CASE connect
  BY <1>9 DEF connect
<1>10. CASE clean_up
  BY <1>10 DEF clean_up, Released
<1>11. CASE SendRequest \/ ResponseTimeout
  BY <1>11 DEF SendRequest, ResponseTimeout
<1>12. CASE close \/ cJSON_free \/ k_free
  BY <1>12 DEF close, cJSON_free, k_free
<1>13. ASSUME NEW final \in BOOLEAN, NEW body \in BOOLEAN, response_cb(final, body)
      PROVE  HeldInv'
  BY <1>13 DEF response_cb
<1>14. CASE Reboot
  BY <1>14 DEF Reboot
<1>15. CASE UNCHANGED vars
  BY <1>15 DEF vars
<1> QED
  BY <1>1, <1>2, <1>3, <1>4, <1>5, <1>6, <1>7, <1>8, <1>9, <1>10, <1>11, <1>12, <1>13, <1>14, <1>15
     DEF Next, Main, MainBoot, cloud_publish, Server

\* On every path of cloud_publish the address list and the socket are released,
\* and so is the message, unless the set-up failed; then it is lost, and nothing
\* but it (cloud.c:97-182, 219-292).
THEOREM OnlyMessageLost == Spec => []OnlyFailedSetupLeaks
<1>1. HeldInv => OnlyFailedSetupLeaks
  BY DEF HeldInv, OnlyFailedSetupLeaks
<1> QED
  BY <1>1, InitHeld, NextHeld, PTL DEF Spec

-----------------------------------------------------------------------------
(* The socket a request goes out on.  err of socket_setup decides between   *)
(* the two ways out of clean_up, so it has to be FALSE exactly as long as   *)
(* everything so far has worked.                                            *)

Verified == "fd" \in held /\ nopt = NumOptions /\ store = "cert"
Unopened == held = {"msg"} /\ nopt = 0

SocketInv ==
  /\ pc \in {"encode", "lookup", "socket", "option", "connect"} => ~err
  /\ pc = "encode" => nopt = 0
  /\ pc = "lookup" => Unopened
  /\ pc \in {"option", "connect"} => "fd" \in held
  /\ pc = "connect" => nopt = NumOptions
  /\ pc = "cleanup" /\ ~err => Verified
  /\ pc \in {"request", "response"} =>
       Verified \/ ("positive" \in LookupErrors /\ Unopened)

LEMMA HandshakeVerifies == nopt = NumOptions /\ Handshake => store = "cert"
<1> SUFFICES ASSUME nopt = NumOptions, Handshake PROVE store = "cert"
  OBVIOUS
<1>1. OptionsSet = {Options[i] : i \in 1..7}
  BY OptionsLen DEF OptionsSet
<1>2. Options[3] \in OptionsSet /\ Options[4] \in OptionsSet
  BY <1>1
<1>3. Options[3] = "TLS_PEER_VERIFY" /\ Options[4] = "TLS_SEC_TAG_LIST"
  BY DEF Options
<1> QED
  BY <1>2, <1>3 DEF Handshake

LEMMA InitSocket == Init => SocketInv
BY DEF Init, SocketInv

LEMMA NextSocket == SocketInv /\ [Next]_vars => SocketInv'
<1> SUFFICES ASSUME SocketInv, [Next]_vars PROVE SocketInv'
  OBVIOUS
<1> USE DEF SocketInv, Verified, Unopened, Boot, bootVars, pubVars, Goto
<1>1. CASE nrf_modem_lib_init \/ lte_lc_connect \/ k_timer_start
  BY <1>1 DEF nrf_modem_lib_init, lte_lc_connect, k_timer_start
<1>2. CASE modem_key_mgmt_exists \/ modem_key_mgmt_cmp
  BY <1>2 DEF modem_key_mgmt_exists, modem_key_mgmt_cmp, Provisioned
<1>3. CASE modem_key_mgmt_delete \/ modem_key_mgmt_write
  BY <1>3 DEF modem_key_mgmt_delete, modem_key_mgmt_write, Provisioned
<1>4. CASE k_sem_take \/ timeout_handler
  BY <1>4 DEF k_sem_take, timeout_handler
<1>5. CASE cJSON_PrintUnformatted
  BY <1>5 DEF cJSON_PrintUnformatted
<1>6. CASE getaddrinfo
  BY <1>6 DEF getaddrinfo
<1>7. CASE CreateSocket
  BY <1>7 DEF CreateSocket
<1>8. CASE setsockopt
  BY <1>8 DEF setsockopt
<1>9. CASE connect
  <2>1. pc = "connect" /\ pc' = "cleanup" /\ UNCHANGED <<held, nopt, store>>
    BY <1>9 DEF connect
  <2>2. ~err' => store = "cert"
    BY <1>9, <2>1, HandshakeVerifies DEF connect
  <2> QED
    BY <2>1, <2>2
<1>10. CASE clean_up
  BY <1>10 DEF clean_up, Released
<1>11. CASE SendRequest \/ ResponseTimeout
  BY <1>11 DEF SendRequest, ResponseTimeout
<1>12. CASE close \/ cJSON_free \/ k_free
  BY <1>12 DEF close, cJSON_free, k_free
<1>13. ASSUME NEW final \in BOOLEAN, NEW body \in BOOLEAN, response_cb(final, body)
      PROVE  SocketInv'
  BY <1>13 DEF response_cb
<1>14. CASE Reboot
  BY <1>14 DEF Reboot
<1>15. CASE UNCHANGED vars
  BY <1>15 DEF vars
<1> QED
  BY <1>1, <1>2, <1>3, <1>4, <1>5, <1>6, <1>7, <1>8, <1>9, <1>10, <1>11, <1>12, <1>13, <1>14, <1>15
     DEF Next, Main, MainBoot, cloud_publish, Server

\* A request goes out only on an open socket with all seven options, and the
\* peer was checked against the provisioned certificate (cloud.c:34-182); if
\* not, getaddrinfo has error codes that are not negative and returned one.
THEOREM RequestVerified == Spec => []RequestOnVerifiedSocket
<1>1. SocketInv => RequestOnVerifiedSocket
  BY DEF SocketInv, Verified, Unopened, RequestOnVerifiedSocket
<1>2. SocketInv /\ [Next]_vars => SocketInv'
  BY NextSocket
<1> QED
  BY <1>1, <1>2, InitSocket, PTL DEF Spec

-----------------------------------------------------------------------------

\* One publish calls back at most once, and only for a good status: the only
\* step that changes the status comes before the first fragment
\* (cloud.c:184-217).
THEOREM CalledBackOnce == Spec => []CallbackOnce
<1> DEFINE CallInv == calls = 1 => status
<1>1. Init => CallInv
  BY DEF Init
<1>2. CountInv /\ CallInv /\ [Next]_vars => CallInv'
  <2> SUFFICES ASSUME CountInv, CallInv, [Next]_vars PROVE CallInv'
    OBVIOUS
  <2>1. CASE UNCHANGED <<calls, status>>
    BY <2>1
  <2>2. CASE SendRequest
    <3>1. pc = "request" /\ calls' = calls
      BY <2>2 DEF SendRequest, Goto
    <3>2. calls = 0
      BY <3>1 DEF CountInv, Publish
    <3> QED
      BY <3>1, <3>2
  <2>3. ASSUME NEW final \in BOOLEAN, NEW body \in BOOLEAN, response_cb(final, body)
        PROVE  CallInv'
    BY <2>3 DEF response_cb, CallsBack, CountInv, Publish
  <2>4. CASE k_sem_take \/ Reboot
    BY <2>4 DEF k_sem_take, Reboot
  <2> QED
    BY <2>1, <2>2, <2>3, <2>4 DEF Next, Main, MainBoot, cloud_publish, Server, vars,
       pubVars, nrf_modem_lib_init, modem_key_mgmt_exists, modem_key_mgmt_cmp,
       modem_key_mgmt_delete, modem_key_mgmt_write, lte_lc_connect, k_timer_start,
       timeout_handler, cJSON_PrintUnformatted, getaddrinfo, CreateSocket,
       setsockopt, connect, clean_up, ResponseTimeout, close, cJSON_free, k_free
<1>3. CountInv /\ CallInv => CallbackOnce
  BY DEF CountInv, CallbackOnce
<1> QED
  BY <1>1, <1>2, <1>3, InitTypes, NextCount, PTL DEF Spec

-----------------------------------------------------------------------------
(* A tick is served.  While thread_sem holds one, main is some number of    *)
(* its own steps away from taking it: Distance.  Each step of main lowers   *)
(* it, and nothing but a reboot raises it.                                  *)

\* The semaphore is given only by the timer, and the timer runs only once main
\* has started it.
TimerInv == pc \in Boot \cup {"returned"} => ~timer /\ thread_sem = 0

LEMMA TimerStarted == Spec => []TimerInv
<1>1. Init => TimerInv
  BY DEF Init, TimerInv
<1>2. CountInv /\ TimerInv /\ [Next]_vars => TimerInv'
  <2> SUFFICES ASSUME CountInv, TimerInv, [Next]_vars PROVE TimerInv'
    OBVIOUS
  <2> USE DEF TimerInv, Boot, Goto, bootVars
  <2>1. CASE nrf_modem_lib_init \/ modem_key_mgmt_delete \/ lte_lc_connect \/ k_timer_start
    BY <2>1 DEF nrf_modem_lib_init, modem_key_mgmt_delete, lte_lc_connect, k_timer_start
  <2>2. CASE modem_key_mgmt_exists \/ modem_key_mgmt_cmp \/ modem_key_mgmt_write
    BY <2>2 DEF modem_key_mgmt_exists, modem_key_mgmt_cmp, modem_key_mgmt_write
  <2>3. CASE k_sem_take
    BY <2>3 DEF k_sem_take
  <2>4. CASE timeout_handler
    BY <2>4 DEF timeout_handler
  <2>5. CASE cloud_publish
    BY <2>5 DEF cloud_publish, cJSON_PrintUnformatted, getaddrinfo, CreateSocket,
       setsockopt, connect, clean_up, SendRequest, ResponseTimeout, close,
       cJSON_free, k_free
  <2>6. ASSUME NEW final \in BOOLEAN, NEW body \in BOOLEAN, response_cb(final, body)
        PROVE  TimerInv'
    BY <2>6 DEF response_cb
  <2>7. CASE Reboot
    BY <2>7 DEF Reboot
  <2>8. CASE UNCHANGED vars
    BY <2>8 DEF vars
  <2> QED
    BY <2>1, <2>2, <2>3, <2>4, <2>5, <2>6, <2>7, <2>8 DEF Next, Main, MainBoot, Server
<1> QED
  BY <1>1, <1>2, InitTypes, NextCount, PTL DEF Spec

\* A tick waits, and the publish or the reboot that answers it has not come.
Due == thread_sem = 1 /\ pc \notin {"encode", "modem"}

ServeInv == CountInv /\ TimerInv

Distance ==
  CASE pc = "lookup"   -> 16
    [] pc = "socket"   -> 15
    [] pc = "option"   -> 14 - nopt
    [] pc = "connect"  -> 7
    [] pc = "cleanup"  -> 6
    [] pc = "request"  -> 5
    [] pc = "response" -> 4
    [] pc = "close"    -> 3
    [] pc \in {"free", "k_free"} -> 2
    [] OTHER           -> 1

LEMMA DistanceBound == ServeInv => Distance \in 1..16
BY OptionsLen DEF ServeInv, CountInv, Distance

LEMMA DistanceBoundNext == ServeInv' => Distance' \in 1..16
BY OptionsLen DEF ServeInv, CountInv, Distance, NumOptions, Options

\* Each step of main brings it closer to taking the tick.
LEMMA MainComesCloser ==
  ASSUME ServeInv, ServeInv', Due, Due', Main
  PROVE  Distance' < Distance
<1> USE OptionsLen DEF ServeInv, CountInv, TimerInv, Due, Distance, Goto
<1>1. pc \in Publish \cup {"take"}
  BY DEF Publish, Boot
<1>2. CASE MainBoot
  BY <1>1, <1>2 DEF MainBoot, Publish, nrf_modem_lib_init, modem_key_mgmt_exists,
     modem_key_mgmt_cmp, modem_key_mgmt_delete, modem_key_mgmt_write,
     lte_lc_connect, k_timer_start
<1>3. CASE k_sem_take
  BY <1>3 DEF k_sem_take
<1>4. CASE cJSON_PrintUnformatted
  BY <1>4 DEF cJSON_PrintUnformatted
<1>5. CASE getaddrinfo
  BY <1>5 DEF getaddrinfo
<1>6. CASE CreateSocket
  BY <1>6 DEF CreateSocket, CountInv
<1>7. CASE setsockopt
  BY <1>7 DEF setsockopt
<1>8. CASE connect
  BY <1>8 DEF connect
<1>9. CASE clean_up
  BY <1>9 DEF clean_up
<1>10. CASE SendRequest \/ ResponseTimeout
  BY <1>10 DEF SendRequest, ResponseTimeout
<1>11. CASE close \/ cJSON_free \/ k_free
  BY <1>11 DEF close, cJSON_free, k_free
<1> QED
  BY <1>2, <1>3, <1>4, <1>5, <1>6, <1>7, <1>8, <1>9, <1>10, <1>11
     DEF Main, cloud_publish

\* No step takes it further away: neither a further tick nor a fragment of the
\* response does.
LEMMA NeverFurther ==
  ASSUME ServeInv, ServeInv', Due, Due', [Next]_vars
  PROVE  Distance' <= Distance
<1>1. Distance \in Int /\ Distance' \in Int
  BY DistanceBound, DistanceBoundNext
<1>2. CASE Main
  BY <1>1, <1>2, MainComesCloser
<1>3. CASE timeout_handler \/ UNCHANGED vars
  <2>1. pc' = pc /\ nopt' = nopt
    BY <1>3 DEF timeout_handler, vars, pubVars
  <2> QED
    BY <1>1, <2>1 DEF Distance
<1>4. ASSUME NEW final \in BOOLEAN, NEW body \in BOOLEAN, response_cb(final, body)
      PROVE  Distance' <= Distance
  BY <1>4 DEF response_cb, Distance
<1>5. CASE Reboot
  BY <1>5 DEF Reboot, Due
<1> QED
  BY <1>2, <1>3, <1>4, <1>5 DEF Next, Server

Within(n) == Due /\ Distance \in 1..n

\* From n steps away main gets at most m steps away, and the others do no harm.
Closer(n, m) ==
  /\ ServeInv /\ ServeInv' /\ Within(n) /\ [Next]_vars => (Within(n) \/ ~Due)'
  /\ ServeInv /\ ServeInv' /\ Within(n) /\ ~Within(m) /\ <<Main>>_vars
       => (Within(m) \/ ~Due)'
  /\ ServeInv /\ MainGoesOn /\ Within(n) /\ ~Within(m) => ENABLED <<Main>>_vars

LEMMA EachStepCloser ==
  /\ Closer(16, 15) /\ Closer(15, 14) /\ Closer(14, 13) /\ Closer(13, 12)
  /\ Closer(12, 11) /\ Closer(11, 10) /\ Closer(10, 9)  /\ Closer(9, 8)
  /\ Closer(8, 7)   /\ Closer(7, 6)   /\ Closer(6, 5)   /\ Closer(5, 4)
  /\ Closer(4, 3)   /\ Closer(3, 2)   /\ Closer(2, 1)   /\ Closer(1, 0)
<1>1. ASSUME NEW n \in 1..16, ServeInv, ServeInv', Within(n), [Next]_vars
      PROVE  (Within(n) \/ ~Due)'
  BY <1>1, DistanceBoundNext, NeverFurther DEF Within
<1>2. ASSUME NEW m \in 0..15, ServeInv, ServeInv', Within(m + 1), ~Within(m), Main
      PROVE  (Within(m) \/ ~Due)'
  <2>1. Due /\ Distance = m + 1
    BY <1>2, DistanceBound DEF Within
  <2>2. Due' => Distance' < Distance
    BY <1>2, <2>1, MainComesCloser
  <2> QED
    BY <1>2, <2>1, <2>2, DistanceBoundNext DEF Within
<1>3. ServeInv /\ MainGoesOn /\ Due => ENABLED <<Main>>_vars
  BY DEF MainGoesOn, Due, ServeInv, TimerInv
<1>4. ASSUME NEW m \in 0..15 PROVE Closer(m + 1, m)
  <2>1. m + 1 \in 1..16
    OBVIOUS
  <2> QED
    BY <1>1, <1>2, <1>3, <2>1 DEF Closer, Within
<1> QED
  BY <1>4

\* Every tick is followed by a publish, one that comes in the middle of a
\* publish too, unless a reboot resets the timer: provided that main never gets
\* stuck (cloud.c:219-292, main.c:60-86).
THEOREM TickIsServed == FairSpec /\ []MainGoesOn => TickServed
<1>1. Spec => []ServeInv
  BY InitTypes, NextCount, TimerStarted, PTL DEF ServeInv, Spec
<1>2. ServeInv /\ Due => Within(16)
  BY DistanceBound DEF Within
<1>3. ~Within(0)
  BY DEF Within
<1>4. thread_sem = 1 => Due \/ pc \in {"encode", "modem"}
  BY DEF Due
<1>5. FairSpec /\ []MainGoesOn => (Within(16) ~> Within(8) \/ ~Due)
  BY <1>1, EachStepCloser, PTL DEF Closer, FairSpec, Spec
<1>6. FairSpec /\ []MainGoesOn => (Within(8) ~> Within(0) \/ ~Due)
  BY <1>1, EachStepCloser, PTL DEF Closer, FairSpec, Spec
<1>7. ServeInv /\ Due /\ [Next]_vars => (Due \/ pc \in {"encode", "modem"})'
  <2> SUFFICES ASSUME ServeInv, Due, [Next]_vars, thread_sem' # thread_sem
               PROVE  (pc \in {"encode", "modem"})'
    BY DEF Due
  <2>1. k_sem_take \/ Reboot
    BY DEF Due, ServeInv, TimerInv, Boot, Next, Main, MainBoot, Server, cloud_publish,
       vars, nrf_modem_lib_init, modem_key_mgmt_exists, modem_key_mgmt_cmp,
       modem_key_mgmt_delete, modem_key_mgmt_write, lte_lc_connect, k_timer_start,
       timeout_handler, k_sem_give, response_cb, cJSON_PrintUnformatted, getaddrinfo,
       CreateSocket, setsockopt, connect, clean_up, SendRequest, ResponseTimeout,
       close, cJSON_free, k_free
  <2> QED
    BY <2>1 DEF k_sem_take, Goto, Reboot
<1> QED
  BY <1>1, <1>2, <1>3, <1>4, <1>5, <1>6, <1>7, PTL DEF TickServed, FairSpec, Spec
=============================================================================
