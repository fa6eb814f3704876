------------------------------- MODULE Https -------------------------------
(***************************************************************************)
(* samples/https: main.c and cloud/cloud.c.  At boot the CA certificate is *)
(* provisioned in the modem, then the LTE link comes up and a timer gives  *)
(* thread_sem; each time main takes it, cloud_publish encodes a message,   *)
(* opens a TLS socket, posts the message and passes the response on.       *)
(*                                                                         *)
(* Actors: the main thread; the timer interrupt, which preempts it; the    *)
(* server, which answers or not; a reboot, which may come at any step and  *)
(* leaves only the modem's credential store as it was.  Any call into the  *)
(* modem or a library may fail, any number of times.                       *)
(***************************************************************************)
EXTENDS Integers, Sequences

CONSTANT
  LookupErrors   \* signs of the error codes that getaddrinfo returns

ASSUME HttpsAssumption == LookupErrors \subseteq {"negative", "positive"}

VARIABLES
  store,       \* CA chain under the security tag: "none", "cert", "other"
  lte,         \* the LTE link is up
  timer,       \* the periodic timer runs
  thread_sem,  \* count of the semaphore, at most 1
  pc,          \* where the main thread is
  provision,   \* what cert_provision returned: "pending", "ok", "error"
  held,        \* what the last publish has not given back to where it came from
  nopt,        \* how many socket options are set
  err,         \* err of socket_setup is negative
  ret,         \* ret of the last cloud_publish is negative
  sent,        \* history: http_client_req of the last publish succeeded
  status,      \* the response's status is 200 or 201
  calls,       \* history: calls of cloud_callback by the current publish
  clean        \* history: no call of cert_provision failed since boot

bootVars == <<store, lte, timer, provision, clean>>
pubVars  == <<held, nopt, err, ret, sent, status, calls>>
vars == <<bootVars, pubVars, thread_sem, pc>>

\* socket_setup and tls_setup set these, in this order, before they connect.
Options == <<"SO_RCVTIMEO", "SO_SNDTIMEO", "TLS_PEER_VERIFY",
             "TLS_SEC_TAG_LIST", "TLS_CIPHERSUITE_LIST", "TLS_HOSTNAME",
             "TLS_SESSION_CACHE">>

NumOptions == Len(Options)
OptionsSet == {Options[i] : i \in 1..nopt}

Boot    == {"modem", "exists", "cmp", "delete", "write", "lte", "start"}
Publish == {"encode", "lookup", "socket", "option", "connect", "cleanup",
            "request", "response", "close", "free", "k_free"}

Init ==
  /\ store \in {"none", "cert", "other"}
  /\ lte = FALSE /\ timer = FALSE /\ thread_sem = 0
  /\ pc = "modem" /\ provision = "pending" /\ clean = TRUE
  /\ held = {} /\ nopt = 0 /\ calls = 0
  /\ err = FALSE /\ ret = FALSE /\ sent = TRUE /\ status = FALSE

\* A panic, a watchdog or the reset button: only the store survives.
Reboot ==
  /\ lte' = FALSE /\ timer' = FALSE /\ thread_sem' = 0
  /\ pc' = "modem" /\ provision' = "pending" /\ clean' = TRUE
  /\ held' = {} /\ nopt' = 0 /\ calls' = 0
  /\ err' = FALSE /\ ret' = FALSE /\ sent' = TRUE /\ status' = FALSE
  /\ UNCHANGED store

-----------------------------------------------------------------------------
(* Boot: main() up to its loop.                                            *)

Goto(from, to) == pc = from /\ pc' = to

nrf_modem_lib_init ==
  /\ Goto("modem", "exists") \/ Goto("modem", "returned")
  /\ UNCHANGED <<bootVars, pubVars, thread_sem>>

\* cert_provision returns; cloud_init logs its error and goes on.
Provisioned(result) == provision' = result /\ pc' = "lte"
CallFails == clean' = FALSE

\* The variants called Wrong_, here and below, are mistakes that the properties
\* tell from the code.
Wrong_PresenceSuffices ==
  /\ pc = "exists"
  /\ \/ store = "none" /\ pc' = "write" /\ UNCHANGED provision
     \/ store # "none" /\ Provisioned("ok")
  /\ UNCHANGED <<store, lte, timer, clean, thread_sem, pubVars>>

modem_key_mgmt_exists ==
  /\ pc = "exists"
  /\ \/ Provisioned("error") /\ CallFails
     \/ /\ pc' = IF store = "none" THEN "write" ELSE "cmp"
        /\ UNCHANGED <<provision, clean>>
  /\ UNCHANGED <<store, lte, timer, thread_sem, pubVars>>

Wrong_AlwaysReplace ==
  /\ Goto("cmp", "delete")
  /\ UNCHANGED <<bootVars, thread_sem, pubVars>>

\* Any value but 0 is taken for a mismatch, the error of the call included.
modem_key_mgmt_cmp ==
  /\ pc = "cmp"
  /\ \/ store = "cert" /\ Provisioned("ok") /\ UNCHANGED clean
     \/ store # "cert" /\ pc' = "delete" /\ UNCHANGED <<provision, clean>>
     \/ CallFails /\ pc' = "delete" /\ UNCHANGED provision
  /\ UNCHANGED <<store, lte, timer, thread_sem, pubVars>>

\* A failed delete is logged; the write is tried all the same.
modem_key_mgmt_delete ==
  /\ Goto("delete", "write")
  /\ \/ store' = "none" /\ UNCHANGED clean
     \/ CallFails /\ UNCHANGED store
  /\ UNCHANGED <<lte, timer, provision, thread_sem, pubVars>>

modem_key_mgmt_write ==
  /\ pc = "write"
  /\ \/ store' = "cert" /\ Provisioned("ok") /\ UNCHANGED clean
     \/ Provisioned("error") /\ CallFails /\ UNCHANGED store
  /\ UNCHANGED <<lte, timer, thread_sem, pubVars>>

Wrong_ProvisionAgain ==
  /\ \/ pc = "lte" /\ lte' = TRUE
        /\ pc' = IF provision = "ok" THEN "start" ELSE "exists"
     \/ Goto("lte", "returned") /\ UNCHANGED lte
  /\ UNCHANGED <<store, timer, provision, clean, thread_sem, pubVars>>

lte_lc_connect ==
  /\ \/ Goto("lte", "start") /\ lte' = TRUE
     \/ Goto("lte", "returned") /\ UNCHANGED lte
  /\ UNCHANGED <<store, timer, provision, clean, thread_sem, pubVars>>

\* The timer is started and the semaphore given once for the first publish.
k_timer_start ==
  /\ Goto("start", "take")
  /\ timer' = TRUE /\ thread_sem' = 1
  /\ UNCHANGED <<store, lte, provision, clean, pubVars>>

-----------------------------------------------------------------------------
(* The timer interrupt and main's loop.                                    *)

k_sem_give == thread_sem' = 1

timeout_handler ==
  /\ timer /\ k_sem_give
  /\ UNCHANGED <<bootVars, pubVars, pc>>

k_sem_take ==
  /\ Goto("take", "encode")
  /\ thread_sem = 1 /\ thread_sem' = 0
  /\ held' = {} /\ nopt' = 0 /\ calls' = 0
  /\ err' = FALSE /\ ret' = FALSE /\ sent' = FALSE
  /\ UNCHANGED <<bootVars, status>>

-----------------------------------------------------------------------------
(* cloud_publish up to the socket.                                         *)

\* cJSON_PrintUnformatted allocates the message, or cloud_publish returns
\* -ENOMEM.
cJSON_PrintUnformatted ==
  /\ \/ Goto("encode", "lookup") /\ held' = {"msg"} /\ UNCHANGED ret
     \/ Goto("encode", "take") /\ ret' = TRUE /\ UNCHANGED held
  /\ UNCHANGED <<bootVars, thread_sem, nopt, err, sent, status, calls>>

\* The error code is returned as it is and cloud_publish takes any value that
\* is not negative for a socket.
getaddrinfo ==
  /\ pc = "lookup"
  /\ \/ held' = held \cup {"res"} /\ pc' = "socket" /\ UNCHANGED err
     \/ /\ "negative" \in LookupErrors
        /\ pc' = "k_free" /\ err' = TRUE /\ UNCHANGED held
     \/ /\ "positive" \in LookupErrors
        /\ pc' = "request" /\ UNCHANGED <<held, err>>
  /\ UNCHANGED <<bootVars, thread_sem, nopt, ret, sent, status, calls>>

CreateSocket ==
  /\ \/ Goto("socket", "option") /\ held' = held \cup {"fd"} /\ UNCHANGED err
     \/ Goto("socket", "cleanup") /\ err' = TRUE /\ UNCHANGED held
  /\ UNCHANGED <<bootVars, thread_sem, nopt, ret, sent, status, calls>>

\* The next of Options; the first that fails ends the set-up.
Wrong_OptionErrorIgnored ==
  /\ pc = "option"
  /\ \/ nopt' = nopt + 1 /\ pc' = (IF nopt' = NumOptions THEN "connect" ELSE pc)
     \/ pc' = "connect" /\ UNCHANGED nopt
  /\ UNCHANGED <<bootVars, thread_sem, held, err, ret, sent, status, calls>>

setsockopt ==
  /\ pc = "option"
  /\ \/ /\ nopt' = nopt + 1
        /\ pc' = (IF nopt' = NumOptions THEN "connect" ELSE pc)
        /\ UNCHANGED err
     \/ pc' = "cleanup" /\ err' = TRUE /\ UNCHANGED nopt
  /\ UNCHANGED <<bootVars, thread_sem, held, ret, sent, status, calls>>

\* The handshake succeeds with the right CA chain under the tag, or with any
\* if the verification of the peer was not asked for.
Handshake ==
  {"TLS_PEER_VERIFY", "TLS_SEC_TAG_LIST"} \subseteq OptionsSet => store = "cert"

connect ==
  /\ Goto("connect", "cleanup")
  /\ (Handshake /\ UNCHANGED err) \/ err' = TRUE
  /\ UNCHANGED <<bootVars, thread_sem, held, nopt, ret, sent, status, calls>>

\* clean_up of socket_setup: the socket survives only without an error.
Wrong_KeepsSocket == {"res"}
Released == {"res"} \cup (IF err THEN {"fd"} ELSE {})

clean_up ==
  /\ pc = "cleanup" /\ pc' = IF err THEN "k_free" ELSE "request"
  /\ held' = held \ Released
  /\ UNCHANGED <<bootVars, thread_sem, nopt, err, ret, sent, status, calls>>

-----------------------------------------------------------------------------
(* cloud_publish from the socket on.                                       *)

\* http_client_req sends; the answer's status arrives first.
SendRequest ==
  /\ \/ Goto("request", "response") /\ status' \in BOOLEAN
     \/ Goto("request", "close") /\ UNCHANGED status
  /\ UNCHANGED <<bootVars, thread_sem, held, nopt, err, ret, sent, calls>>

Wrong_EveryFragment(final, body) == IF status /\ body THEN 1 ELSE 0
CallsBack(final, body) == IF status /\ final /\ body THEN 1 ELSE 0

\* A fragment of the response; with the final one http_client_req returns.
response_cb(final, body) ==
  /\ pc = "response" /\ pc' = IF final THEN "close" ELSE pc
  /\ calls' = calls + CallsBack(final, body)
  /\ sent' = (sent \/ final)
  /\ UNCHANGED <<bootVars, thread_sem, held, nopt, err, ret, status>>

\* http_client_req gives up after its timeout.
Wrong_NoTimeout == FALSE
ResponseTimeout ==
  /\ Goto("response", "close")
  /\ UNCHANGED <<bootVars, thread_sem, pubVars>>

close ==
  /\ Goto("close", "free") /\ held' = held \ {"fd"}
  /\ UNCHANGED <<bootVars, thread_sem, nopt, err, ret, sent, status, calls>>

\* The message goes back to cJSON's allocator.
cJSON_free ==
  /\ Goto("free", "take") /\ held' = held \ {"msg"}
  /\ UNCHANGED <<bootVars, thread_sem, nopt, err, ret, sent, status, calls>>

\* After a failed set-up the message is handed to the kernel's heap, which it
\* does not come from: cJSON's allocator never gets it back.  What k_free makes
\* of a foreign pointer is undefined; that it goes on is modelled here, that it
\* ends in a fault is Reboot.
k_free ==
  /\ Goto("k_free", "take")
  /\ UNCHANGED <<bootVars, pubVars, thread_sem>>

-----------------------------------------------------------------------------
MainBoot == \/ nrf_modem_lib_init \/ modem_key_mgmt_exists \/ modem_key_mgmt_cmp
            \/ modem_key_mgmt_delete \/ modem_key_mgmt_write \/ lte_lc_connect
            \/ k_timer_start

cloud_publish == \/ cJSON_PrintUnformatted \/ getaddrinfo \/ CreateSocket
                 \/ setsockopt \/ connect \/ clean_up \/ SendRequest
                 \/ ResponseTimeout \/ close \/ cJSON_free \/ k_free

Main == MainBoot \/ k_sem_take \/ cloud_publish

Server == \E final, body \in BOOLEAN : response_cb(final, body)

Next == Main \/ timeout_handler \/ Server \/ Reboot

Spec == Init /\ [][Next]_vars

\* Main is scheduled whenever it can run and each of its calls returns, the
\* network calls by their timeouts.  The server need not answer.
FairSpec == Spec /\ WF_vars(Main)

-----------------------------------------------------------------------------
(* What the sample relies on and promises.                                 *)

TypeOK ==
  /\ store \in {"none", "cert", "other"}
  /\ lte \in BOOLEAN /\ timer \in BOOLEAN /\ clean \in BOOLEAN
  /\ thread_sem \in 0..1
  /\ pc \in Boot \cup Publish \cup {"take", "returned"}
  /\ provision \in {"pending", "ok", "error"}
  /\ held \subseteq {"msg", "res", "fd"} /\ nopt \in 0..NumOptions
  /\ err \in BOOLEAN /\ ret \in BOOLEAN /\ sent \in BOOLEAN
  /\ status \in BOOLEAN /\ calls \in 0..1

\* Between two publishes the socket and the address list have been released,
\* whatever call failed and wherever, and the message is lost if and only if the
\* set-up of the socket failed: that path gives it to the wrong heap.
OnlyFailedSetupLeaks ==
  pc \in Boot \cup {"take", "encode", "returned"} =>
    held = IF err THEN {"msg"} ELSE {}

\* A request goes out only on a socket that socket_setup opened, with every
\* option set and the server verified against the provisioned certificate.
\* The one exception is an error code of getaddrinfo that is not negative: it
\* is taken for a socket, and nothing but the message is held then.
RequestOnVerifiedSocket ==
  pc \in {"request", "response"} =>
    \/ "fd" \in held /\ nopt = NumOptions /\ store = "cert"
    \/ "positive" \in LookupErrors /\ held = {"msg"} /\ nopt = 0

\* If cert_provision returned 0, the certificate is in the modem and stays
\* there until the next boot.
ProvisionedMeansCert == provision = "ok" => store = "cert"

\* Whatever the last boot left behind, a crash between the deletion and the
\* write included, one boot whose credential calls succeed repairs the store.
BootRepairs ==
  clean /\ (lte \/ pc \in {"lte", "start"}) => store = "cert"

\* Both: what a provisioning claims is so, and a boot that works repairs the store.
StoreSafe == ProvisionedMeansCert /\ BootRepairs

\* The right certificate is deleted only after a call of cert_provision
\* failed in the same boot (the compare, whose error counts as a mismatch).
GoodCertKept == [][store = "cert" /\ store' # "cert" => ~clean]_vars

\* The store is written only while the link is down ("Provision certificates
\* before connecting to the LTE network", cloud.c:351).
StoreWrittenOffline == [][store' # store => ~lte]_vars

\* One publish calls cloud_callback at most once, and only for a response
\* whose status is 200 or 201, however many fragments it comes in.
CallbackOnce == calls <= 1 /\ (calls = 1 => status)

\* Main never gets stuck: until it returns it can always take its next step, a
\* server that does not answer or an option that cannot be set included, and it
\* waits for nothing but a tick.
MainGoesOn ==
  pc # "returned" /\ (pc = "take" => thread_sem = 1) => ENABLED <<Main>>_vars

\* A tick that comes at any moment, in the middle of a publish too, is
\* followed by a publish, unless a reboot resets the timer.
TickServed == thread_sem = 1 ~> pc \in {"encode", "modem"}

\* cloud.h:19: cloud_publish returns 0 if successful, a negative errno
\* otherwise.
PublishReportsFailure == pc = "take" /\ ~ret => sent
=============================================================================
