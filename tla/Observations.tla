----------------------------- MODULE Observations -----------------------------
(***************************************************************************)
(* Observations and their images: a client asks for an observation, is      *)
(* given a picture's name and digest, and fetches the picture by its name.   *)
(* The service keeps the newest pictures only.  It names an observation      *)
(* before it waits for the lock of its image store, so pictures may be       *)
(* stored out of the order of their names.                                   *)
(*                                                                         *)
(* A service that is started again counts observations from zero.  A         *)
(* container that is stopped and started keeps its runtime generation and    *)
(* its token; one that is replaced gets new ones.                            *)
(***************************************************************************)
EXTENDS Naturals, Sequences, FiniteSets

CONSTANTS Clients,      \* the commands that look at the desktop, once each
          MaxImages,    \* MAX_IMAGES
          MaxBytes,     \* MAX_IMAGE_BYTES
          Sizes,        \* bound: how large a picture may be
          MaxRestarts   \* bound: how often the service is started again

ASSUME ClientsAssumption == IsFiniteSet(Clients)
ASSUME LimitsAssumption == /\ MaxImages \in Nat \ {0} /\ MaxBytes \in Nat
                           /\ Sizes \subseteq Nat /\ MaxRestarts \in Nat

VARIABLES
  pc,             \* where each command is
  token,          \* the credentials it has loaded, as the generation they are of
  shot,           \* the picture its handler has taken
  name,           \* the observation id its handler was given
  observation,    \* what it was told
  got,            \* the picture it was given for it
  generation,     \* runtime_generation
  observation_id,
  images,         \* the entries of the ImageStore, oldest first
  total_bytes,
  (* history of the run, never read by a step's guard but for MaxRestarts *)
  captures,       \* pictures taken: each has a number of its own
  inserted,       \* every entry inserted since the service was started
  restarts,
  outlived        \* commands whose service was started again under them

client  == <<pc, token, observation, got>>
handler == <<shot, name>>
service == <<generation, observation_id, images, total_bytes>>
history == <<captures, inserted, restarts, outlived>>
vars    == <<client, handler, service, history>>

Handling == {"asked", "captured", "named"}
Picture  == [shows : Nat, bytes : Sizes \cup {0}]
Name     == [generation : Nat, id : Nat]
Entry    == [name : Name, picture : Picture]
Blank    == [shows |-> 0, bytes |-> 0]   \* no picture
Nameless == [generation |-> 0, id |-> 0]
NoEntry  == [name |-> Nameless, picture |-> Blank]

TypeOK ==
  /\ pc \in [Clients -> {"idle", "loaded", "told", "seen", "missing", "failed"} \cup Handling]
  /\ token \in [Clients -> Nat]
  /\ shot \in [Clients -> Picture]
  /\ name \in [Clients -> Name]
  /\ observation \in [Clients -> Entry]
  /\ got \in [Clients -> Picture]
  /\ generation \in 1..(MaxRestarts + 1)
  /\ observation_id \in 0..Cardinality(Clients)
  /\ images \in Seq(Entry) /\ Len(images) <= MaxImages
  /\ total_bytes \in 0..MaxBytes
  /\ captures \in Nat
  /\ inserted \in Seq(Entry)
  /\ restarts \in 0..MaxRestarts
  /\ outlived \subseteq Clients

Init ==
  /\ pc = [c \in Clients |-> "idle"]
  /\ token = [c \in Clients |-> 0]
  /\ shot = [c \in Clients |-> Blank]
  /\ name = [c \in Clients |-> Nameless]
  /\ observation = [c \in Clients |-> NoEntry]
  /\ got = [c \in Clients |-> Blank]
  /\ generation = 1
  /\ observation_id = 0
  /\ images = <<>>
  /\ total_bytes = 0
  /\ captures = 0
  /\ inserted = <<>>
  /\ restarts = 0
  /\ outlived = {}

To(c, step) == pc' = [pc EXCEPT ![c] = step]

(* A handler returns, or is dropped with what it had.                       *)
Leave(c, step) == /\ To(c, step)
                  /\ shot' = [shot EXCEPT ![c] = Blank]
                  /\ name' = [name EXCEPT ![c] = Nameless]

-----------------------------------------------------------------------------
(* A command loads the client descriptor and asks for an observation.       *)
Load(c) ==
  /\ pc[c] = "idle"
  /\ To(c, "loaded")
  /\ token' = [token EXCEPT ![c] = generation]
  /\ UNCHANGED <<observation, got, handler, service, history>>

Observe(c) ==
  /\ pc[c] = "loaded"
  /\ To(c, IF token[c] = generation THEN "asked" ELSE "failed")
  /\ UNCHANGED <<token, observation, got, handler, service, history>>

(* The blocking capture; it may fail or outlast its deadline.               *)
Capture(c) ==
  /\ pc[c] = "asked"
  /\ \E size \in Sizes :
       shot' = [shot EXCEPT ![c] = [shows |-> captures + 1, bytes |-> size]]
  /\ captures' = captures + 1
  /\ To(c, "captured")
  /\ UNCHANGED <<token, observation, got, name, service, inserted, restarts, outlived>>

(* store_capture up to the lock of the image store.                         *)
NameShot(c) ==
  /\ pc[c] = "captured"
  /\ observation_id' = observation_id + 1
  /\ name' = [name EXCEPT ![c] = [generation |-> generation, id |-> observation_id + 1]]
  /\ To(c, "named")
  /\ UNCHANGED <<token, observation, got, shot, generation, images, total_bytes, history>>

-----------------------------------------------------------------------------
Bytes(entries) ==
  LET sum[i \in 0..Len(entries)] ==
        IF i = 0 THEN 0 ELSE sum[i - 1] + entries[i].picture.bytes
  IN  sum[Len(entries)]

(* ImageStore.insert evicts from the front until the new entry fits.        *)
FitsAfterOne(n, bytes) ==   \* variant: one entry makes room, whatever its size
  Len(images) - n < MaxImages
FitsWithRoom(n, bytes) ==   \* variant: room is made for one picture too many
  /\ Len(images) - n + 1 < MaxImages
  /\ (total_bytes - Bytes(SubSeq(images, 1, n))) + bytes <= MaxBytes
FitsAfter(n, bytes) ==
  /\ Len(images) - n < MaxImages
  /\ (total_bytes - Bytes(SubSeq(images, 1, n))) + bytes <= MaxBytes
Evictions(bytes) ==
  CHOOSE n \in 0..Len(images) :
    /\ n = Len(images) \/ FitsAfter(n, bytes)
    /\ \A m \in 0..(n - 1) : ~FitsAfter(m, bytes)

Insert(c) ==
  LET entry == [name |-> name[c], picture |-> shot[c]]
      size  == shot[c].bytes
      n     == Evictions(size)
  IN
  /\ pc[c] = "named"
  /\ size <= MaxBytes
  /\ images' = Append(SubSeq(images, n + 1, Len(images)), entry)
  /\ total_bytes' = (total_bytes - Bytes(SubSeq(images, 1, n))) + size
  /\ inserted' = Append(inserted, entry)
  /\ observation' = [observation EXCEPT ![c] = entry]
  /\ Leave(c, "told")
  /\ UNCHANGED <<token, got, generation, observation_id, captures, restarts,
                 outlived>>

RefuseLarge(c) ==
  /\ pc[c] = "named"
  /\ shot[c].bytes > MaxBytes
  /\ Leave(c, "failed")
  /\ UNCHANGED <<token, observation, got, service, history>>

(* The capture fails, or the handler is dropped at an await: its deadline    *)
(* passed or the client hung up.  The id it has drawn, if any, is not used.  *)
Fail(c) ==
  /\ pc[c] \in Handling
  /\ Leave(c, "failed")
  /\ UNCHANGED <<token, observation, got, service, history>>

-----------------------------------------------------------------------------
(* image: the first entry of that name.  The client takes what it is given.   *)
Found(c, i) == /\ i \in DOMAIN images /\ images[i].name = observation[c].name
               /\ \A j \in 1..(i - 1) : images[j].name # observation[c].name

Fetch(c) ==
  /\ pc[c] = "told" /\ token[c] = generation
  /\ \E i \in DOMAIN images : /\ Found(c, i)
                              /\ got' = [got EXCEPT ![c] = images[i].picture]
  /\ To(c, "seen")
  /\ UNCHANGED <<token, observation, handler, service, history>>

FetchNothing(c) ==
  /\ pc[c] = "told" /\ token[c] = generation
  /\ \A i \in DOMAIN images : ~Found(c, i)
  /\ To(c, "missing")
  /\ UNCHANGED <<token, observation, got, handler, service, history>>

FetchRefused(c) ==
  /\ pc[c] = "told" /\ token[c] # generation
  /\ To(c, "failed")
  /\ UNCHANGED <<token, observation, got, handler, service, history>>

-----------------------------------------------------------------------------
(* The service ends, and with it its handlers.                              *)
Ends == /\ pc' = [c \in Clients |-> IF pc[c] \in Handling THEN "failed" ELSE pc[c]]
        /\ shot' = [c \in Clients |-> Blank]
        /\ name' = [c \in Clients |-> Nameless]

(* It is started again, in the container it was in or in a new one.          *)
RestartKept(next) ==   \* variant: the pictures outlive the service, the count not
  /\ restarts < MaxRestarts
  /\ restarts' = restarts + 1
  /\ generation' = next
  /\ observation_id' = 0
  /\ inserted' = images
  /\ Ends
  /\ outlived' = IF next = generation THEN {c \in Clients : pc[c] = "told"} \cup outlived
                                      ELSE outlived
  /\ UNCHANGED <<token, observation, got, images, total_bytes, captures>>
Restart(next) ==
  /\ restarts < MaxRestarts
  /\ restarts' = restarts + 1
  /\ generation' = next
  /\ observation_id' = 0
  /\ images' = <<>>
  /\ total_bytes' = 0
  /\ inserted' = <<>>
  /\ Ends
  /\ outlived' = IF next = generation THEN {c \in Clients : pc[c] = "told"} \cup outlived
                                      ELSE outlived
  /\ UNCHANGED <<token, observation, got, captures>>

Finished == /\ \A c \in Clients : pc[c] \in {"seen", "missing", "failed"}
            /\ UNCHANGED vars

Next ==
  \/ \E c \in Clients :
       \/ Load(c) \/ Observe(c) \/ Capture(c) \/ NameShot(c) \/ Insert(c)
       \/ RefuseLarge(c) \/ Fail(c) \/ Fetch(c) \/ FetchNothing(c) \/ FetchRefused(c)
  \/ \E next \in {generation, generation + 1} : Restart(next)
  \/ Finished

Spec == Init /\ [][Next]_vars

-----------------------------------------------------------------------------
Fits(entries) == Len(entries) <= MaxImages /\ Bytes(entries) <= MaxBytes
From(i) == SubSeq(inserted, i, Len(inserted))

(* Whatever was evicted to make room, the store is the longest run of the    *)
(* newest pictures that fits both limits, and its byte count is right.       *)
StoreIsNewestFitting ==
  /\ total_bytes = Bytes(images)
  /\ \E i \in 1..(Len(inserted) + 1) :
       /\ images = From(i) /\ Fits(From(i))
       /\ i > 1 => ~Fits(From(i - 1))

(* The picture a client is given is the one of its observation, unless the    *)
(* service was started again with the same generation in between: its names   *)
(* are given out anew, and the client does not compare the digest.           *)
FetchedIsObserved ==
  \A c \in Clients : pc[c] = "seen" =>
    got[c] = observation[c].picture \/ c \in outlived

(* A client that is refused its picture was overtaken by newer ones that fill  *)
(* the store, or by a new start of the service.                              *)
MissingWasOvertaken ==
  [][\A c \in Clients : pc[c] # "missing" /\ pc'[c] = "missing" =>
       \/ c \in outlived
       \/ \E i \in DOMAIN inserted : inserted[i] = observation[c] /\ ~Fits(From(i))]_vars

=============================================================================
