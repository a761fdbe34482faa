------------------------------ MODULE Channel ------------------------------
(***************************************************************************)
(* lib/common/service/channelService.js: a channel's members and what of   *)
(* them is kept in an external store.                                      *)
(*                                                                         *)
(* The module follows the channel objects made under one name (objects of  *)
(* other names share nothing with them).  The application may keep an      *)
(* object after it is destroyed, add the same user twice, and name a user  *)
(* with no server.  The order of a group is never used, so groups are      *)
(* bags; a restart forgets every object and reads the store.  A careful    *)
(* application adds nobody twice and uses an object only as long as the    *)
(* name leads to it.                                                       *)
(***************************************************************************)
EXTENDS ChannelNames, Integers, FiniteSets

CONSTANTS Objects,         \* the channel objects ever made
          NoServer,        \* a user named without a server
          NoObject,
          MaxAmount        \* bound: entries of an object

ASSUME ChannelAssumption == /\ NoServer \notin Servers /\ NoObject \notin Objects
                            /\ MaxAmount \in Nat

VARIABLES current,         \* channels[name]
          state,           \* state[o]: "none", "inited", "destroyed", "lost"
          entries,         \* entries[o][f][u]: how often u is in groups[f]
          keys,            \* keys[o]: the keys of groups
          records,         \* records[o][u]: the server of u's record
          amount,          \* userAmount
          listed,          \* the name is in the store's list of channels
          stored,          \* the pairs stored for the name
          loading,         \* a restart waits for the stored pairs
          up,              \* FALSE: the process died of an exception
          careful,         \* the application has been careful so far
          unrestored       \* history: pairs the last restart found and did not put back

objectVars == <<entries, keys, records, amount>>
storeVars == <<listed, stored>>
channelVars == <<current, state, entries, keys, records, amount, listed, stored, loading, up, careful,
                 unrestored>>

ChannelTypeOK == /\ current \in Objects \cup {NoObject}
                 /\ state \in [Objects -> {"none", "inited", "destroyed", "lost"}]
                 /\ entries \in [Objects -> [Servers -> [Users -> Nat]]]
                 /\ keys \in [Objects -> SUBSET Servers]
                 /\ records \in [Objects -> [Users -> Servers \cup {NoServer}]]
                 /\ amount \in [Objects -> Nat]
                 /\ listed \in BOOLEAN
                 /\ stored \subseteq (Servers \cup {NoServer}) \X Users
                 /\ loading \in BOOLEAN
                 /\ up \in BOOLEAN
                 /\ careful \in BOOLEAN
                 /\ unrestored \subseteq (Servers \cup {NoServer}) \X Users

\* The groups and the records of objects that are new.
NoEntries == [o \in Objects |-> [f \in Servers |-> [u \in Users |-> 0]]]
NoRecords == [o \in Objects |-> [u \in Users |-> NoServer]]

ChannelInit == /\ current = NoObject
               /\ state = [o \in Objects |-> "none"]
               /\ entries = NoEntries
               /\ keys = [p \in Objects |-> {}]
               /\ records = NoRecords
               /\ amount = [p \in Objects |-> 0]
               /\ listed = FALSE
               /\ stored = {}
               /\ loading = FALSE
               /\ up = TRUE
               /\ careful = TRUE
               /\ unrestored = {}

\* The objects the application can call.
Usable(o) == up /\ state[o] \in {"inited", "destroyed"}

Care(o, usual) == careful' = (careful /\ current = o /\ usual)

-----------------------------------------------------------------------------
(* The service *)

\* createChannel and getChannel(name, true), when there is none yet.
CreateChannel(o) == /\ up /\ current = NoObject /\ state[o] = "none"
                    /\ current' = o
                    /\ state' = [state EXCEPT ![o] = "inited"]
                    /\ listed' = TRUE
                    /\ UNCHANGED <<objectVars, stored, loading, up, careful, unrestored>>

DestroyKeepsStored == /\ current' = NoObject
                      /\ listed' = FALSE
                      /\ UNCHANGED <<stored, unrestored>>

\* destroyChannel(name): the object under the name is not told.
Forget == /\ current' = NoObject
          /\ listed' = FALSE
          /\ stored' = {}
          /\ unrestored' = {}

DestroyChannel == /\ up /\ current # NoObject
                  /\ Forget
                  /\ UNCHANGED <<state, objectVars, loading, up, careful>>

\* The process restarts: start reads the store and makes an empty channel if
\* the name is listed; its members are asked for.
Restart(o) == /\ up
              /\ state[o] = "none"
              /\ state' = [p \in Objects |->
                             IF p = o /\ listed THEN "inited"
                             ELSE IF state[p] = "none" THEN "none" ELSE "lost"]
              /\ current' = IF listed THEN o ELSE NoObject
              /\ loading' = listed
              /\ entries' = NoEntries
              /\ keys' = [p \in Objects |-> {}]
              /\ records' = NoRecords
              /\ amount' = [p \in Objects |-> 0]
              /\ unrestored' = IF listed THEN stored ELSE {}
              /\ UNCHANGED <<storeVars, up, careful>>

\* The stored pairs arrive: the first of them throws (`name` is not defined),
\* and none is put back.  It is the end of the process, unless the application
\* handles uncaught exceptions, as template/app.js does: then the process goes
\* on with the empty channel and what is stored.
Loaded == /\ up /\ loading
          /\ loading' = FALSE
          /\ \E handled \in BOOLEAN : up' = (stored = {} \/ handled)
          /\ UNCHANGED <<current, state, objectVars, storeVars, careful, unrestored>>

-----------------------------------------------------------------------------
(* A channel object *)

\* add, past its checks: one more entry of u.
Enter(o, u, f) ==
    /\ entries' = [entries EXCEPT ![o][f][u] = @ + 1]
    /\ keys' = [keys EXCEPT ![o] = @ \cup {f}]
    /\ records' = [records EXCEPT ![o][u] = f]
    /\ amount' = [amount EXCEPT ![o] = @ + 1]

AddNotStored(o, u, f) == /\ Usable(o) /\ state[o] = "inited" /\ amount[o] < MaxAmount
                         /\ Care(o, records[o][u] = NoServer)
                         /\ Enter(o, u, f)
                         /\ UNCHANGED <<current, state, storeVars, loading, up, unrestored>>

Add(o, u, f) == /\ Usable(o) /\ state[o] = "inited" /\ amount[o] < MaxAmount
                /\ Care(o, records[o][u] = NoServer)
                /\ Enter(o, u, f)
                /\ stored' = stored \cup {<<f, u>>}
                /\ UNCHANGED <<current, state, listed, loading, up, unrestored>>

\* add with no server: refused, and stored.
AddNowhere(o, u) == /\ Usable(o) /\ state[o] = "inited"
                    /\ Care(o, TRUE)
                    /\ stored' = stored \cup {<<NoServer, u>>}
                    /\ UNCHANGED <<current, state, objectVars, listed, loading, up, unrestored>>

LeaveKeepsAmount(o, u, f) ==
    /\ entries' = [entries EXCEPT ![o][f][u] = @ - 1]
    /\ keys' = [keys EXCEPT ![o] = {g \in @ : \E v \in Users : entries'[o][g][v] > 0}]
    /\ records' = [records EXCEPT ![o][u] = NoServer]
    /\ UNCHANGED amount

\* deleteFrom found u in the group of f: one entry goes, with the record, and
\* the group with its last entry.
Exit(o, u, f) ==
    /\ entries' = [entries EXCEPT ![o][f][u] = @ - 1]
    /\ keys' = [keys EXCEPT ![o] = IF \E v \in Users : entries'[o][f][v] > 0
                                   THEN @ ELSE @ \ {f}]
    /\ records' = [records EXCEPT ![o][u] = NoServer]
    /\ amount' = [amount EXCEPT ![o] = @ - 1]

\* leave does not ask for the state of the channel, and always tells the store.
Leave(o, u, f) == /\ Usable(o)
                  /\ IF entries[o][f][u] > 0 THEN Exit(o, u, f) ELSE UNCHANGED objectVars
                  /\ Care(o, TRUE)
                  /\ stored' = stored \ {<<f, u>>}
                  /\ unrestored' = unrestored \ {<<f, u>>}
                  /\ UNCHANGED <<current, state, listed, loading, up>>

\* destroy tells the service by name, whatever object has the name now.
Destroy(o) == /\ Usable(o)
              /\ state' = [state EXCEPT ![o] = "destroyed"]
              /\ Care(o, TRUE)
              /\ Forget
              /\ UNCHANGED <<objectVars, loading, up>>

ChannelNext == \/ \E o \in Objects : CreateChannel(o) \/ Restart(o) \/ Destroy(o)
               \/ \E o \in Objects, u \in Users, f \in Servers : Add(o, u, f) \/ Leave(o, u, f)
               \/ \E o \in Objects, u \in Users : AddNowhere(o, u)
               \/ DestroyChannel
               \/ Loaded

ChannelSpec == ChannelInit /\ [][ChannelNext]_channelVars

-----------------------------------------------------------------------------
(* Properties *)

Members(o) == {m \in Servers \X Users : entries[o][m[1]][m[2]] > 0}

\* The entries of the groups of o, each of them by itself.
EntriesOf(o) ==
    UNION {{m} \X (1..entries[o][m[1]][m[2]]) : m \in Servers \X Users}

\* getUserAmount is the number of entries pushMessage goes through.
AmountExact(o) == amount[o] = Cardinality(EntriesOf(o))

\* getMember answers for members only: a record names a server whose group
\* really holds the user.
RecordsAreMembers(o) ==
    \A u \in Users : records[o][u] # NoServer => <<records[o][u], u>> \in Members(o)

\* pushMessage counts the keys of groups and sends to each of them: a key is
\* there exactly for the servers with members.
KeysAreGroups(o) == keys[o] = {m[1] : m \in Members(o)}

\* getMember answers for every member, too, of the channel a careful
\* application has.
MembersHaveRecords ==
    (careful /\ current # NoObject) =>
        \A m \in Members(current) : records[current][m[2]] = m[1]

\* After any sequence of repeated adds and leaves, of an object that has the
\* name or not, amount, records and groups speak of the same members: no empty
\* group is sent, and the "robust" reset of the amount is never needed.  Only
\* who is added twice can be a member without a record.
GroupsAgree == /\ \A o \in Objects : AmountExact(o) /\ RecordsAreMembers(o) /\ KeysAreGroups(o)
               /\ MembersHaveRecords

WithServer(pairs) == {m \in pairs : m[1] # NoServer}

\* For a careful application the store holds what the next restart needs, the
\* restarts before included: the members of the channel that has the name and
\* those the last restart did not put back, each until he leaves, and nothing
\* once it is destroyed.
StoreFollowsMembers ==
    careful => /\ listed = (current # NoObject)
               /\ WithServer(stored) = IF listed
                                       THEN Members(current) \cup WithServer(unrestored)
                                       ELSE {}
=============================================================================
