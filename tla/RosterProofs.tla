---------------------------- MODULE RosterProofs ----------------------------
(***************************************************************************)
(* The users and channels the client knows are the server's, the users     *)
(* each with a name it has had and the mutes of the application on them,   *)
(* and the channel the client takes itself to be in is its own: for any    *)
(* sessions, channels, names, kinds of change and requests, and any number *)
(* of messages in flight.                                                  *)
(***************************************************************************)
EXTENDS Requests, FiniteSetTheorems, TLAPS

\* The control messages.
Message ==
    [type : {"USERSTATE"}, session : Sessions, name : Names \cup {NoName},
     channel_id : Channels \cup {NoId}]
    \cup [type : {"USERREMOVE"}, session : Sessions]
    \cup [type : {"CHANNELSTATE"}, channel_id : Channels, name : ChannelNames]
    \cup [type : {"CHANNELREMOVE"}, channel_id : Channels]
    \cup [type : {"SERVERSYNC"}, session : Sessions]

-----------------------------------------------------------------------------
(***************************************************************************)
(* One user, on the way from the server to the client                      *)
(***************************************************************************)

IsState(m, s) == m.type = "USERSTATE" /\ m.session = s
IsRemove(m, s) == m.type = "USERREMOVE" /\ m.session = s

\* Nothing between the two messages, these included, removes s.
Stays(s, first, last) == \A j \in first .. last : ~IsRemove(wire[j], s)

\* Whether the client knows s once it has read the first n messages.
Known(s, n) ==
    \/ s \in DOMAIN user_map /\ Stays(s, 1, n)
    \/ \E j \in 1 .. n : IsState(wire[j], s) /\ Stays(s, j + 1, n)

\* Once it has read all, it knows whom the server has.
Tracked(s) == s \in DOMAIN users <=> Known(s, Len(wire))

\* The first report of a user has a name.
Introduced(s) ==
    \A i \in 1 .. Len(wire) :
        IsState(wire[i], s) /\ ~Known(s, i - 1) => wire[i].name # NoName

\* The client has, or is about to read, a name the user has had.
Named(s) ==
    s \in DOMAIN users =>
        \/ /\ s \in DOMAIN user_map
           /\ user_map[s].name \in users[s].had
           /\ Stays(s, 1, Len(wire))
        \/ \E i \in 1 .. Len(wire) :
              /\ IsState(wire[i], s)
              /\ ~Known(s, i - 1)
              /\ wire[i].name \in users[s].had
              /\ Stays(s, i + 1, Len(wire))

\* No message about s from there on.
Silent(s, first) ==
    \A j \in first .. Len(wire) : ~IsState(wire[j], s) /\ ~IsRemove(wire[j], s)

\* The last report says where the user is, or nothing.
Located(s) ==
    s \in DOMAIN users =>
        /\ \A i \in 1 .. Len(wire) :
              IsState(wire[i], s) /\ Silent(s, i + 1) =>
                  wire[i].channel_id \in {users[s].channel, NoId}
        /\ Silent(s, 1) => user_map[s].channelId \in {users[s].channel, NoId}

UserInv(s) == Tracked(s) /\ Introduced(s) /\ Named(s) /\ Located(s)

-----------------------------------------------------------------------------
(***************************************************************************)
(* The server says something                                               *)
(***************************************************************************)

LEMMA KnownAppended ==
    ASSUME NEW s, NEW m \in Message, wire \in Seq(Message), wire' = Append(wire, m),
           user_map' = user_map
    PROVE  /\ \A n \in 0 .. Len(wire) : Known(s, n)' <=> Known(s, n)
           /\ Known(s, Len(wire))' <=> IsState(m, s) \/ (Known(s, Len(wire)) /\ ~IsRemove(m, s))
<1> DEFINE n1 == Len(wire) + 1
<1>1. /\ Len(wire) \in Nat /\ Len(wire') = n1 /\ wire'[n1] = m
      /\ \A j \in 1 .. Len(wire) : wire'[j] = wire[j]
  OBVIOUS
<1>2. ASSUME NEW a \in 1 .. n1, NEW n \in 0 .. Len(wire) PROVE Stays(s, a, n)' <=> Stays(s, a, n)
  BY <1>1 DEF Stays
<1>3. ASSUME NEW n \in 0 .. Len(wire) PROVE Known(s, n)' <=> Known(s, n)
  BY <1>1, <1>2 DEF Known
<1>4. ASSUME NEW a \in 1 .. n1, NEW n, n = n1
      PROVE  Stays(s, a, n)' <=> Stays(s, a, Len(wire)) /\ ~IsRemove(m, s)
  BY <1>1, <1>4 DEF Stays
<1>5. ASSUME NEW n, n = n1
      PROVE  Known(s, n)' <=> IsState(m, s) \/ (Known(s, Len(wire)) /\ ~IsRemove(m, s))
  <2>1. Stays(s, n + 1, n)'
    BY <1>1, <1>5 DEF Stays
  <2> QED BY <1>1, <1>4, <1>5, <2>1 DEF Known
<1> QED BY <1>1, <1>3, <1>5

\* What is in flight stays in front of what is added.
LEMMA Appended ==
    ASSUME NEW m \in Message, wire \in Seq(Message), wire' = Append(wire, m)
    PROVE  /\ Len(wire) \in Nat /\ Len(wire') = Len(wire) + 1
           /\ wire'[Len(wire) + 1] = m
           /\ \A j \in 1 .. Len(wire) : wire'[j] = wire[j]
           /\ wire' \in Seq(Message)
OBVIOUS

\* Something about others.
LEMMA AppendsOther ==
    ASSUME NEW s, NEW m \in Message, wire \in Seq(Message), wire' = Append(wire, m),
           user_map' = user_map, ~IsState(m, s), ~IsRemove(m, s),
           s \in DOMAIN users' <=> s \in DOMAIN users,
           s \in DOMAIN users => users'[s] = users[s],
           UserInv(s)
    PROVE  UserInv(s)'
<1> DEFINE L == Len(wire)
<1>1. /\ L \in Nat /\ Len(wire') = L + 1 /\ wire'[L + 1] = m
      /\ \A j \in 1 .. L : wire'[j] = wire[j]
  BY Appended
<1>2. /\ \A n \in 0 .. L : Known(s, n)' <=> Known(s, n)
      /\ Known(s, Len(wire))' <=> Known(s, L)
  BY KnownAppended
<1> HIDE DEF L
<1>3. Tracked(s)'
  BY <1>2 DEF UserInv, Tracked, L
<1>4. Introduced(s)'
  BY <1>1, <1>2 DEF UserInv, Introduced, L
<1>5. ASSUME NEW a \in 1 .. L + 1
      PROVE  /\ Stays(s, a, Len(wire))' <=> Stays(s, a, L)
             /\ Silent(s, a)' <=> Silent(s, a)
  BY <1>1 DEF Stays, Silent, L
<1>6. Named(s)'
  <2>1. ASSUME NEW i \in 1 .. L, IsState(wire[i], s), ~Known(s, i - 1), Stays(s, i + 1, L)
        PROVE  IsState(wire'[i], s) /\ ~Known(s, i - 1)' /\ Stays(s, i + 1, Len(wire))'
    <3>1. i - 1 \in 0 .. L /\ i + 1 \in 1 .. L + 1 /\ wire'[i] = wire[i]
      BY <1>1
    <3>2. ~Known(s, i - 1)'
      BY <1>2, <2>1, <3>1
    <3>3. Stays(s, i + 1, Len(wire))'
      BY <1>5, <2>1, <3>1
    <3> QED BY <2>1, <3>1, <3>2, <3>3
  <2>2. Stays(s, 1, L) => Stays(s, 1, Len(wire))'
    BY <1>1, <1>5
  <2> QED BY <1>1, <2>1, <2>2 DEF UserInv, Named, L
<1>7. Located(s)'
  <2>1. Silent(s, 1)' <=> Silent(s, 1)
    BY <1>1, <1>5
  <2>2. \A i \in 1 .. L : Silent(s, i + 1)' <=> Silent(s, i + 1)
    BY <1>1, <1>5
  <2> QED BY <1>1, <2>1, <2>2 DEF UserInv, Located, L
<1> QED BY <1>3, <1>4, <1>6, <1>7 DEF UserInv

\* A report of s.
LEMMA AppendsState ==
    ASSUME NEW s, NEW m \in Message, wire \in Seq(Message), wire' = Append(wire, m),
           user_map' = user_map, IsState(m, s), s \in DOMAIN users',
           s \in DOMAIN users => users[s].had \subseteq users'[s].had,
           s \notin DOMAIN users => m.name \in users'[s].had /\ m.name # NoName,
           m.channel_id \in {users'[s].channel, NoId},
           UserInv(s)
    PROVE  UserInv(s)'
<1> DEFINE L == Len(wire)
<1>1. /\ L \in Nat /\ Len(wire') = L + 1 /\ wire'[L + 1] = m
      /\ \A j \in 1 .. L : wire'[j] = wire[j]
  BY Appended
<1>2. /\ \A n \in 0 .. L : Known(s, n)' <=> Known(s, n)
      /\ Known(s, Len(wire))'
  BY KnownAppended
<1>3. s \in DOMAIN users <=> Known(s, L)
  BY DEF UserInv, Tracked
<1>4. ~IsRemove(m, s)
  BY DEF IsState, IsRemove
<1> HIDE DEF L
<1>5. Tracked(s)'
  BY <1>2 DEF Tracked
<1>6. Introduced(s)'
  <2> SUFFICES ASSUME NEW i \in 1 .. L + 1, IsState(wire'[i], s), ~Known(s, i - 1)'
               PROVE  wire'[i].name # NoName
    BY <1>1 DEF Introduced
  <2>1. CASE i = L + 1
    BY <1>1, <1>2, <1>3, <2>1
  <2>2. CASE i # L + 1
    BY <1>1, <1>2, <2>2 DEF UserInv, Introduced, L
  <2> QED BY <2>1, <2>2
<1>7. ASSUME NEW a \in 1 .. L + 1 PROVE Stays(s, a, Len(wire))' <=> Stays(s, a, L)
  BY <1>1, <1>4 DEF Stays, L
<1>8. Named(s)'
  <2>1. CASE s \in DOMAIN users
    <3>1. ASSUME NEW i \in 1 .. L, IsState(wire[i], s), ~Known(s, i - 1), Stays(s, i + 1, L)
          PROVE  IsState(wire'[i], s) /\ ~Known(s, i - 1)' /\ Stays(s, i + 1, Len(wire))'
      BY <1>1, <1>2, <1>7, <3>1
    <3>2. Stays(s, 1, L) => Stays(s, 1, Len(wire))'
      BY <1>1, <1>7
    <3> QED BY <1>1, <2>1, <3>1, <3>2 DEF UserInv, Named, L
  <2>2. CASE s \notin DOMAIN users
    <3>1. \A n : n = L => ~Known(s, n)'
      BY <1>1, <1>2, <1>3, <2>2
    <3>2. \A i : i = L + 1 => Stays(s, i + 1, Len(wire))'
      BY <1>1 DEF Stays
    <3> QED BY <1>1, <2>2, <3>1, <3>2 DEF Named
  <2> QED BY <2>1, <2>2
<1>9. Located(s)'
  <2>1. ASSUME NEW i \in 1 .. L + 1, Silent(s, i)' PROVE FALSE
    BY <1>1, <2>1 DEF Silent
  <2> QED BY <1>1, <2>1 DEF Located
<1> QED BY <1>5, <1>6, <1>8, <1>9 DEF UserInv

\* That s is gone.
LEMMA AppendsRemove ==
    ASSUME NEW s, NEW m \in Message, wire \in Seq(Message), wire' = Append(wire, m),
           user_map' = user_map, IsRemove(m, s), s \notin DOMAIN users',
           UserInv(s)
    PROVE  UserInv(s)'
<1> DEFINE L == Len(wire)
<1>1. /\ L \in Nat /\ Len(wire') = L + 1 /\ wire'[L + 1] = m
      /\ \A j \in 1 .. L : wire'[j] = wire[j]
  BY Appended
<1>2. ~IsState(m, s)
  BY DEF IsState, IsRemove
<1>3. /\ \A n \in 0 .. L : Known(s, n)' <=> Known(s, n)
      /\ ~Known(s, Len(wire))'
  BY <1>2, KnownAppended
<1> HIDE DEF L
<1>4. Tracked(s)'
  BY <1>3 DEF Tracked
<1>5. Introduced(s)'
  BY <1>1, <1>2, <1>3 DEF UserInv, Introduced, L
<1>6. Named(s)' /\ Located(s)'
  BY DEF Named, Located
<1> QED BY <1>4, <1>5, <1>6 DEF UserInv

-----------------------------------------------------------------------------
(***************************************************************************)
(* The client reads something                                              *)
(***************************************************************************)

\* What it has of s afterwards.
Took(m, s) ==
    /\ s \in DOMAIN user_map' <=> IsState(m, s) \/ (s \in DOMAIN user_map /\ ~IsRemove(m, s))
    /\ IsState(m, s) =>
          /\ user_map'[s].name = IF s \in DOMAIN user_map THEN user_map[s].name ELSE m.name
          /\ user_map'[s].channelId = m.channel_id
    /\ ~IsState(m, s) /\ ~IsRemove(m, s) /\ s \in DOMAIN user_map => user_map'[s] = user_map[s]

LEMMA Advanced ==
    ASSUME wire \in Seq(Message), wire # << >>, wire' = Tail(wire)
    PROVE  /\ Len(wire) \in Nat /\ Len(wire) >= 1 /\ Len(wire') = Len(wire) - 1
           /\ Head(wire) = wire[1] /\ wire[1] \in Message
           /\ \A j \in 1 .. Len(wire') : wire'[j] = wire[j + 1]
           /\ \A j \in 2 .. Len(wire) : wire[j] = wire'[j - 1]
           /\ wire' \in Seq(Message)
OBVIOUS

LEMMA KnownAdvanced ==
    ASSUME NEW s, wire \in Seq(Message), wire # << >>, wire' = Tail(wire),
           Took(Head(wire), s), NEW n \in 0 .. Len(wire')
    PROVE  Known(s, n)' <=> Known(s, n + 1)
<1> DEFINE L == Len(wire)
<1>1. /\ L \in Nat /\ L >= 1 /\ Len(wire') = L - 1 /\ Head(wire) = wire[1]
      /\ \A j \in 1 .. L - 1 : wire'[j] = wire[j + 1]
      /\ \A j \in 2 .. L : wire[j] = wire'[j - 1]
  BY Advanced
<1> HIDE DEF L
<1>2. n \in 0 .. L - 1
  BY <1>1
<1>3. ASSUME NEW a \in 1 .. L PROVE Stays(s, a, n)' <=> Stays(s, a + 1, n + 1)
  <2>1. ASSUME Stays(s, a, n)', NEW j \in a + 1 .. n + 1 PROVE ~IsRemove(wire[j], s)
    <3>1. j \in 2 .. L /\ j - 1 \in a .. n
      BY <1>1, <1>2
    <3> QED BY <1>1, <2>1, <3>1 DEF Stays
  <2>2. ASSUME Stays(s, a + 1, n + 1), NEW j \in a .. n PROVE ~IsRemove(wire'[j], s)
    <3>1. j \in 1 .. L - 1 /\ j + 1 \in a + 1 .. n + 1
      BY <1>1, <1>2
    <3> QED BY <1>1, <2>2, <3>1 DEF Stays
  <2>3. Stays(s, a, n)' <=> \A j \in a .. n : ~IsRemove(wire'[j], s)
    BY DEF Stays
  <2> QED BY <2>1, <2>2, <2>3 DEF Stays
<1>4. Stays(s, 1, n + 1) <=> ~IsRemove(wire[1], s) /\ Stays(s, 2, n + 1)
  <2>1. \A j \in 1 .. n + 1 : j = 1 \/ j \in 2 .. n + 1
    BY <1>2
  <2>2. \A j \in 2 .. n + 1 : j \in 1 .. n + 1
    BY <1>2
  <2>3. 1 \in 1 .. n + 1
    BY <1>2
  <2> QED BY <2>1, <2>2, <2>3 DEF Stays
<1> DEFINE Told(i) == IsState(wire[i], s) /\ Stays(s, i + 1, n + 1)
<1>5. ASSUME NEW j \in 1 .. n PROVE IsState(wire'[j], s) /\ Stays(s, j + 1, n)' <=> Told(j + 1)
  <2>1. wire'[j] = wire[j + 1] /\ j + 1 \in 1 .. L /\ j + 1 + 1 = j + 2
    BY <1>1, <1>2
  <2>2. Stays(s, j + 1, n)' <=> Stays(s, j + 2, n + 1)
    BY <2>1, <1>3
  <2> QED BY <2>1, <2>2
<1>6. Known(s, n)' <=> \/ s \in DOMAIN user_map' /\ Stays(s, 2, n + 1)
                       \/ \E j \in 1 .. n : Told(j + 1)
  <2>1. Known(s, n)' <=> \/ s \in DOMAIN user_map' /\ Stays(s, 1, n)'
                         \/ \E j \in 1 .. n : IsState(wire'[j], s) /\ Stays(s, j + 1, n)'
    BY DEF Known
  <2>2. Stays(s, 1, n)' <=> Stays(s, 2, n + 1)
    BY <1>1, <1>3
  <2> HIDE DEF Told
  <2> QED BY <2>1, <2>2, <1>5
<1>7. Known(s, n + 1) <=> \/ s \in DOMAIN user_map /\ Stays(s, 1, n + 1)
                          \/ Told(1)
                          \/ \E j \in 1 .. n : Told(j + 1)
  <2>1. Known(s, n + 1) <=> \/ s \in DOMAIN user_map /\ Stays(s, 1, n + 1)
                            \/ \E i \in 1 .. n + 1 : Told(i)
    BY DEF Known
  <2> HIDE DEF Told
  <2>2. (\E i \in 1 .. n + 1 : Told(i)) <=> Told(1) \/ \E j \in 1 .. n : Told(j + 1)
    <3>1. \A i \in 1 .. n + 1 : i = 1 \/ (i - 1 \in 1 .. n /\ (i - 1) + 1 = i)
      BY <1>2
    <3>2. 1 \in 1 .. n + 1 /\ \A j \in 1 .. n : j + 1 \in 1 .. n + 1
      BY <1>2
    <3> QED BY <3>1, <3>2
  <2> QED BY <2>1, <2>2
<1>8. Told(1) <=> IsState(wire[1], s) /\ Stays(s, 2, n + 1)
  OBVIOUS
<1> HIDE DEF Told
<1> QED BY <1>1, <1>4, <1>6, <1>7, <1>8 DEF Took, IsState, IsRemove

LEMMA ReadsHead ==
    ASSUME NEW s, wire \in Seq(Message), wire # << >>, wire' = Tail(wire),
           Took(Head(wire), s), users' = users, UserInv(s)
    PROVE  UserInv(s)'
<1> DEFINE L == Len(wire)
<1>1. /\ L \in Nat /\ L >= 1 /\ Len(wire') = L - 1 /\ Head(wire) = wire[1]
      /\ \A j \in 1 .. L - 1 : wire'[j] = wire[j + 1]
      /\ \A j \in 2 .. L : wire[j] = wire'[j - 1]
  BY Advanced
<1>2. \A n \in 0 .. L - 1 : Known(s, n)' <=> Known(s, n + 1)
  BY <1>1, KnownAdvanced
<1> HIDE DEF L
<1>3. Tracked(s)'
  <2>1. \A n : n = L - 1 => (Known(s, n)' <=> Known(s, L))
    BY <1>1, <1>2
  <2> QED BY <1>1, <2>1 DEF UserInv, Tracked, L
<1>4. Introduced(s)'
  <2> SUFFICES ASSUME NEW i \in 1 .. L - 1, IsState(wire'[i], s), ~Known(s, i - 1)'
               PROVE  wire'[i].name # NoName
    BY <1>1 DEF Introduced
  <2>1. wire'[i] = wire[i + 1] /\ i + 1 \in 1 .. L /\ (i + 1) - 1 = i /\ (i - 1) + 1 = i
    BY <1>1
  <2>2. ~Known(s, i)
    BY <1>1, <1>2, <2>1
  <2> QED BY <2>1, <2>2 DEF UserInv, Introduced, L
<1>5. ASSUME NEW a \in 1 .. L PROVE Stays(s, a + 1, L) => Stays(s, a, Len(wire))'
  <2> SUFFICES ASSUME Stays(s, a + 1, L), NEW j \in a .. L - 1 PROVE ~IsRemove(wire'[j], s)
    BY <1>1 DEF Stays
  <2>1. wire'[j] = wire[j + 1] /\ j + 1 \in a + 1 .. L
    BY <1>1
  <2> QED BY <2>1 DEF Stays
<1>6. ASSUME NEW a \in 1 .. L PROVE Silent(s, a)' => Silent(s, a + 1)
  <2> SUFFICES ASSUME Silent(s, a)', NEW j \in a + 1 .. L
               PROVE  ~IsState(wire[j], s) /\ ~IsRemove(wire[j], s)
    BY DEF Silent, L
  <2>1. wire[j] = wire'[j - 1] /\ j - 1 \in a .. L - 1
    BY <1>1
  <2> QED BY <1>1, <2>1 DEF Silent
<1>7. Named(s)'
  <2> SUFFICES ASSUME s \in DOMAIN users
               PROVE  \/ /\ s \in DOMAIN user_map'
                         /\ user_map'[s].name \in users[s].had
                         /\ Stays(s, 1, Len(wire))'
                      \/ \E i \in 1 .. L - 1 :
                            /\ IsState(wire'[i], s)
                            /\ ~Known(s, i - 1)'
                            /\ wire'[i].name \in users[s].had
                            /\ Stays(s, i + 1, Len(wire))'
    BY <1>1 DEF Named
  <2>1. CASE s \in DOMAIN user_map /\ user_map[s].name \in users[s].had /\ Stays(s, 1, L)
    <3>1. ~IsRemove(wire[1], s) /\ Stays(s, 2, L)
      BY <1>1, <2>1 DEF Stays
    <3>2. s \in DOMAIN user_map' /\ user_map'[s].name \in users[s].had
      BY <1>1, <2>1, <3>1 DEF Took
    <3> QED BY <1>1, <1>5, <3>1, <3>2
  <2>2. ASSUME NEW i \in 1 .. L, IsState(wire[i], s), ~Known(s, i - 1),
               wire[i].name \in users[s].had, Stays(s, i + 1, L)
        PROVE  \/ /\ s \in DOMAIN user_map'
                  /\ user_map'[s].name \in users[s].had
                  /\ Stays(s, 1, Len(wire))'
               \/ \E k \in 1 .. L - 1 :
                     /\ IsState(wire'[k], s)
                     /\ ~Known(s, k - 1)'
                     /\ wire'[k].name \in users[s].had
                     /\ Stays(s, k + 1, Len(wire))'
    <3>1. CASE i = 1
      <4>1. s \notin DOMAIN user_map
        BY <2>2, <3>1 DEF Known, Stays
      <4>2. s \in DOMAIN user_map' /\ user_map'[s].name \in users[s].had
        BY <1>1, <2>2, <3>1, <4>1 DEF Took
      <4> QED BY <1>1, <1>5, <2>2, <3>1, <4>2
    <3>2. CASE i # 1
      <4> DEFINE k == i - 1
      <4>1. k \in 1 .. L - 1 /\ wire'[k] = wire[i] /\ (k - 1) + 1 = i - 1 /\ k - 1 \in 0 .. L - 1
            /\ (k + 1) + 1 = i + 1 /\ k + 1 \in 1 .. L
        BY <1>1, <3>2
      <4> HIDE DEF k
      <4>2. ~Known(s, k - 1)'
        BY <1>2, <2>2, <4>1
      <4>3. Stays(s, k + 1, Len(wire))'
        BY <1>5, <2>2, <4>1
      <4> QED BY <2>2, <4>1, <4>2, <4>3
    <3> QED BY <3>1, <3>2
  <2> QED BY <2>1, <2>2 DEF UserInv, Named, L
<1>8. Located(s)'
  <2> SUFFICES ASSUME s \in DOMAIN users
               PROVE  /\ \A i \in 1 .. L - 1 :
                            IsState(wire'[i], s) /\ Silent(s, i + 1)' =>
                                wire'[i].channel_id \in {users[s].channel, NoId}
                      /\ Silent(s, 1)' => user_map'[s].channelId \in {users[s].channel, NoId}
    BY <1>1 DEF Located
  <2>1. ASSUME NEW i \in 1 .. L, IsState(wire[i], s), Silent(s, i + 1)
        PROVE  wire[i].channel_id \in {users[s].channel, NoId}
    BY <2>1 DEF UserInv, Located, L
  <2>2. ASSUME NEW i \in 1 .. L - 1, IsState(wire'[i], s), Silent(s, i + 1)'
        PROVE  wire'[i].channel_id \in {users[s].channel, NoId}
    <3>1. wire'[i] = wire[i + 1] /\ i + 1 \in 1 .. L
      BY <1>1
    <3> QED BY <1>6, <2>1, <2>2, <3>1
  <2>3. ASSUME Silent(s, 1)' PROVE user_map'[s].channelId \in {users[s].channel, NoId}
    <3>1. Silent(s, 2)
      BY <1>1, <1>6, <2>3
    <3>2. CASE IsState(wire[1], s)
      BY <1>1, <2>1, <3>1, <3>2 DEF Took
    <3>3. CASE IsRemove(wire[1], s)
      <4>1. \A j \in 1 .. L : ~IsState(wire[j], s)
        BY <1>1, <3>1, <3>3 DEF Silent, IsState, IsRemove, L
      <4>2. ~Stays(s, 1, L)
        BY <1>1, <3>3 DEF Stays
      <4>3. ~Known(s, L)
        BY <4>1, <4>2 DEF Known
      <4> QED BY <4>3 DEF UserInv, Tracked, L
    <3>4. CASE ~IsState(wire[1], s) /\ ~IsRemove(wire[1], s)
      <4>1. Silent(s, 1)
        BY <1>1, <3>1, <3>4 DEF Silent, L
      <4>2. s \in DOMAIN user_map
        BY <4>1 DEF UserInv, Tracked, Known, Silent, Stays
      <4> QED BY <1>1, <3>4, <4>1, <4>2 DEF Took, UserInv, Located
    <3> QED BY <3>2, <3>3, <3>4
  <2> QED BY <2>2, <2>3
<1> QED BY <1>3, <1>4, <1>7, <1>8 DEF UserInv

\* A user of the server about whom nothing is in flight is known.
LEMMA SilentKnown ==
    ASSUME NEW s, UserInv(s), Silent(s, 1)
    PROVE  s \in DOMAIN users <=> s \in DOMAIN user_map
BY DEF UserInv, Tracked, Known, Silent, Stays

\* A mute does not touch it.
LEMMA KeepsOthers ==
    ASSUME NEW s, wire' = wire, users' = users, DOMAIN user_map' = DOMAIN user_map,
           s \in DOMAIN user_map =>
              user_map'[s].name = user_map[s].name /\ user_map'[s].channelId = user_map[s].channelId,
           UserInv(s)
    PROVE  UserInv(s)'
<1>1. \A a, b : Stays(s, a, b)' <=> Stays(s, a, b)
  BY DEF Stays
<1>2. \A n : Known(s, n)' <=> Known(s, n)
  BY <1>1 DEF Known
<1>3. \A a : Silent(s, a)' <=> Silent(s, a)
  BY DEF Silent
<1>4. Tracked(s)' /\ Introduced(s)'
  BY <1>2 DEF UserInv, Tracked, Introduced
<1>5. Named(s)'
  BY <1>1, <1>2 DEF UserInv, Named
<1>6. Located(s)'
  BY <1>3, SilentKnown DEF UserInv, Located
<1> QED BY <1>4, <1>5, <1>6 DEF UserInv

-----------------------------------------------------------------------------
(***************************************************************************)
(* The inductive invariant                                                 *)
(***************************************************************************)

ServerTypes ==
    /\ link \in {"down", "up"}
    /\ DOMAIN users \subseteq Sessions
    /\ IsFiniteSet(DOMAIN users)
    /\ \A s \in DOMAIN users : users[s] \in [name : Names, had : SUBSET Names, channel : DOMAIN channels]
    /\ DOMAIN channels \subseteq Channels
    /\ IsFiniteSet(DOMAIN channels)
    /\ \A c \in DOMAIN channels : channels[c] \in ChannelNames
    /\ own \in DOMAIN users \cup {0}
    /\ link = "up" => own \in DOMAIN users

WireTypes ==
    /\ wire \in Seq(Message)
    /\ link = "down" => wire = << >>
    /\ outbox # << >> => link = "up"

ClientTypes ==
    /\ session_id \in {0} \cup Sessions
    /\ channel_current \in Channels \cup {NoId}
    /\ channel_list \in Seq([channelId : Channels, name : ChannelNames])
    /\ DOMAIN user_map \subseteq Sessions
    /\ \A s \in DOMAIN user_map : user_map[s] \in User

Users == link = "up" => \A s \in Sessions : UserInv(s)

IInv == ServerTypes /\ WireTypes /\ ClientTypes /\ MutesTracked /\ Users

LEMMA TypeFacts == IInv => TypeOK
BY DEF IInv, ServerTypes, WireTypes, ClientTypes, MutesTracked, TypeOK

LEMMA NoNames == NoName \notin Names
BY NamesAssumption

LEMMA MaxIs ==
    ASSUME NEW n \in Nat, NEW S \in SUBSET (1 .. n), S # {}
    PROVE  Max(S) \in S /\ \A x \in S : x <= Max(S)
<1> DEFINE R == OpToRel(<, Nat)
           T == {n - x : x \in S}
<1>1. T \subseteq Nat /\ T # {}
  <2>1. \A x \in S : n - x \in Nat
    OBVIOUS
  <2>2. PICK x : x \in S
    OBVIOUS
  <2> HIDE DEF R
  <2> QED BY <2>1, <2>2
<1>2. \A x, y \in Nat : <<y, x>> \in R <=> y < x
  <2>1. R = {ss \in Nat \X Nat : ss[1] < ss[2]}
    BY Zenon DEF OpToRel
  <2> HIDE DEF R
  <2>2. \A x, y \in Nat : <<y, x>> \in Nat \X Nat /\ <<y, x>>[1] = y /\ <<y, x>>[2] = x
    OBVIOUS
  <2> QED BY <2>1, <2>2
<1> HIDE DEF R
<1>3. \E x \in T : \A y \in T : <<y, x>> \notin R
  <2>1. IsWellFoundedOn(R, Nat)
    BY NatLessThanWellFounded, Zenon DEF R
  <2> HIDE DEF T
  <2> QED BY <1>1, <2>1, WFMin
<1>4. \E x \in S : \A y \in S : x >= y
  <2>1. PICK x \in T : \A y \in T : ~(y < x)
    BY <1>1, <1>2, <1>3
  <2>2. PICK z \in S : x = n - z
    BY <2>1
  <2>3. \A y \in S : ~(n - y < n - z)
    BY <2>1, <2>2
  <2> QED BY <2>2, <2>3
<1> QED BY <1>4 DEF Max

LEMMA UsersFacts == IInv => UsersTracked
<1> SUFFICES ASSUME IInv, link = "up", NEW s \in Sessions
             PROVE  s \in DOMAIN users <=>
                      IF AboutUser(s) = {} THEN s \in DOMAIN user_map
                      ELSE wire[Max(AboutUser(s))].type = "USERSTATE"
  BY DEF UsersTracked
<1> DEFINE A == AboutUser(s)
           L == Len(wire)
<1>1. UserInv(s) /\ L \in Nat /\ DOMAIN wire = 1 .. L
  BY DEF IInv, Users, WireTypes
<1>2. \A i \in 1 .. L : i \in A <=> IsState(wire[i], s) \/ IsRemove(wire[i], s)
  BY <1>1 DEF AboutUser, IsState, IsRemove
<1>3. A \subseteq 1 .. L
  BY <1>1 DEF AboutUser
<1>4. CASE A = {}
  <2>1. Silent(s, 1)
    BY <1>2, <1>4 DEF Silent
  <2> QED BY <1>1, <1>4, <2>1, SilentKnown
<1>5. CASE A # {}
  <2> DEFINE M == Max(A)
  <2>1. M \in A /\ \A x \in A : x <= M
    <3> HIDE DEF A
    <3> QED BY <1>1, <1>3, <1>5, MaxIs
  <2> HIDE DEF M, A
  <2>2. M \in 1 .. L
    BY <1>3, <2>1
  <2>3. \A j \in M + 1 .. L : ~IsState(wire[j], s) /\ ~IsRemove(wire[j], s)
    BY <1>1, <1>2, <2>1, <2>2
  <2>4. CASE IsState(wire[M], s)
    <3>1. Known(s, L)
      BY <2>2, <2>3, <2>4 DEF Known, Stays
    <3> QED BY <1>1, <1>5, <2>4, <3>1 DEF UserInv, Tracked, IsState, M, A
  <2>5. CASE IsRemove(wire[M], s)
    <3>1. ~Stays(s, 1, L)
      BY <2>2, <2>5 DEF Stays
    <3>2. ASSUME NEW j \in 1 .. L, IsState(wire[j], s), Stays(s, j + 1, L) PROVE FALSE
      <4>1. j < M
        BY <1>1, <2>2, <2>3, <2>5, <3>2 DEF IsState, IsRemove
      <4> QED BY <1>1, <2>2, <2>5, <3>2, <4>1 DEF Stays
    <3>3. ~Known(s, L)
      BY <3>1, <3>2 DEF Known
    <3> QED BY <1>1, <1>5, <2>5, <3>3 DEF UserInv, Tracked, IsRemove, M, A
  <2> QED BY <1>2, <2>1, <2>2, <2>4, <2>5
<1> QED BY <1>4, <1>5

\* No message about s in AboutUser's words and in ours.
LEMMA SilentAbout ==
    ASSUME wire \in Seq(Message), NEW s, AboutUser(s) = {}
    PROVE  Silent(s, 1)
<1>1. DOMAIN wire = 1 .. Len(wire)
  OBVIOUS
<1> QED BY <1>1 DEF AboutUser, Silent, IsState, IsRemove

LEMMA NamesFacts == IInv => NamesKnown
<1> SUFFICES ASSUME IInv, link = "up", NEW s \in DOMAIN users, AboutUser(s) = {}
             PROVE  user_map[s].name \in users[s].had
  BY DEF NamesKnown
<1>1. UserInv(s) /\ Silent(s, 1)
  BY SilentAbout DEF IInv, Users, WireTypes, ServerTypes
<1> QED BY <1>1 DEF UserInv, Named, Silent

LEMMA LocationsFacts == IInv => LocationsKnown
<1> SUFFICES ASSUME IInv, link = "up", NEW s \in DOMAIN users, AboutUser(s) = {}
             PROVE  user_map[s].channelId \in {users[s].channel, NoId}
  BY DEF LocationsKnown
<1>1. UserInv(s) /\ Silent(s, 1)
  BY SilentAbout DEF IInv, Users, WireTypes, ServerTypes
<1> QED BY <1>1 DEF UserInv, Located

-----------------------------------------------------------------------------
(***************************************************************************)
(* The server's steps                                                      *)
(***************************************************************************)

\* What the message m of a step has to say of s.
Suits(m, s) ==
    \/ /\ ~IsState(m, s)
       /\ ~IsRemove(m, s)
       /\ s \in DOMAIN users' <=> s \in DOMAIN users
       /\ s \in DOMAIN users => users'[s] = users[s]
    \/ /\ IsState(m, s)
       /\ s \in DOMAIN users'
       /\ s \in DOMAIN users => users[s].had \subseteq users'[s].had
       /\ s \notin DOMAIN users => m.name \in users'[s].had /\ m.name # NoName
       /\ m.channel_id \in {users'[s].channel, NoId}
    \/ IsRemove(m, s) /\ s \notin DOMAIN users'

Says(m) == wire' = IF link = "up" THEN Append(wire, m) ELSE wire

LEMMA SaysInv ==
    ASSUME IInv, NEW m \in Message, Says(m), ServerTypes', link' = link, UNCHANGED client,
           outbox' # << >> => link = "up",
           \A s \in Sessions : Suits(m, s)
    PROVE  IInv'
<1>1. wire \in Seq(Message) /\ (link = "down" => wire = << >>) /\ link \in {"down", "up"}
  BY DEF IInv, WireTypes, ServerTypes
<1>2. wire' \in Seq(Message) /\ (link' = "down" => wire' = << >>)
  BY <1>1, Appended DEF Says
<1>3. WireTypes'
  BY <1>2 DEF WireTypes
<1>4. ClientTypes' /\ MutesTracked'
  BY DEF IInv, ClientTypes, MutesTracked, client
<1>5. ASSUME link = "up", NEW s \in Sessions PROVE UserInv(s)'
  <2>1. /\ UserInv(s) /\ wire' = Append(wire, m) /\ user_map' = user_map /\ Suits(m, s)
        /\ wire \in Seq(Message)
    BY <1>1, <1>5 DEF IInv, Users, Says, client
  <2> QED BY <2>1, AppendsOther, AppendsState, AppendsRemove DEF Suits
<1>6. Users'
  BY <1>5 DEF Users
<1> QED BY <1>3, <1>4, <1>6 DEF IInv

\* The fields of the messages.
LEMMA StateFields ==
    \A t, n, c, s : LET m == UserState(t, n, c)
                   IN  /\ IsState(m, s) <=> s = t
                       /\ ~IsRemove(m, s)
                       /\ m.name = n
                       /\ m.channel_id = c
BY DEF UserState, IsState, IsRemove

LEMMA StateMessage ==
    ASSUME NEW s \in Sessions, NEW n \in Names \cup {NoName}, NEW c \in Channels \cup {NoId}
    PROVE  LET m == UserState(s, n, c)
           IN  /\ m \in Message /\ IsState(m, s) /\ m.name = n /\ m.channel_id = c
               /\ \A t : t # s => ~IsState(m, t) /\ ~IsRemove(m, t)
BY DEF Message, UserState, IsState, IsRemove

LEMMA RemoveMessage ==
    ASSUME NEW s \in Sessions
    PROVE  LET m == UserRemove(s)
           IN  /\ m \in Message /\ IsRemove(m, s)
               /\ \A t : t # s => ~IsState(m, t) /\ ~IsRemove(m, t)
BY DEF Message, UserRemove, IsState, IsRemove

\* Those that are about no user.
LEMMA OtherMessages ==
    /\ \A c \in Channels, n \in ChannelNames :
          /\ ChannelState(c, n) \in Message
          /\ \A t : ~IsState(ChannelState(c, n), t) /\ ~IsRemove(ChannelState(c, n), t)
    /\ \A c \in Channels :
          /\ ChannelRemove(c) \in Message
          /\ \A t : ~IsState(ChannelRemove(c), t) /\ ~IsRemove(ChannelRemove(c), t)
    /\ \A s \in Sessions :
          /\ ServerSync(s) \in Message
          /\ \A t : ~IsState(ServerSync(s), t) /\ ~IsRemove(ServerSync(s), t)
BY DEF Message, ChannelState, ChannelRemove, ServerSync, IsState, IsRemove

LEMMA JoinStep ==
    ASSUME IInv, NEW s \in Sessions, NEW n \in Names, NEW c \in DOMAIN channels,
           UserJoins(s, n, c), outbox' = outbox
    PROVE  IInv'
<1> DEFINE m == UserState(s, n, c)
<1>1. /\ ServerTypes /\ WireTypes /\ c \in Channels /\ n # NoName
  BY NoNames DEF IInv, ServerTypes
<1>2. /\ s \notin DOMAIN users /\ users' = Put(users, s, Newcomer(n, c)) /\ channels' = channels
      /\ Says(m) /\ link' = link /\ own' = own /\ UNCHANGED client
  BY DEF UserJoins, Reports, Says
<1>3. /\ DOMAIN users' = DOMAIN users \cup {s} /\ users'[s] = Newcomer(n, c)
      /\ \A t \in DOMAIN users : t # s => users'[t] = users[t]
  BY <1>2 DEF Put
<1>4. Newcomer(n, c).had = {n} /\ Newcomer(n, c).channel = c
      /\ Newcomer(n, c) \in [name : Names, had : SUBSET Names, channel : DOMAIN channels]
  BY DEF Newcomer
<1>5. IsFiniteSet(DOMAIN users')
  BY <1>1, <1>3, FS_AddElement DEF ServerTypes
<1>6. \A t \in DOMAIN users' : users'[t] \in [name : Names, had : SUBSET Names, channel : DOMAIN channels]
  BY <1>1, <1>3, <1>4 DEF ServerTypes
<1>7. ServerTypes'
  <2>1. /\ link' \in {"down", "up"} /\ own' \in DOMAIN users' \cup {0}
        /\ link' = "up" => own' \in DOMAIN users'
    BY <1>1, <1>2, <1>3 DEF ServerTypes
  <2>2. DOMAIN users' \subseteq Sessions
    BY <1>1, <1>3 DEF ServerTypes
  <2> QED BY <1>1, <1>2, <1>5, <1>6, <2>1, <2>2 DEF ServerTypes
<1>8. /\ m \in Message /\ IsState(m, s) /\ m.name = n /\ m.channel_id = c
      /\ \A t : t # s => ~IsState(m, t) /\ ~IsRemove(m, t)
  BY <1>1, StateMessage
<1> HIDE DEF m
<1>9. \A t \in Sessions : Suits(m, t)
  BY <1>1, <1>2, <1>3, <1>4, <1>8 DEF Suits
<1> QED BY <1>1, <1>2, <1>7, <1>8, <1>9, SaysInv DEF WireTypes

LEMMA LeaveStep ==
    ASSUME IInv, NEW s \in DOMAIN users, UserLeaves(s), outbox' = outbox
    PROVE  IInv'
<1> DEFINE m == UserRemove(s)
<1>1. ServerTypes /\ WireTypes /\ s \in Sessions
  BY DEF IInv, ServerTypes
<1>2. /\ s # own /\ users' = Drop(users, s) /\ channels' = channels
      /\ Says(m) /\ link' = link /\ own' = own /\ UNCHANGED client
  BY DEF UserLeaves, Reports, Says
<1>3. /\ DOMAIN users' = DOMAIN users \ {s}
      /\ \A t \in DOMAIN users : t # s => users'[t] = users[t]
  BY <1>2 DEF Drop
<1>4. IsFiniteSet(DOMAIN users')
  BY <1>1, <1>3, FS_RemoveElement DEF ServerTypes
<1>5. ServerTypes'
  BY <1>1, <1>2, <1>3, <1>4 DEF ServerTypes
<1>6. /\ m \in Message /\ IsRemove(m, s)
      /\ \A t : t # s => ~IsState(m, t) /\ ~IsRemove(m, t)
  BY <1>1, RemoveMessage
<1> HIDE DEF m
<1>7. \A t \in Sessions : Suits(m, t)
  BY <1>3, <1>6 DEF Suits
<1> QED BY <1>1, <1>2, <1>5, <1>6, <1>7, SaysInv DEF WireTypes

\* A report about s, who stays, with its names, and perhaps another: where s is, or nothing.
LEMMA ChangeStep ==
    ASSUME IInv, NEW s \in DOMAIN users, NEW name \in Names \cup {NoName}, NEW c \in Channels \cup {NoId},
           Says(UserState(s, name, c)), link' = link, own' = own, channels' = channels,
           UNCHANGED client, outbox' # << >> => link = "up",
           DOMAIN users' = DOMAIN users,
           \A t \in DOMAIN users : t # s => users'[t] = users[t],
           users'[s] \in [name : Names, had : SUBSET Names, channel : DOMAIN channels],
           users[s].had \subseteq users'[s].had,
           c \in {users'[s].channel, NoId}
    PROVE  IInv'
<1> DEFINE m == UserState(s, name, c)
<1>1. ServerTypes /\ s \in Sessions
  BY DEF IInv, ServerTypes
<1>2. ServerTypes'
  BY <1>1 DEF ServerTypes
<1>3. /\ m \in Message /\ IsState(m, s) /\ m.channel_id = c
      /\ \A t : t # s => ~IsState(m, t) /\ ~IsRemove(m, t)
  BY <1>1, StateMessage
<1> HIDE DEF m
<1>4. ASSUME NEW t \in Sessions PROVE Suits(m, t)
  <2>1. CASE t = s
    BY <1>3, <2>1 DEF Suits
  <2>2. CASE t # s
    BY <1>3, <2>2 DEF Suits
  <2> QED BY <2>1, <2>2
<1> QED BY <1>1, <1>2, <1>3, <1>4, SaysInv DEF m

\* The users with one of them in another channel, or with another name.
LEMMA MovedUser ==
    ASSUME ServerTypes, NEW s \in DOMAIN users, NEW c \in DOMAIN channels,
           users' = [users EXCEPT ![s].channel = c]
    PROVE  /\ DOMAIN users' = DOMAIN users
           /\ \A t \in DOMAIN users : t # s => users'[t] = users[t]
           /\ users'[s] \in [name : Names, had : SUBSET Names, channel : DOMAIN channels]
           /\ users[s].had \subseteq users'[s].had
           /\ users'[s].channel = c
<1>1. users[s] \in [name : Names, had : SUBSET Names, channel : DOMAIN channels]
  BY DEF ServerTypes
<1>2. users'[s] = [users[s] EXCEPT !.channel = c]
  OBVIOUS
<1> QED BY <1>1, <1>2

LEMMA RenamedUser ==
    ASSUME ServerTypes, NEW s \in DOMAIN users, NEW n \in Names,
           users' = [users EXCEPT ![s].name = n, ![s].had = @ \cup {n}]
    PROVE  /\ DOMAIN users' = DOMAIN users
           /\ \A t \in DOMAIN users : t # s => users'[t] = users[t]
           /\ users'[s] \in [name : Names, had : SUBSET Names, channel : DOMAIN channels]
           /\ users[s].had \subseteq users'[s].had
<1>1. users[s] \in [name : Names, had : SUBSET Names, channel : DOMAIN channels]
  BY DEF ServerTypes
<1>2. users'[s] = [users[s] EXCEPT !.name = n, !.had = @ \cup {n}]
  OBVIOUS
<1> QED BY <1>1, <1>2

LEMMA UserSteps ==
    ASSUME IInv, NEW s \in DOMAIN users, outbox' = outbox,
           \/ UserChanges(s)
           \/ \E c \in DOMAIN channels : UserMoves(s, c)
           \/ \E n \in Names : UserRenamed(s, n)
    PROVE  IInv'
<1>1. /\ ServerTypes /\ DOMAIN channels \subseteq Channels
      /\ outbox' # << >> => link = "up"
  BY DEF IInv, ServerTypes, WireTypes
<1>2. CASE UserChanges(s)
  <2>1. /\ Says(UserState(s, NoName, NoId)) /\ link' = link /\ own' = own
        /\ users' = users /\ channels' = channels /\ UNCHANGED client
    BY <1>2 DEF UserChanges, Reports, Says
  <2>2. users[s] \in [name : Names, had : SUBSET Names, channel : DOMAIN channels]
    BY <1>1 DEF ServerTypes
  <2> QED BY <1>1, <2>1, <2>2, ChangeStep
<1>3. ASSUME NEW c \in DOMAIN channels, UserMoves(s, c) PROVE IInv'
  <2>1. /\ Says(UserState(s, NoName, c)) /\ link' = link /\ own' = own
        /\ users' = [users EXCEPT ![s].channel = c] /\ channels' = channels /\ UNCHANGED client
    BY <1>3 DEF UserMoves, Reports, Says
  <2>2. /\ DOMAIN users' = DOMAIN users
        /\ \A t \in DOMAIN users : t # s => users'[t] = users[t]
        /\ users'[s] \in [name : Names, had : SUBSET Names, channel : DOMAIN channels]
        /\ users[s].had \subseteq users'[s].had /\ users'[s].channel = c
    BY <1>1, <2>1, MovedUser
  <2> QED BY <1>1, <2>1, <2>2, ChangeStep
<1>4. ASSUME NEW n \in Names, UserRenamed(s, n) PROVE IInv'
  <2>1. /\ Says(UserState(s, n, NoId)) /\ link' = link /\ own' = own
        /\ users' = [users EXCEPT ![s].name = n, ![s].had = @ \cup {n}]
        /\ channels' = channels /\ UNCHANGED client
    BY <1>4 DEF UserRenamed, Reports, Says
  <2>2. /\ DOMAIN users' = DOMAIN users
        /\ \A t \in DOMAIN users : t # s => users'[t] = users[t]
        /\ users'[s] \in [name : Names, had : SUBSET Names, channel : DOMAIN channels]
        /\ users[s].had \subseteq users'[s].had
    BY <1>1, <2>1, RenamedUser
  <2> QED BY <1>1, <2>1, <2>2, ChangeStep
<1> QED BY <1>2, <1>3, <1>4

\* A request of the client's own is answered like a change of the server's.
LEMMA OwnStep == ASSUME IInv, ReadsUserState PROVE IInv'
<1> DEFINE c == Head(outbox).channel_id
<1>1. /\ ServerTypes /\ DOMAIN channels \subseteq Channels
      /\ outbox # << >> /\ link = "up" /\ own \in DOMAIN users
      /\ link' = link /\ own' = own /\ channels' = channels /\ UNCHANGED client
  BY DEF IInv, ServerTypes, WireTypes, ReadsUserState, Reads
<1>2. \/ c \in DOMAIN channels \cup {NoId}
         /\ users' = (IF c = NoId THEN users ELSE [users EXCEPT ![own].channel = c])
         /\ wire' = Append(wire, UserState(own, NoName, c))
      \/ users' = users /\ wire' = wire
  BY DEF ReadsUserState
<1> HIDE DEF c
<1>3. CASE users' = users /\ wire' = wire
  <2>1. \A s \in Sessions : UserInv(s) => UserInv(s)'
    BY <1>1, <1>3, KeepsOthers DEF client
  <2>2. Users'
    BY <1>1, <2>1 DEF IInv, Users
  <2>3. ServerTypes' /\ WireTypes' /\ ClientTypes' /\ MutesTracked'
    BY <1>1, <1>3 DEF IInv, ServerTypes, WireTypes, ClientTypes, MutesTracked, client
  <2> QED BY <2>2, <2>3 DEF IInv
<1>4. CASE /\ c \in DOMAIN channels \cup {NoId}
           /\ users' = (IF c = NoId THEN users ELSE [users EXCEPT ![own].channel = c])
           /\ wire' = Append(wire, UserState(own, NoName, c))
  <2>1. Says(UserState(own, NoName, c))
    BY <1>1, <1>4 DEF Says
  <2>2. users[own] \in [name : Names, had : SUBSET Names, channel : DOMAIN channels]
    BY <1>1 DEF ServerTypes
  <2>3. /\ DOMAIN users' = DOMAIN users
        /\ \A t \in DOMAIN users : t # own => users'[t] = users[t]
        /\ users'[own] \in [name : Names, had : SUBSET Names, channel : DOMAIN channels]
        /\ users[own].had \subseteq users'[own].had
        /\ c \in {users'[own].channel, NoId}
    <3>1. CASE c = NoId
      BY <1>4, <2>2, <3>1
    <3>2. CASE c # NoId
      <4>1. c \in DOMAIN channels /\ users' = [users EXCEPT ![own].channel = c]
        BY <1>4, <3>2
      <4> QED BY <1>1, <4>1, MovedUser
    <3> QED BY <3>1, <3>2
  <2> QED BY <1>1, <1>4, <2>1, <2>3, ChangeStep
<1> QED BY <1>2, <1>3, <1>4

LEMMA ChannelSteps ==
    ASSUME IInv, outbox' = outbox,
           \/ \E c \in Channels, n \in ChannelNames : ChannelAdded(c, n)
           \/ \E c \in DOMAIN channels :
                 ChannelRemoved(c) \/ \E n \in ChannelNames : ChannelRenamed(c, n)
    PROVE  IInv'
<1>1. ServerTypes /\ (outbox' # << >> => link = "up")
  BY DEF IInv, WireTypes
<1>2. ASSUME NEW m \in Message, Says(m), \A t : ~IsState(m, t) /\ ~IsRemove(m, t),
             link' = link, own' = own, users' = users, UNCHANGED client,
             DOMAIN channels' \subseteq Channels, IsFiniteSet(DOMAIN channels'),
             \A c \in DOMAIN channels' : channels'[c] \in ChannelNames,
             \A s \in DOMAIN users : users[s].channel \in DOMAIN channels'
      PROVE  IInv'
  <2>1. \A s \in DOMAIN users : users[s] \in [name : Names, had : SUBSET Names, channel : DOMAIN channels']
    BY <1>1, <1>2 DEF ServerTypes
  <2>2. ServerTypes'
    BY <1>1, <1>2, <2>1 DEF ServerTypes
  <2>3. \A t \in Sessions : Suits(m, t)
    BY <1>2 DEF Suits
  <2> QED BY <1>1, <1>2, <2>2, <2>3, SaysInv
<1>3. \A s \in DOMAIN users : users[s].channel \in DOMAIN channels
  BY <1>1 DEF ServerTypes
<1>4. ASSUME NEW c \in Channels, NEW n \in ChannelNames, ChannelAdded(c, n) PROVE IInv'
  <2>1. /\ channels' = Put(channels, c, n) /\ users' = users
        /\ Says(ChannelState(c, n)) /\ link' = link /\ own' = own /\ UNCHANGED client
    BY <1>4 DEF ChannelAdded, Reports, Says
  <2>2. /\ DOMAIN channels' = DOMAIN channels \cup {c}
        /\ \A d \in DOMAIN channels' : channels'[d] \in ChannelNames
    BY <1>1, <2>1 DEF Put, ServerTypes
  <2>3. DOMAIN channels' \subseteq Channels /\ IsFiniteSet(DOMAIN channels')
    BY <1>1, <2>2, FS_AddElement DEF ServerTypes
  <2> QED BY <1>2, <1>3, <2>1, <2>2, <2>3, OtherMessages
<1>5. ASSUME NEW c \in DOMAIN channels, ChannelRemoved(c) PROVE IInv'
  <2>1. /\ channels' = Drop(channels, c) /\ users' = users
        /\ \A s \in DOMAIN users : users[s].channel # c
        /\ Says(ChannelRemove(c)) /\ link' = link /\ own' = own /\ UNCHANGED client
    BY <1>5 DEF ChannelRemoved, Reports, Says
  <2>2. /\ DOMAIN channels' = DOMAIN channels \ {c}
        /\ \A d \in DOMAIN channels' : channels'[d] \in ChannelNames
    BY <1>1, <2>1 DEF Drop, ServerTypes
  <2>3. DOMAIN channels' \subseteq Channels /\ IsFiniteSet(DOMAIN channels') /\ c \in Channels
    BY <1>1, <2>2, FS_RemoveElement DEF ServerTypes
  <2> QED BY <1>2, <1>3, <2>1, <2>2, <2>3, OtherMessages
<1>6. ASSUME NEW c \in DOMAIN channels, NEW n \in ChannelNames, ChannelRenamed(c, n) PROVE IInv'
  <2>1. /\ channels' = [channels EXCEPT ![c] = n] /\ users' = users
        /\ Says(ChannelState(c, n)) /\ link' = link /\ own' = own /\ UNCHANGED client
    BY <1>6 DEF ChannelRenamed, Reports, Says
  <2>2. /\ DOMAIN channels' = DOMAIN channels
        /\ \A d \in DOMAIN channels' : channels'[d] \in ChannelNames
        /\ c \in Channels
    BY <1>1, <2>1 DEF ServerTypes
  <2> QED BY <1>1, <1>2, <1>3, <2>1, <2>2, OtherMessages DEF ServerTypes
<1> QED BY <1>4, <1>5, <1>6

LEMMA ServerInv == ASSUME IInv, Server, outbox' = outbox PROVE IInv'
<1>1. ASSUME NEW s \in Sessions, NEW n \in Names, NEW c \in DOMAIN channels, UserJoins(s, n, c)
      PROVE  IInv'
  BY <1>1, JoinStep
<1>2. ASSUME NEW s \in DOMAIN users, UserLeaves(s) PROVE IInv'
  BY <1>2, LeaveStep
<1>3. ASSUME NEW s \in DOMAIN users,
             \/ UserChanges(s)
             \/ \E c \in DOMAIN channels : UserMoves(s, c)
             \/ \E n \in Names : UserRenamed(s, n)
      PROVE  IInv'
  BY <1>3, UserSteps
<1>4. ASSUME \/ \E c \in Channels, n \in ChannelNames : ChannelAdded(c, n)
             \/ \E c \in DOMAIN channels :
                   ChannelRemoved(c) \/ \E n \in ChannelNames : ChannelRenamed(c, n)
      PROVE  IInv'
  BY <1>4, ChannelSteps
<1> QED BY <1>1, <1>2, <1>3, <1>4 DEF Server

-----------------------------------------------------------------------------
(***************************************************************************)
(* The client's steps                                                      *)
(***************************************************************************)

LEMMA PacketInv ==
    ASSUME IInv, wire # << >>, wire' = Tail(wire), UNCHANGED server, outbox' = outbox,
           ClientTypes', MutesTracked', \A s \in Sessions : Took(Head(wire), s)
    PROVE  IInv'
<1>1. ServerTypes'
  BY DEF IInv, ServerTypes, server
<1>2. wire \in Seq(Message) /\ wire' \in Seq(Message) /\ link = "up" /\ link' = link
  BY Advanced DEF IInv, WireTypes, ServerTypes, server
<1>3. WireTypes'
  BY <1>2 DEF IInv, WireTypes
<1>4. \A s \in Sessions : UserInv(s)'
  BY <1>2, ReadsHead DEF IInv, Users, server
<1> QED BY <1>1, <1>3, <1>4 DEF IInv, Users

\* What is next on the wire.
LEMMA NextMessage ==
    ASSUME IInv, NEW type, Processes(type)
    PROVE  /\ wire # << >> /\ wire' = Tail(wire) /\ UNCHANGED server /\ link = "up"
           /\ Head(wire) \in Message /\ Head(wire).type = type /\ Head(wire) = wire[1]
           /\ Len(wire) \in Nat /\ Len(wire) >= 1
<1>1. wire \in Seq(Message) /\ wire # << >> /\ wire' = Tail(wire)
  BY DEF IInv, WireTypes, Processes
<1> QED BY <1>1, Advanced DEF IInv, WireTypes, ServerTypes, Processes

\* One about no user leaves those the client has as they are.
LEMMA TookOther ==
    ASSUME NEW m, m.type \notin {"USERSTATE", "USERREMOVE"}, user_map' = user_map
    PROVE  \A s \in Sessions : Took(m, s)
BY DEF Took, IsState, IsRemove

LEMMA MinIs ==
    ASSUME NEW S \in SUBSET Nat, S # {}
    PROVE  Min(S) \in S
<1> DEFINE R == OpToRel(<, Nat)
<1>1. \A x, y \in Nat : <<y, x>> \in R <=> y < x
  <2>1. R = {ss \in Nat \X Nat : ss[1] < ss[2]}
    BY Zenon DEF OpToRel
  <2> HIDE DEF R
  <2>2. \A x, y \in Nat : <<y, x>> \in Nat \X Nat /\ <<y, x>>[1] = y /\ <<y, x>>[2] = x
    OBVIOUS
  <2> QED BY <2>1, <2>2
<1> HIDE DEF R
<1>2. \E x \in S : \A y \in S : <<y, x>> \notin R
  <2>1. IsWellFoundedOn(R, Nat)
    BY NatLessThanWellFounded, Zenon DEF R
  <2> QED BY <2>1, WFMin
<1>3. \E x \in S : \A y \in S : x <= y
  <2>1. PICK x \in S : \A y \in S : ~(y < x)
    BY <1>1, <1>2
  <2> QED BY <2>1
<1> QED BY <1>3 DEF Min

LEMMA ErasedType ==
    ASSUME NEW T, channel_list \in Seq(T), NEW c
    PROVE  ChannelErase(c) \in Seq(T)
<1>1. CASE ChannelExists(c)
  <2> DEFINE I == {i \in 1 .. Len(channel_list) : channel_list[i].channelId = c}
             k == SelectInSeq(channel_list, LAMBDA ch : ch.channelId = c)
  <2>1. I \in SUBSET Nat /\ I # {}
    BY <1>1 DEF ChannelExists
  <2>2. k = Min(I)
    BY <2>1 DEF SelectInSeq
  <2> HIDE DEF I
  <2>3. Min(I) \in I
    BY <2>1, MinIs
  <2> HIDE DEF k
  <2>4. k \in 1 .. Len(channel_list)
    BY <2>2, <2>3 DEF I
  <2>5. RemoveAt(channel_list, k) \in Seq(T)
    <3>1. /\ SubSeq(channel_list, 1, k - 1) \in Seq(T)
          /\ SubSeq(channel_list, k + 1, Len(channel_list)) \in Seq(T)
      BY <2>4
    <3> QED BY <3>1 DEF RemoveAt
  <2> QED BY <1>1, <2>5 DEF ChannelErase, k
<1>2. CASE ~ChannelExists(c)
  BY <1>2 DEF ChannelErase
<1> QED BY <1>1, <1>2

LEMMA ChannelPackets ==
    ASSUME IInv, outbox' = outbox, ChannelStatePacket \/ ChannelRemovePacket
    PROVE  IInv'
<1> DEFINE m == Head(wire)
<1>1. /\ UNCHANGED <<session_id, channel_current, user_map, asked>>
      /\ Processes("CHANNELSTATE") \/ Processes("CHANNELREMOVE")
  BY DEF ChannelStatePacket, ChannelRemovePacket
<1>2. channel_list' \in Seq([channelId : Channels, name : ChannelNames])
  <2>1. channel_list \in Seq([channelId : Channels, name : ChannelNames])
    BY DEF IInv, ClientTypes
  <2>2. CASE ChannelStatePacket
    <3>1. m \in Message /\ m.type = "CHANNELSTATE"
      BY <2>2, NextMessage DEF ChannelStatePacket
    <3>2. m.channel_id \in Channels /\ m.name \in ChannelNames
      BY <3>1 DEF Message
    <3>3. [channelId |-> m.channel_id, name |-> m.name] \in [channelId : Channels, name : ChannelNames]
      BY <3>2
    <3>4. \/ channel_list' = channel_list
          \/ channel_list' = Append(channel_list, [channelId |-> m.channel_id, name |-> m.name])
      BY <2>2 DEF ChannelStatePacket
    <3> DEFINE e == [channelId |-> m.channel_id, name |-> m.name]
    <3> HIDE DEF m, e
    <3>5. Append(channel_list, e) \in Seq([channelId : Channels, name : ChannelNames])
      BY <2>1, <3>3 DEF e
    <3> QED BY <2>1, <3>4, <3>5 DEF e
  <2>3. CASE ChannelRemovePacket
    BY <2>1, <2>3, ErasedType DEF ChannelRemovePacket
  <2> QED BY <2>2, <2>3
<1>3. ClientTypes' /\ MutesTracked'
  BY <1>1, <1>2 DEF IInv, ClientTypes, MutesTracked
<1>4. m.type \notin {"USERSTATE", "USERREMOVE"}
  BY <1>1 DEF Processes
<1>5. \A s \in Sessions : Took(m, s)
  BY <1>1, <1>4, TookOther
<1> QED BY <1>1, <1>3, <1>5, NextMessage, PacketInv

LEMMA SyncPacket == ASSUME IInv, outbox' = outbox, ServerSyncPacket PROVE IInv'
<1> DEFINE m == Head(wire)
<1>1. /\ Processes("SERVERSYNC") /\ session_id' = m.session
      /\ UNCHANGED <<channel_current, channel_list, user_map, asked>>
  BY DEF ServerSyncPacket
<1>2. m \in Message /\ m.type = "SERVERSYNC"
  BY <1>1, NextMessage
<1>3. m.session \in Sessions
  BY <1>2 DEF Message
<1> HIDE DEF m
<1>4. ClientTypes' /\ MutesTracked'
  BY <1>1, <1>3 DEF IInv, ClientTypes, MutesTracked
<1>5. \A s \in Sessions : Took(m, s)
  BY <1>1, <1>2, TookOther
<1> QED BY <1>1, <1>4, <1>5, NextMessage, PacketInv DEF m

LEMMA StatePacket == ASSUME IInv, outbox' = outbox, UserStatePacket PROVE IInv'
<1> DEFINE m == Head(wire)
           t == m.session
           u == Updated(m)
<1>1. /\ Processes("USERSTATE")
      /\ channel_current' \in {m.channel_id, channel_current}
      /\ user_map' = Put(user_map, t, u)
      /\ UNCHANGED <<session_id, channel_list, asked>>
  BY DEF UserStatePacket
<1>2. /\ m \in Message /\ m.type = "USERSTATE" /\ m = wire[1] /\ link = "up"
      /\ Len(wire) \in Nat /\ Len(wire) >= 1
  BY <1>1, NextMessage
<1>3. t \in Sessions /\ m.name \in Names \cup {NoName} /\ m.channel_id \in Channels \cup {NoId}
  BY <1>2 DEF Message
<1>4. /\ DOMAIN user_map' = DOMAIN user_map \cup {t} /\ user_map'[t] = u
      /\ \A s \in DOMAIN user_map : s # t => user_map'[s] = user_map[s]
  BY <1>1 DEF Put
<1>5. ASSUME t \notin DOMAIN user_map PROVE m.name \in Names
  <2>1. Introduced(t)
    BY <1>2, <1>3 DEF IInv, Users, UserInv
  <2>2. \A n : n = 1 - 1 => ~Known(t, n)
    BY <1>5 DEF Known
  <2>3. IsState(wire[1], t)
    BY <1>2 DEF IsState
  <2>4. wire[1].name # NoName
    BY <1>2, <2>1, <2>2, <2>3 DEF Introduced
  <2> QED BY <1>2, <1>3, <2>4
<1>6. /\ u \in User /\ u.channelId = m.channel_id
      /\ t \in DOMAIN user_map => /\ u.name = user_map[t].name
                                  /\ u.local_mute = user_map[t].local_mute
      /\ t \notin DOMAIN user_map => u.name = m.name /\ u.local_mute = FALSE
  <2>1. CASE t \in DOMAIN user_map
    <3>1. user_map[t] \in User
      BY <2>1 DEF IInv, ClientTypes
    <3>2. u = [user_map[t] EXCEPT !.channelId = m.channel_id]
      BY <2>1 DEF Updated
    <3> HIDE DEF m, t, u
    <3> QED BY <1>3, <2>1, <3>1, <3>2 DEF User
  <2>2. CASE t \notin DOMAIN user_map
    <3>1. u = [name |-> m.name, channelId |-> m.channel_id, local_mute |-> FALSE]
      BY <2>2 DEF Updated
    <3>2. m.name \in Names
      BY <1>5, <2>2
    <3> HIDE DEF m, t, u
    <3> QED BY <1>3, <2>2, <3>1, <3>2 DEF User
  <2> QED BY <2>1, <2>2
<1> HIDE DEF u
<1>7. \A s \in Sessions : Took(m, s)
  <2>1. \A s \in Sessions : IsState(m, s) <=> s = t
    BY <1>2 DEF IsState
  <2>2. \A s \in Sessions : ~IsRemove(m, s)
    BY <1>2 DEF IsRemove
  <2> HIDE DEF m, t
  <2>3. ASSUME NEW s \in Sessions PROVE Took(m, s)
    <3>1. CASE s = t
      BY <1>4, <1>6, <2>1, <2>2, <3>1 DEF Took
    <3>2. CASE s # t
      <4>1. s \in DOMAIN user_map' <=> s \in DOMAIN user_map
        BY <1>4, <3>2
      <4> QED BY <1>4, <2>1, <2>2, <3>2, <4>1 DEF Took
    <3> QED BY <3>1, <3>2
  <2> QED BY <2>3
<1> HIDE DEF m, t
<1>8. ClientTypes'
  BY <1>1, <1>3, <1>4, <1>6 DEF IInv, ClientTypes
<1>9. MutesTracked'
  <2>1. \A s : s \in DOMAIN user_map' /\ user_map'[s].local_mute
               <=> s \in DOMAIN user_map /\ user_map[s].local_mute
    BY <1>4, <1>6
  <2> QED BY <1>1, <2>1 DEF IInv, MutesTracked
<1> QED BY <1>1, <1>7, <1>8, <1>9, NextMessage, PacketInv DEF m

LEMMA RemovePacket == ASSUME IInv, outbox' = outbox, UserRemovePacket PROVE IInv'
<1> DEFINE m == Head(wire)
           t == m.session
<1>1. /\ Processes("USERREMOVE") /\ user_map' = Drop(user_map, t) /\ asked' = asked \ {t}
      /\ UNCHANGED <<session_id, channel_current, channel_list>>
  BY DEF UserRemovePacket
<1>2. m.type = "USERREMOVE"
  BY <1>1, NextMessage
<1>3. /\ DOMAIN user_map' = DOMAIN user_map \ {t}
      /\ \A s \in DOMAIN user_map : s # t => user_map'[s] = user_map[s]
  BY <1>1 DEF Drop
<1>4. \A s \in Sessions : Took(m, s)
  <2>1. \A s : ~IsState(m, s) /\ (IsRemove(m, s) <=> s = t)
    BY <1>2 DEF IsState, IsRemove
  <2> HIDE DEF m, t
  <2> QED BY <1>3, <2>1 DEF Took
<1> HIDE DEF m, t
<1>5. ClientTypes' /\ MutesTracked'
  BY <1>1, <1>3 DEF IInv, ClientTypes, MutesTracked
<1> QED BY <1>1, <1>4, <1>5, NextMessage, PacketInv DEF m

LEMMA MuteStep ==
    ASSUME IInv, outbox' = outbox, NEW s \in Sessions, NEW mute_state \in BOOLEAN,
           UserMute(s, mute_state)
    PROVE  IInv'
<1>1. /\ s \in DOMAIN user_map
      /\ user_map' = [user_map EXCEPT ![s].local_mute = mute_state]
      /\ asked' = IF mute_state THEN asked \cup {s} ELSE asked \ {s}
      /\ UNCHANGED <<server, wire, session_id, channel_current, channel_list>>
  BY DEF UserMute
<1>2. user_map[s] \in User
  BY <1>1 DEF IInv, ClientTypes
<1>3. /\ DOMAIN user_map' = DOMAIN user_map
      /\ \A t \in DOMAIN user_map : t # s => user_map'[t] = user_map[t]
      /\ user_map'[s] = [user_map[s] EXCEPT !.local_mute = mute_state]
  BY <1>1
<1>4. /\ user_map'[s] \in User /\ user_map'[s].local_mute = mute_state
      /\ user_map'[s].name = user_map[s].name /\ user_map'[s].channelId = user_map[s].channelId
  BY <1>2, <1>3 DEF User
<1>5. ClientTypes'
  BY <1>1, <1>3, <1>4 DEF IInv, ClientTypes
<1>6. MutesTracked'
  <2>1. asked = {t \in DOMAIN user_map : user_map[t].local_mute}
    BY DEF IInv, MutesTracked
  <2>2. CASE mute_state = TRUE
    <3>1. asked' = asked \cup {s} /\ user_map'[s].local_mute = TRUE
      BY <1>1, <1>4, <2>2
    <3>2. asked' = {t \in DOMAIN user_map' : user_map'[t].local_mute}
      BY <1>1, <1>3, <2>1, <3>1
    <3> QED BY <3>2 DEF MutesTracked
  <2>3. CASE mute_state = FALSE
    <3>1. asked' = asked \ {s} /\ user_map'[s].local_mute = FALSE
      BY <1>1, <1>4, <2>3
    <3>2. asked' = {t \in DOMAIN user_map' : user_map'[t].local_mute}
      BY <1>1, <1>3, <2>1, <3>1
    <3> QED BY <3>2 DEF MutesTracked
  <2> QED BY <2>2, <2>3
<1>7. ServerTypes' /\ WireTypes'
  BY <1>1 DEF IInv, ServerTypes, WireTypes, server
<1>8. Users'
  <2>1. \A t \in Sessions : UserInv(t) => UserInv(t)'
    BY <1>1, <1>3, <1>4, KeepsOthers DEF server
  <2> QED BY <1>1, <2>1 DEF IInv, Users, server
<1> QED BY <1>5, <1>6, <1>7, <1>8 DEF IInv

LEMMA ClientInv == ASSUME IInv, Client, outbox' = outbox PROVE IInv'
<1>1. CASE ChannelStatePacket \/ ChannelRemovePacket
  BY <1>1, ChannelPackets
<1>2. CASE UserStatePacket
  BY <1>2, StatePacket
<1>3. CASE UserRemovePacket
  BY <1>3, RemovePacket
<1>4. CASE ServerSyncPacket
  BY <1>4, SyncPacket
<1>5. ASSUME NEW s \in Sessions, NEW mute_state \in BOOLEAN, UserMute(s, mute_state) PROVE IInv'
  BY <1>5, MuteStep
<1> QED BY <1>1, <1>2, <1>3, <1>4, <1>5 DEF Client

-----------------------------------------------------------------------------
(***************************************************************************)
(* The login                                                               *)
(***************************************************************************)

\* A finite set in sequence: each member once.
LEMMA InSequence ==
    ASSUME NEW S, IsFiniteSet(S)
    PROVE  /\ Cardinality(S) \in Nat
           /\ SetToSeq(S) \in [1 .. Cardinality(S) -> S]
           /\ \A i, j \in 1 .. Cardinality(S) : SetToSeq(S)[i] = SetToSeq(S)[j] => i = j
           /\ \A x \in S : \E i \in 1 .. Cardinality(S) : SetToSeq(S)[i] = x
<1> DEFINE n == Cardinality(S)
           f == SetToSeq(S)
           T == 1 .. n
<1>1. n \in Nat /\ ExistsBijection(T, S)
  BY FS_CardinalityType
<1>2. IsFiniteSet(T) /\ Cardinality(T) = n
  BY <1>1, FS_Interval
<1>3. f \in [T -> S] /\ IsInjective(f)
  <2>1. \E g \in [T -> S] : IsInjective(g)
    BY <1>1, Zenon DEF ExistsBijection, Bijection, Injection
  <2> HIDE DEF T
  <2>2. f = CHOOSE g \in [T -> S] : IsInjective(g)
    BY DEF SetToSeq, T
  <2> HIDE DEF f
  <2> QED BY <2>1, <2>2, Zenon
<1> HIDE DEF f, T, n
<1>4. f \in Injection(T, S)
  BY <1>3 DEF Injection
<1>5. f \in Surjection(T, S)
  BY <1>2, <1>4, FS_Injection DEF n
<1>6. \A x \in S : \E i \in T : f[i] = x
  BY <1>5 DEF Surjection
<1>7. \A i, j \in T : f[i] = f[j] => i = j
  BY <1>3 DEF IsInjective
<1> QED BY <1>1, <1>3, <1>6, <1>7 DEF n, f, T

\* The channels, the users and the end of the login, one after another.
LEMMA InOrder ==
    ASSUME NEW A \in Seq(Message), NEW B \in Seq(Message), NEW x \in Message,
           NEW w, w = A \o B \o <<x>>
    PROVE  /\ w \in Seq(Message) /\ Len(w) = Len(A) + Len(B) + 1
           /\ \A i \in 1 .. Len(A) : w[i] = A[i]
           /\ \A i \in 1 .. Len(B) : w[Len(A) + i] = B[i]
           /\ w[Len(A) + Len(B) + 1] = x
OBVIOUS

\* A client that knows nobody is told of each user the server has, after C
\* messages about no user and before another, in the order f.
Greets(C, U, f, s) ==
    /\ Len(wire') = C + U + 1
    /\ DOMAIN user_map' = {}
    /\ \A i \in 1 .. C : ~IsState(wire'[i], s) /\ ~IsRemove(wire'[i], s)
    /\ \A i \in 1 .. U :
          /\ f[i] \in DOMAIN users'
          /\ wire'[C + i] = UserState(f[i], users'[f[i]].name, users'[f[i]].channel)
    /\ ~IsState(wire'[C + U + 1], s) /\ ~IsRemove(wire'[C + U + 1], s)
    /\ \A i, j \in 1 .. U : f[i] = f[j] => i = j
    /\ \A t \in DOMAIN users' : \E i \in 1 .. U : f[i] = t
    /\ \A t \in DOMAIN users' : users'[t].had = {users'[t].name} /\ users'[t].name # NoName

LEMMA LoggedIn ==
    ASSUME NEW C \in Nat, NEW U \in Nat, NEW f, NEW s, Greets(C, U, f, s)
    PROVE  UserInv(s)'
<1> DEFINE L == C + U + 1
<1>0. /\ Len(wire') = L
      /\ \A i \in 1 .. C : ~IsState(wire'[i], s) /\ ~IsRemove(wire'[i], s)
      /\ ~IsState(wire'[L], s) /\ ~IsRemove(wire'[L], s)
      /\ \A i, j \in 1 .. U : f[i] = f[j] => i = j
      /\ \A t \in DOMAIN users' : \E i \in 1 .. U : f[i] = t
      /\ \A t \in DOMAIN users' : users'[t].had = {users'[t].name} /\ users'[t].name # NoName
  BY Zenon DEF Greets
<1>1. \A i \in 1 .. L : i \in 1 .. C \/ i = L \/ (i - C \in 1 .. U /\ C + (i - C) = i)
  OBVIOUS
<1>2. \A i \in 1 .. U : /\ IsState(wire'[C + i], s) <=> s = f[i]
                        /\ ~IsRemove(wire'[C + i], s)
                        /\ wire'[C + i].name = users'[f[i]].name
                        /\ wire'[C + i].channel_id = users'[f[i]].channel
  <2>1. ASSUME NEW i \in 1 .. U
        PROVE  /\ IsState(wire'[C + i], s) <=> s = f[i]
               /\ ~IsRemove(wire'[C + i], s)
               /\ wire'[C + i].name = users'[f[i]].name
               /\ wire'[C + i].channel_id = users'[f[i]].channel
    <3>1. wire'[C + i] = UserState(f[i], users'[f[i]].name, users'[f[i]].channel)
      BY Zenon DEF Greets
    <3>2. PICK m, u, n, c : /\ m = wire'[C + i] /\ u = f[i]
                            /\ n = users'[f[i]].name /\ c = users'[f[i]].channel
      OBVIOUS
    <3>3. m = UserState(u, n, c)
      BY <3>1, <3>2
    <3>4. /\ IsState(m, s) <=> s = u
          /\ ~IsRemove(m, s)
          /\ m.name = n
          /\ m.channel_id = c
      BY <3>3, StateFields
    <3> QED BY <3>2, <3>4
  <2> QED BY <2>1
<1>3. \A i \in 1 .. L : IsState(wire'[i], s) => /\ s \in DOMAIN users'
                                               /\ i - C \in 1 .. U
                                               /\ f[i - C] = s
                                               /\ wire'[i].name = users'[s].name
                                               /\ wire'[i].channel_id = users'[s].channel
  <2> SUFFICES ASSUME NEW i \in 1 .. L, IsState(wire'[i], s)
               PROVE  /\ s \in DOMAIN users'
                      /\ i - C \in 1 .. U
                      /\ f[i - C] = s
                      /\ wire'[i].name = users'[s].name
                      /\ wire'[i].channel_id = users'[s].channel
    OBVIOUS
  <2>1. i \notin 1 .. C /\ i # L
    BY <1>0
  <2>2. i - C \in 1 .. U /\ i = C + (i - C)
    BY <1>1, <2>1
  <2>3. PICK k \in 1 .. U : k = i - C /\ C + k = i
    BY <2>2
  <2>4. /\ IsState(wire'[C + k], s) <=> s = f[k]
        /\ wire'[C + k].name = users'[f[k]].name
        /\ wire'[C + k].channel_id = users'[f[k]].channel
        /\ f[k] \in DOMAIN users'
    BY <1>2, Zenon DEF Greets
  <2>5. f[k] = s
    BY <2>3, <2>4
  <2> QED BY <2>3, <2>4, <2>5
<1>4. ASSUME NEW i \in 1 .. L PROVE ~IsRemove(wire'[i], s)
  <2>1. CASE i \in 1 .. C \/ i = L
    BY <1>0, <2>1
  <2>2. CASE i - C \in 1 .. U /\ C + (i - C) = i
    <3>1. PICK k \in 1 .. U : C + k = i
      BY <2>2
    <3> QED BY <1>2, <3>1
  <2> QED BY <1>1, <2>1, <2>2
<1>5. s \in DOMAIN users' => \E i \in 1 .. L : IsState(wire'[i], s)
  <2> SUFFICES ASSUME s \in DOMAIN users' PROVE \E i \in 1 .. L : IsState(wire'[i], s)
    OBVIOUS
  <2>1. PICK i \in 1 .. U : f[i] = s
    BY <1>0
  <2>2. C + i \in 1 .. L /\ IsState(wire'[C + i], s)
    BY <1>2, <2>1
  <2> QED BY <2>2
<1>6. L \in Nat /\ Len(wire') = L
  BY <1>0
<1> HIDE DEF L
<1>7. \A a \in Nat : a >= 1 => \A n \in 0 .. L : Stays(s, a, n)'
  BY <1>4, <1>6 DEF Stays
<1>8. \A n \in 0 .. L : Known(s, n)' <=> \E j \in 1 .. n : IsState(wire'[j], s)
  <2>1. \A n \in 0 .. L : \A j \in 1 .. n : Stays(s, j + 1, n)'
    BY <1>6, <1>7
  <2>2. DOMAIN user_map' = {}
    BY DEF Greets
  <2> QED BY <2>1, <2>2 DEF Known
<1>9. Tracked(s)'
  <2>1. \A n : n = L => (Known(s, n)' <=> \E j \in 1 .. n : IsState(wire'[j], s))
    <3>1. \A n : n = L => n \in 0 .. L
      BY <1>6
    <3> QED BY <1>8, <3>1, Zenon
  <2>2. Known(s, Len(wire))' <=> \E j \in 1 .. L : IsState(wire'[j], s)
    BY <1>6, <2>1
  <2> QED BY <1>3, <1>5, <2>2 DEF Tracked
<1>10. Introduced(s)'
  BY <1>0, <1>3, <1>6 DEF Introduced
<1>11. Named(s)'
  <2> SUFFICES ASSUME s \in DOMAIN users'
               PROVE  \E i \in 1 .. L : /\ IsState(wire'[i], s)
                                        /\ ~Known(s, i - 1)'
                                        /\ wire'[i].name \in users'[s].had
                                        /\ Stays(s, i + 1, Len(wire))'
    BY <1>6 DEF Named
  <2>1. PICK i \in 1 .. L : IsState(wire'[i], s)
    BY <1>5
  <2>2. wire'[i].name \in users'[s].had
    BY <1>0, <1>3, <2>1
  <2>3. ~Known(s, i - 1)'
    <3>1. \A n : n = i - 1 => (Known(s, n)' <=> \E j \in 1 .. n : IsState(wire'[j], s))
      <4>1. \A n : n = i - 1 => n \in 0 .. L
        BY <1>6
      <4> QED BY <1>8, <4>1, Zenon
    <3>2. \A j \in 1 .. i - 1 : ~IsState(wire'[j], s)
      <4> SUFFICES ASSUME NEW j \in 1 .. i - 1, IsState(wire'[j], s) PROVE FALSE
        OBVIOUS
      <4>1. j \in 1 .. L
        BY <1>6
      <4>2. i - C \in 1 .. U /\ j - C \in 1 .. U /\ f[i - C] = f[j - C]
        BY <1>3, <2>1, <4>1
      <4>3. i - C = j - C
        BY <1>0, <4>2
      <4> QED BY <1>6, <4>1, <4>3
    <3> QED BY <3>1, <3>2
  <2>4. Stays(s, i + 1, Len(wire))'
    BY <1>4, <1>6 DEF Stays
  <2> QED BY <2>1, <2>2, <2>3, <2>4
<1>12. Located(s)'
  <2>1. s \in DOMAIN users' => ~Silent(s, 1)'
    BY <1>5, <1>6 DEF Silent
  <2> QED BY <1>3, <1>6, <2>1 DEF Located
<1> QED BY <1>9, <1>10, <1>11, <1>12 DEF UserInv

\* A client that has forgotten everything.
LEMMA Cleared == ASSUME GeneralClear PROVE ClientTypes' /\ MutesTracked' /\ DOMAIN user_map' = {}
<1>1. /\ session_id' = 0 /\ channel_current' = 0 /\ channel_list' = << >> /\ asked' = {}
      /\ DOMAIN user_map' = {}
  BY DEF GeneralClear, NoUsers
<1>2. ClientTypes'
  BY <1>1, NumbersAssumption DEF ClientTypes
<1>3. MutesTracked'
  BY <1>1 DEF MutesTracked
<1> QED BY <1>1, <1>2, <1>3

\* The login on the wire: the channels g, the users f and the ServerSync.
Announced(n1, n2, g, f) ==
    /\ n1 \in Nat /\ n2 \in Nat
    /\ g \in [1 .. n1 -> DOMAIN channels]
    /\ \A c \in DOMAIN channels : \E i \in 1 .. n1 : g[i] = c
    /\ f \in [1 .. n2 -> DOMAIN users']
    /\ \A i, j \in 1 .. n2 : f[i] = f[j] => i = j
    /\ \A s \in DOMAIN users' : \E i \in 1 .. n2 : f[i] = s
    /\ wire' \in Seq(Message) /\ Len(wire') = n1 + n2 + 1
    /\ \A i \in 1 .. n1 : wire'[i] = ChannelState(g[i], channels[g[i]])
    /\ \A i \in 1 .. n2 : wire'[n1 + i] = UserState(f[i], users'[f[i]].name, users'[f[i]].channel)
    /\ wire'[n1 + n2 + 1] = ServerSync(own')

LEMMA LoginWire ==
    ASSUME ServerTypes, TransportConnect
    PROVE  /\ ServerTypes'
           /\ \A t \in DOMAIN users' : users'[t].had = {users'[t].name}
           /\ own' \in Sessions \ DOMAIN users /\ users'[own'].channel \in Home
           /\ \E n1, n2, g, f : Announced(n1, n2, g, f)
<1>1. link' = "up" /\ channels' = channels
  BY DEF TransportConnect
<1> DEFINE before == [t \in DOMAIN users |-> [users[t] EXCEPT !.had = {users[t].name}]]
           n1 == Cardinality(DOMAIN channels)
           n2 == Cardinality(DOMAIN users')
           A == [i \in 1 .. n1 |->
                   LET d == SetToSeq(DOMAIN channels)[i] IN ChannelState(d, channels[d])]
           B == [i \in 1 .. n2 |->
                   LET t == SetToSeq(DOMAIN users')[i]
                   IN  UserState(t, users'[t].name, users'[t].channel)]
<1>2. PICK s \in Sessions \ DOMAIN users, n \in Names, c \in Home \cap DOMAIN channels :
         /\ own' = s
         /\ users' = Put(before, s, Newcomer(n, c))
         /\ wire' = A \o B \o << ServerSync(s) >>
  BY Zenon DEF TransportConnect
<1>3. /\ DOMAIN users' = DOMAIN users \cup {s} /\ users'[s] = Newcomer(n, c)
      /\ \A t \in DOMAIN users : users'[t] = [users[t] EXCEPT !.had = {users[t].name}]
  BY <1>2 DEF Put
<1>4. /\ Newcomer(n, c) \in [name : Names, had : SUBSET Names, channel : DOMAIN channels]
      /\ Newcomer(n, c).had = {Newcomer(n, c).name} /\ Newcomer(n, c).channel = c
  BY DEF Newcomer
<1>5. \A t \in DOMAIN users' :
         /\ users'[t] \in [name : Names, had : SUBSET Names, channel : DOMAIN channels]
         /\ users'[t].had = {users'[t].name}
  <2>1. /\ users'[s] \in [name : Names, had : SUBSET Names, channel : DOMAIN channels]
        /\ users'[s].had = {users'[s].name}
    BY <1>3, <1>4
  <2>2. ASSUME NEW t \in DOMAIN users
        PROVE  /\ users'[t] \in [name : Names, had : SUBSET Names, channel : DOMAIN channels]
               /\ users'[t].had = {users'[t].name}
    <3>1. users[t] \in [name : Names, had : SUBSET Names, channel : DOMAIN channels]
      BY DEF ServerTypes
    <3>2. users'[t] = [users[t] EXCEPT !.had = {users[t].name}]
      BY <1>3
    <3> QED BY <3>1, <3>2
  <2> QED BY <1>3, <2>1, <2>2
<1> HIDE DEF before
<1>6. IsFiniteSet(DOMAIN users') /\ IsFiniteSet(DOMAIN channels)
  BY <1>3, FS_AddElement DEF ServerTypes
<1>7. DOMAIN users' \subseteq Sessions /\ own' \in DOMAIN users'
  BY <1>2, <1>3 DEF ServerTypes
<1>8. ServerTypes'
  BY <1>1, <1>5, <1>6, <1>7 DEF ServerTypes
<1>9. PICK g : g = SetToSeq(DOMAIN channels)
  OBVIOUS
<1>10. PICK f : f = SetToSeq(DOMAIN users')
  OBVIOUS
<1>11. /\ n1 \in Nat /\ g \in [1 .. n1 -> DOMAIN channels]
       /\ \A d \in DOMAIN channels : \E i \in 1 .. n1 : g[i] = d
  BY <1>6, <1>9, InSequence
<1>12. /\ n2 \in Nat /\ f \in [1 .. n2 -> DOMAIN users']
       /\ \A i, j \in 1 .. n2 : f[i] = f[j] => i = j
       /\ \A t \in DOMAIN users' : \E i \in 1 .. n2 : f[i] = t
  BY <1>6, <1>10, InSequence
<1> HIDE DEF n1, n2
<1>13. A = [i \in 1 .. n1 |-> ChannelState(g[i], channels[g[i]])]
  BY <1>9
<1>14. B = [i \in 1 .. n2 |-> UserState(f[i], users'[f[i]].name, users'[f[i]].channel)]
  BY <1>10
<1> HIDE DEF A, B
<1>15. \A i \in 1 .. n1 : A[i] \in Message
  <2>1. ASSUME NEW i \in 1 .. n1 PROVE A[i] \in Message
    <3>1. g[i] \in Channels /\ channels[g[i]] \in ChannelNames
      BY <1>11 DEF ServerTypes
    <3>2. A[i] = ChannelState(g[i], channels[g[i]])
      BY <1>13
    <3> QED BY <3>1, <3>2, OtherMessages
  <2> QED BY <2>1
<1>16. \A i \in 1 .. n2 : B[i] \in Message
  <2>1. ASSUME NEW i \in 1 .. n2 PROVE B[i] \in Message
    <3>1. /\ f[i] \in Sessions /\ users'[f[i]].name \in Names \cup {NoName}
          /\ users'[f[i]].channel \in Channels \cup {NoId}
      <4>1. f[i] \in DOMAIN users'
        BY <1>12
      <4>2. users'[f[i]] \in [name : Names, had : SUBSET Names, channel : DOMAIN channels]
        BY <1>5, <4>1
      <4> QED BY <1>7, <4>1, <4>2 DEF ServerTypes
    <3>2. B[i] = UserState(f[i], users'[f[i]].name, users'[f[i]].channel)
      BY <1>14
    <3> QED BY <3>1, <3>2, StateMessage
  <2> QED BY <2>1
<1>17. /\ A \in Seq(Message) /\ Len(A) = n1
       /\ B \in Seq(Message) /\ Len(B) = n2
  <2>1. A \in [1 .. n1 -> Message] /\ B \in [1 .. n2 -> Message]
    BY <1>13, <1>14, <1>15, <1>16
  <2> QED BY <1>11, <1>12, <2>1
<1>18. /\ wire' \in Seq(Message) /\ Len(wire') = n1 + n2 + 1
       /\ \A i \in 1 .. n1 : wire'[i] = A[i]
       /\ \A i \in 1 .. n2 : wire'[n1 + i] = B[i]
       /\ wire'[n1 + n2 + 1] = ServerSync(s)
  <2>1. PICK a, b, x, w : a = A /\ b = B /\ x = ServerSync(s) /\ w = wire'
    OBVIOUS
  <2>2. w = a \o b \o <<x>> /\ a \in Seq(Message) /\ b \in Seq(Message) /\ x \in Message
    BY <1>2, <1>17, <2>1, OtherMessages
  <2>3. /\ w \in Seq(Message) /\ Len(w) = Len(a) + Len(b) + 1
        /\ \A i \in 1 .. Len(a) : w[i] = a[i]
        /\ \A i \in 1 .. Len(b) : w[Len(a) + i] = b[i]
        /\ w[Len(a) + Len(b) + 1] = x
    BY <2>2, InOrder
  <2> QED BY <1>17, <2>1, <2>3
<1>19. Announced(n1, n2, g, f)
  <2>1. \A i \in 1 .. n1 : wire'[i] = ChannelState(g[i], channels[g[i]])
    BY <1>13, <1>18
  <2>2. \A i \in 1 .. n2 : wire'[n1 + i] = UserState(f[i], users'[f[i]].name, users'[f[i]].channel)
    BY <1>14, <1>18
  <2> QED BY <1>2, <1>11, <1>12, <1>18, <2>1, <2>2 DEF Announced
<1>20. own' \in Sessions \ DOMAIN users /\ users'[own'].channel \in Home
  <2>1. users'[s].channel = c /\ c \in Home
    BY <1>3, <1>4
  <2> QED BY <1>2, <2>1
<1> QED BY <1>5, <1>8, <1>19, <1>20

LEMMA LoginStep == ASSUME IInv, TransportConnect, outbox' = << >> PROVE IInv'
<1>1. ServerTypes /\ link' = "up" /\ GeneralClear
  BY DEF IInv, TransportConnect
<1>2. ClientTypes' /\ MutesTracked' /\ DOMAIN user_map' = {}
  BY <1>1, Cleared
<1>3. /\ ServerTypes'
      /\ \A t \in DOMAIN users' : users'[t].had = {users'[t].name}
      /\ own' \in Sessions
      /\ \E n1, n2, g, f : Announced(n1, n2, g, f)
  BY <1>1, LoginWire
<1>4. PICK n1, n2, g, f : Announced(n1, n2, g, f)
  BY <1>3
<1>5. WireTypes'
  BY <1>1, <1>4 DEF WireTypes, Announced
<1>6. \A t \in DOMAIN users' : users'[t].had = {users'[t].name} /\ users'[t].name # NoName
  <2>1. \A t \in DOMAIN users' : users'[t].name \in Names
    BY <1>3 DEF ServerTypes
  <2> QED BY <1>3, <2>1, NoNames
<1>7. ASSUME NEW t \in Sessions PROVE UserInv(t)'
  <2>1. n1 \in Nat /\ n2 \in Nat
    BY <1>4 DEF Announced
  <2>2. \A i \in 1 .. n1 : ~IsState(wire'[i], t) /\ ~IsRemove(wire'[i], t)
    <3>1. ASSUME NEW i \in 1 .. n1 PROVE ~IsState(wire'[i], t) /\ ~IsRemove(wire'[i], t)
      <4>1. wire'[i] = ChannelState(g[i], channels[g[i]]) /\ g[i] \in DOMAIN channels
        BY <1>4 DEF Announced
      <4>2. g[i] \in Channels /\ channels[g[i]] \in ChannelNames
        BY <1>1, <4>1 DEF ServerTypes
      <4> QED BY <4>1, <4>2, OtherMessages
    <3> QED BY <3>1
  <2>3. ~IsState(wire'[n1 + n2 + 1], t) /\ ~IsRemove(wire'[n1 + n2 + 1], t)
    BY <1>3, <1>4, OtherMessages DEF Announced
  <2>4. Greets(n1, n2, f, t)
    BY <1>2, <1>4, <1>6, <2>2, <2>3 DEF Announced, Greets
  <2> QED BY <2>1, <2>4, LoggedIn
<1> QED BY <1>2, <1>3, <1>5, <1>7 DEF IInv, Users

LEMMA ClosingTypes == ASSUME ServerTypes, CloseConnection, outbox' = << >> PROVE ServerTypes' /\ WireTypes' /\ Users'
<1>1. /\ link' = "down" /\ own' = 0 /\ users' = Drop(users, own) /\ wire' = << >>
      /\ channels' = channels
  BY DEF CloseConnection
<1>2. DOMAIN users' = DOMAIN users \ {own} /\ \A s \in DOMAIN users' : users'[s] = users[s]
  BY <1>1 DEF Drop
<1>3. IsFiniteSet(DOMAIN users')
  BY <1>2, FS_RemoveElement DEF ServerTypes
<1>4. ServerTypes'
  BY <1>1, <1>2, <1>3 DEF ServerTypes
<1>5. WireTypes' /\ Users'
  BY <1>1 DEF WireTypes, Users
<1> QED BY <1>4, <1>5

LEMMA ConnectionInv == ASSUME IInv, ConnectionChanges PROVE IInv'
<1>1. outbox' = << >> /\ ServerTypes
  BY DEF ConnectionChanges, IInv
<1>2. CASE TransportConnect
  BY <1>1, <1>2, LoginStep
<1>3. CASE TransportLost
  <2>1. CloseConnection /\ UNCHANGED client
    BY <1>3 DEF TransportLost
  <2>2. ClientTypes' /\ MutesTracked'
    BY <2>1 DEF IInv, ClientTypes, MutesTracked, client
  <2> QED BY <1>1, <2>1, <2>2, ClosingTypes DEF IInv
<1>4. CASE TransportDisconnect
  BY <1>1, <1>4, Cleared, ClosingTypes DEF TransportDisconnect, IInv
<1> QED BY <1>2, <1>3, <1>4 DEF ConnectionChanges

-----------------------------------------------------------------------------
(***************************************************************************)
(* The requests, and every step                                            *)
(***************************************************************************)

\* Nothing but the requests changes.
LEMMA Unmoved ==
    ASSUME IInv, UNCHANGED vars, outbox' # << >> => link = "up"
    PROVE  IInv'
<1>1. /\ ServerTypes' /\ ClientTypes' /\ MutesTracked'
      /\ wire' = wire /\ users' = users /\ user_map' = user_map /\ link' = link
  BY DEF IInv, ServerTypes, ClientTypes, MutesTracked, vars, server, client
<1>2. WireTypes'
  BY <1>1 DEF IInv, WireTypes
<1>3. \A s \in Sessions : UserInv(s) => UserInv(s)'
  BY <1>1, KeepsOthers
<1>4. Users'
  BY <1>1, <1>3 DEF IInv, Users
<1> QED BY <1>1, <1>2, <1>4 DEF IInv

\* The requests.
Request == [type : {"USERSTATE", "TEXTMESSAGE"}, channel_id : Channels \cup {NoId}]

\* Nothing but a request goes out, a text to the channel the client takes itself to be in.
Asked(r) ==
    /\ UNCHANGED vars
    /\ outbox' = outbox \/ (Connected /\ outbox' = Append(outbox, r))
    /\ r.type = "TEXTMESSAGE" => r.channel_id = channel_current

LEMMA Sends == ASSUME IInv, Application PROVE \E r \in Request : Asked(r)
<1>1. ASSUME NEW c, ChannelJoin(c) PROVE \E r \in Request : Asked(r)
  <2>1. PICK i \in DOMAIN channel_list : channel_list[i].channelId = c
    BY <1>1 DEF ChannelJoin, ChannelExists
  <2>2. c \in Channels
    <3> DEFINE Entry == [channelId : Channels, name : ChannelNames]
    <3>1. channel_list \in Seq(Entry)
      BY DEF IInv, ClientTypes
    <3>2. \A e \in Entry : e.channelId \in Channels
      OBVIOUS
    <3> HIDE DEF Entry
    <3>3. channel_list[i] \in Entry
      BY <3>1
    <3> QED BY <2>1, <3>2, <3>3
  <2>3. JoinRequest(c) \in Request /\ JoinRequest(c).type # "TEXTMESSAGE"
    BY <2>2 DEF JoinRequest, Request
  <2> QED BY <1>1, <2>3 DEF ChannelJoin, Asks, TransportSendControl, Asked
<1>2. ASSUME NEW n, ChannelJoinByName(n) PROVE \E r \in Request : Asked(r)
  BY <1>1, <1>2, Zenon DEF ChannelJoinByName
<1>3. CASE UserSendState
  <2>1. FlagRequest \in Request /\ FlagRequest.type # "TEXTMESSAGE"
    BY DEF FlagRequest, Request
  <2> QED BY <1>3, <2>1 DEF UserSendState, Asks, TransportSendControl, Asked
<1>4. CASE TextSend
  <2>1. /\ TextMessage(channel_current) \in Request
        /\ TextMessage(channel_current).channel_id = channel_current
    BY DEF TextMessage, Request, IInv, ClientTypes
  <2> QED BY <1>4, <2>1 DEF TextSend, Asks, TransportSendControl, Asked
<1> QED BY <1>1, <1>2, <1>3, <1>4, Zenon DEF Application

LEMMA ApplicationInv == ASSUME IInv, Application PROVE IInv'
<1>1. UNCHANGED vars /\ (outbox' = outbox \/ link = "up")
  BY Sends DEF Asked, Connected
<1>2. outbox # << >> => link = "up"
  BY DEF IInv, WireTypes
<1> QED BY <1>1, <1>2, Unmoved

LEMMA ReadsInv == ASSUME IInv, ReadsText PROVE IInv'
<1>1. outbox # << >> /\ UNCHANGED <<link, channels, own, client>> /\ UNCHANGED <<users, wire>>
  BY DEF ReadsText, Reads
<1>2. UNCHANGED vars
  BY <1>1 DEF vars, server
<1>3. outbox # << >> => link = "up"
  BY DEF IInv, WireTypes
<1> QED BY <1>1, <1>2, <1>3, Unmoved

LEMMA InitInv == RequestsInit => IInv
<1> SUFFICES ASSUME RequestsInit PROVE IInv
  OBVIOUS
<1>1. PICK n \in ChannelNames : channels = [c \in {0} |-> n]
  BY DEF RequestsInit, Init
<1>2. /\ link = "down" /\ DOMAIN users = {} /\ own = 0 /\ wire = << >> /\ session_id = 0
      /\ channel_current = 0 /\ channel_list = << >> /\ DOMAIN user_map = {} /\ asked = {}
      /\ outbox = << >>
  BY DEF RequestsInit, Init, NoUsers
<1>3. DOMAIN channels = {0} /\ \A c \in DOMAIN channels : channels[c] \in ChannelNames
  BY <1>1
<1>4. IsFiniteSet(DOMAIN users) /\ IsFiniteSet(DOMAIN channels)
  BY <1>2, <1>3, FS_EmptySet, FS_Singleton
<1>5. ServerTypes
  BY <1>2, <1>3, <1>4, NumbersAssumption DEF ServerTypes
<1>6. WireTypes /\ Users
  BY <1>2 DEF WireTypes, Users
<1>7. ClientTypes /\ MutesTracked
  BY <1>2, NumbersAssumption DEF ClientTypes, MutesTracked
<1> QED BY <1>5, <1>6, <1>7 DEF IInv

LEMMA NextInv == IInv /\ [RequestsNext]_all => IInv'
<1> SUFFICES ASSUME IInv, [RequestsNext]_all PROVE IInv'
  OBVIOUS
<1>1. CASE ConnectionChanges
  BY <1>1, ConnectionInv
<1>2. CASE Server /\ UNCHANGED outbox
  BY <1>2, ServerInv
<1>3. CASE Client /\ UNCHANGED outbox
  BY <1>3, ClientInv
<1>4. CASE Application
  BY <1>4, ApplicationInv
<1>5. CASE ServerReads
  BY <1>5, OwnStep, ReadsInv DEF ServerReads
<1>6. CASE UNCHANGED all
  BY <1>6, Unmoved DEF all, IInv, WireTypes
<1> QED BY <1>1, <1>2, <1>3, <1>4, <1>5, <1>6 DEF RequestsNext

LEMMA Invariant == RequestsSpec => []IInv
BY InitInv, NextInv, PTL DEF RequestsSpec

-----------------------------------------------------------------------------
(***************************************************************************)
(* The channels, on the way from the server to the client                  *)
(***************************************************************************)

IsAdded(m, c) == m.type = "CHANNELSTATE" /\ m.channel_id = c
IsErased(m, c) == m.type = "CHANNELREMOVE" /\ m.channel_id = c

\* Nothing from there on removes c.
Remains(c, first) == \A j \in first .. Len(wire) : ~IsErased(wire[j], c)

\* Whether the client lists c once it has read all.
Listed(c) ==
    \/ ChannelExists(c) /\ Remains(c, 1)
    \/ \E j \in 1 .. Len(wire) : IsAdded(wire[j], c) /\ Remains(c, j + 1)

ListedOnce ==
    \A i, j \in DOMAIN channel_list :
        channel_list[i].channelId = channel_list[j].channelId => i = j

ChannelInv == ListedOnce /\ (link = "up" => \A c \in Channels : c \in DOMAIN channels <=> Listed(c))

LEMMA ListedAppended ==
    ASSUME NEW c, NEW m \in Message, wire \in Seq(Message), wire' = Append(wire, m),
           channel_list' = channel_list
    PROVE  Listed(c)' <=> IsAdded(m, c) \/ (Listed(c) /\ ~IsErased(m, c))
<1> DEFINE L == Len(wire)
<1>1. /\ L \in Nat /\ Len(wire') = L + 1 /\ wire'[L + 1] = m
      /\ \A j \in 1 .. L : wire'[j] = wire[j]
  BY Appended
<1>2. ChannelExists(c)' <=> ChannelExists(c)
  BY DEF ChannelExists
<1> HIDE DEF L
<1>3. ASSUME NEW a \in 1 .. L + 1 PROVE Remains(c, a)' <=> Remains(c, a) /\ ~IsErased(m, c)
  BY <1>1 DEF Remains, L
<1>4. \A a : a = L + 2 => Remains(c, a)'
  BY <1>1 DEF Remains
<1>5. Listed(c)' <=> \/ ChannelExists(c) /\ Remains(c, 1)'
                     \/ \E j \in 1 .. L + 1 : IsAdded(wire'[j], c) /\ Remains(c, j + 1)'
  BY <1>1, <1>2 DEF Listed
<1>6. Remains(c, 1)' <=> Remains(c, 1) /\ ~IsErased(m, c)
  BY <1>1, <1>3
<1>7. ASSUME NEW j \in 1 .. L
      PROVE  IsAdded(wire'[j], c) /\ Remains(c, j + 1)'
             <=> IsAdded(wire[j], c) /\ Remains(c, j + 1) /\ ~IsErased(m, c)
  BY <1>1, <1>3
<1>8. ASSUME NEW j, j = L + 1 PROVE IsAdded(wire'[j], c) /\ Remains(c, j + 1)' <=> IsAdded(m, c)
  BY <1>1, <1>4, <1>8
<1>9. (\E j \in 1 .. L + 1 : IsAdded(wire'[j], c) /\ Remains(c, j + 1)')
      <=> \/ IsAdded(m, c)
          \/ (\E j \in 1 .. L : IsAdded(wire[j], c) /\ Remains(c, j + 1)) /\ ~IsErased(m, c)
  BY <1>1, <1>7, <1>8
<1> QED BY <1>5, <1>6, <1>9 DEF Listed, L

\* What the client lists afterwards.
TookChannel(m, c) ==
    ChannelExists(c)' <=> IsAdded(m, c) \/ (ChannelExists(c) /\ ~IsErased(m, c))

LEMMA ListedAdvanced ==
    ASSUME NEW c, wire \in Seq(Message), wire # << >>, wire' = Tail(wire),
           TookChannel(Head(wire), c)
    PROVE  Listed(c)' <=> Listed(c)
<1> DEFINE L == Len(wire)
<1>1. /\ L \in Nat /\ L >= 1 /\ Len(wire') = L - 1 /\ Head(wire) = wire[1]
      /\ \A j \in 1 .. L - 1 : wire'[j] = wire[j + 1]
      /\ \A j \in 2 .. L : wire[j] = wire'[j - 1]
  BY Advanced
<1> HIDE DEF L
<1>2. ASSUME NEW a \in 1 .. L PROVE Remains(c, a)' <=> Remains(c, a + 1)
  <2>1. ASSUME Remains(c, a)', NEW j \in a + 1 .. L PROVE ~IsErased(wire[j], c)
    <3>1. j \in 2 .. L /\ j - 1 \in a .. L - 1
      BY <1>1
    <3> QED BY <1>1, <2>1, <3>1 DEF Remains
  <2>2. ASSUME Remains(c, a + 1), NEW j \in a .. L - 1 PROVE ~IsErased(wire'[j], c)
    <3>1. j \in 1 .. L - 1 /\ j + 1 \in a + 1 .. L
      BY <1>1
    <3> QED BY <1>1, <2>2, <3>1 DEF Remains, L
  <2> QED BY <1>1, <2>1, <2>2 DEF Remains, L
<1>3. Remains(c, 1) <=> ~IsErased(wire[1], c) /\ Remains(c, 2)
  <2>1. \A j \in 1 .. L : j = 1 \/ j \in 2 .. L
    BY <1>1
  <2>2. 1 \in 1 .. L /\ \A j \in 2 .. L : j \in 1 .. L
    BY <1>1
  <2> QED BY <2>1, <2>2 DEF Remains, L
<1> DEFINE Told(j) == IsAdded(wire[j], c) /\ Remains(c, j + 1)
<1>4. ASSUME NEW j \in 1 .. L - 1 PROVE IsAdded(wire'[j], c) /\ Remains(c, j + 1)' <=> Told(j + 1)
  <2>1. wire'[j] = wire[j + 1] /\ j + 1 \in 1 .. L
    BY <1>1
  <2>2. Remains(c, j + 1)' <=> Remains(c, (j + 1) + 1)
    BY <1>2, <2>1
  <2> QED BY <2>1, <2>2
<1>5. Listed(c)' <=> \/ ChannelExists(c)' /\ Remains(c, 2)
                     \/ \E j \in 1 .. L - 1 : Told(j + 1)
  <2>1. Listed(c)' <=> \/ ChannelExists(c)' /\ Remains(c, 1)'
                       \/ \E j \in 1 .. L - 1 : IsAdded(wire'[j], c) /\ Remains(c, j + 1)'
    BY <1>1 DEF Listed
  <2>2. Remains(c, 1)' <=> Remains(c, 2)
    BY <1>1, <1>2
  <2> HIDE DEF Told
  <2> QED BY <1>4, <2>1, <2>2
<1>6. Listed(c) <=> \/ ChannelExists(c) /\ Remains(c, 1)
                    \/ Told(1)
                    \/ \E j \in 1 .. L - 1 : Told(j + 1)
  <2>1. Listed(c) <=> \/ ChannelExists(c) /\ Remains(c, 1)
                      \/ \E j \in 1 .. L : Told(j)
    BY DEF Listed, L
  <2> HIDE DEF Told
  <2>2. (\E j \in 1 .. L : Told(j)) <=> Told(1) \/ \E j \in 1 .. L - 1 : Told(j + 1)
    <3>1. \A j \in 1 .. L : j = 1 \/ (j - 1 \in 1 .. L - 1 /\ (j - 1) + 1 = j)
      BY <1>1
    <3>2. 1 \in 1 .. L /\ \A j \in 1 .. L - 1 : j + 1 \in 1 .. L
      BY <1>1
    <3> QED BY <3>1, <3>2
  <2> QED BY <2>1, <2>2
<1>7. Told(1) <=> IsAdded(wire[1], c) /\ Remains(c, 2)
  OBVIOUS
<1> HIDE DEF Told
<1> QED BY <1>1, <1>3, <1>5, <1>6, <1>7 DEF TookChannel, IsAdded, IsErased

LEMMA Joined ==
    ASSUME NEW T, NEW a \in Seq(T), NEW b \in Seq(T), NEW list, list = a \o b
    PROVE  /\ list \in Seq(T) /\ Len(list) = Len(a) + Len(b)
           /\ \A i \in 1 .. Len(list) : list[i] = IF i <= Len(a) THEN a[i] ELSE b[i - Len(a)]
<1>1. Len(a) \in Nat /\ Len(b) \in Nat
  OBVIOUS
<1>2. list \in Seq(T) /\ Len(list) = Len(a) + Len(b)
  BY <1>1
<1>3. \A i \in 1 .. Len(a) : list[i] = a[i]
  BY <1>1
<1>4. \A i \in Len(a) + 1 .. Len(a) + Len(b) : list[i] = b[i - Len(a)]
  BY <1>1
<1> QED BY <1>1, <1>2, <1>3, <1>4

\* The first entry with the number, and the list without it.
LEMMA Erased ==
    ASSUME NEW T, channel_list \in Seq(T), NEW c, ChannelExists(c),
           NEW list, list = ChannelErase(c)
    PROVE  \E k \in 1 .. Len(channel_list) :
              /\ channel_list[k].channelId = c
              /\ list \in Seq(T)
              /\ Len(list) = Len(channel_list) - 1
              /\ \A i \in 1 .. Len(list) :
                    list[i] = IF i < k THEN channel_list[i] ELSE channel_list[i + 1]
<1> DEFINE I == {i \in 1 .. Len(channel_list) : channel_list[i].channelId = c}
<1>1. I \in SUBSET Nat /\ I # {}
  BY DEF ChannelExists
<1>2. PICK k : k = SelectInSeq(channel_list, LAMBDA ch : ch.channelId = c)
  OBVIOUS
<1>3. k = Min(I)
  BY <1>1, <1>2 DEF SelectInSeq
<1>4. list = RemoveAt(channel_list, k)
  BY <1>2 DEF ChannelErase
<1> HIDE DEF I
<1>5. k \in I
  BY <1>1, <1>3, MinIs
<1>6. k \in 1 .. Len(channel_list) /\ channel_list[k].channelId = c
  BY <1>5 DEF I
<1>7. list = SubSeq(channel_list, 1, k - 1) \o SubSeq(channel_list, k + 1, Len(channel_list))
  BY <1>4 DEF RemoveAt
<1>8. PICK a, b : a = SubSeq(channel_list, 1, k - 1) /\ b = SubSeq(channel_list, k + 1, Len(channel_list))
  OBVIOUS
<1>9. /\ a \in Seq(T) /\ Len(a) = k - 1 /\ \A i \in 1 .. k - 1 : a[i] = channel_list[i]
      /\ b \in Seq(T) /\ Len(b) = Len(channel_list) - k
      /\ \A i \in 1 .. Len(channel_list) - k : b[i] = channel_list[k + i]
  BY <1>6, <1>8
<1>10. /\ list \in Seq(T) /\ Len(list) = Len(a) + Len(b)
       /\ \A i \in 1 .. Len(list) : list[i] = IF i <= Len(a) THEN a[i] ELSE b[i - Len(a)]
  <2>1. list = a \o b
    BY <1>7, <1>8
  <2>2. a \in Seq(T) /\ b \in Seq(T)
    BY <1>9
  <2> QED BY <2>1, <2>2, Joined
<1>11. Len(list) = Len(channel_list) - 1
  BY <1>6, <1>9, <1>10
<1>12. ASSUME NEW i \in 1 .. Len(list)
       PROVE  list[i] = IF i < k THEN channel_list[i] ELSE channel_list[i + 1]
  <2>1. CASE i < k
    BY <1>6, <1>9, <1>10, <2>1
  <2>2. CASE ~(i < k)
    <3>1. i - Len(a) \in 1 .. Len(channel_list) - k /\ k + (i - Len(a)) = i + 1
      BY <1>6, <1>9, <1>11, <2>2
    <3> QED BY <1>6, <1>9, <1>10, <2>2, <3>1
  <2> QED BY <2>1, <2>2
<1> QED BY <1>6, <1>10, <1>11, <1>12

\* The list without the first entry with the number has no other.
LEMMA ErasedOnce ==
    ASSUME NEW T, channel_list \in Seq(T), ListedOnce, NEW c, channel_list' = ChannelErase(c)
    PROVE  /\ ListedOnce'
           /\ \A d : ChannelExists(d)' <=> ChannelExists(d) /\ d # c
<1>1. CASE ~ChannelExists(c)
  <2>1. channel_list' = channel_list
    BY <1>1 DEF ChannelErase
  <2> QED BY <1>1, <2>1 DEF ListedOnce, ChannelExists
<1>2. CASE ChannelExists(c)
  <2>1. PICK old, list : old = channel_list /\ list = channel_list'
    OBVIOUS
  <2>2. PICK k \in 1 .. Len(old) :
            /\ old[k].channelId = c
            /\ list \in Seq(T)
            /\ Len(list) = Len(old) - 1
            /\ \A i \in 1 .. Len(list) : list[i] = IF i < k THEN old[i] ELSE old[i + 1]
    BY <1>2, <2>1, Erased
  <2>3. /\ Len(old) \in Nat /\ DOMAIN old = 1 .. Len(old)
        /\ DOMAIN list = 1 .. Len(old) - 1
    BY <2>1, <2>2
  <2>4. \A i, j \in 1 .. Len(old) : old[i].channelId = old[j].channelId => i = j
    BY <2>1, <2>3 DEF ListedOnce
  <2>5. ASSUME NEW i \in 1 .. Len(old) - 1, NEW j \in 1 .. Len(old) - 1,
               list[i].channelId = list[j].channelId
        PROVE  i = j
    <3> DEFINE x == IF i < k THEN i ELSE i + 1
               y == IF j < k THEN j ELSE j + 1
    <3>1. x \in 1 .. Len(old) /\ y \in 1 .. Len(old) /\ list[i] = old[x] /\ list[j] = old[y]
      BY <2>2, <2>3
    <3>2. x = y
      BY <2>4, <2>5, <3>1
    <3> QED BY <2>2, <2>3, <3>2
  <2>6. ASSUME NEW d
        PROVE  (\E i \in 1 .. Len(old) - 1 : list[i].channelId = d)
               <=> (\E i \in 1 .. Len(old) : old[i].channelId = d) /\ d # c
    <3>1. ASSUME NEW i \in 1 .. Len(old) - 1, list[i].channelId = d
          PROVE  (\E j \in 1 .. Len(old) : old[j].channelId = d) /\ d # c
      <4> DEFINE x == IF i < k THEN i ELSE i + 1
      <4>1. x \in 1 .. Len(old) /\ x # k /\ list[i] = old[x]
        BY <2>2, <2>3
      <4> QED BY <2>2, <2>4, <3>1, <4>1
    <3>2. ASSUME NEW i \in 1 .. Len(old), old[i].channelId = d, d # c
          PROVE  \E j \in 1 .. Len(old) - 1 : list[j].channelId = d
      <4> DEFINE x == IF i < k THEN i ELSE i - 1
      <4>1. i # k
        BY <2>2, <3>2
      <4>2. x \in 1 .. Len(old) - 1 /\ list[x] = old[i]
        BY <2>2, <2>3, <4>1
      <4> QED BY <3>2, <4>2
    <3> QED BY <3>1, <3>2
  <2>7. ListedOnce'
    BY <2>1, <2>3, <2>5 DEF ListedOnce
  <2>8. \A d : ChannelExists(d)' <=> ChannelExists(d) /\ d # c
    BY <2>1, <2>3, <2>6 DEF ChannelExists
  <2> QED BY <2>7, <2>8
<1> QED BY <1>1, <1>2

\* The list with a channel it did not have.
LEMMA AddedOnce ==
    ASSUME NEW T, channel_list \in Seq(T), ListedOnce, NEW e \in T, ~ChannelExists(e.channelId),
           channel_list' = Append(channel_list, e)
    PROVE  /\ ListedOnce'
           /\ \A d : ChannelExists(d)' <=> ChannelExists(d) \/ d = e.channelId
<1>1. PICK old, list : old = channel_list /\ list = channel_list'
  OBVIOUS
<1>2. /\ Len(old) \in Nat /\ DOMAIN old = 1 .. Len(old) /\ DOMAIN list = 1 .. Len(old) + 1
      /\ list[Len(old) + 1] = e /\ \A i \in 1 .. Len(old) : list[i] = old[i]
  BY <1>1
<1>3. /\ \A i, j \in 1 .. Len(old) : old[i].channelId = old[j].channelId => i = j
      /\ \A i \in 1 .. Len(old) : old[i].channelId # e.channelId
  BY <1>1, <1>2 DEF ListedOnce, ChannelExists
<1>4. \A i, j \in 1 .. Len(old) + 1 : list[i].channelId = list[j].channelId => i = j
  BY <1>2, <1>3
<1>5. ListedOnce'
  BY <1>1, <1>2, <1>4 DEF ListedOnce
<1>6. \A d : ChannelExists(d)' <=> ChannelExists(d) \/ d = e.channelId
  BY <1>1, <1>2 DEF ChannelExists
<1> QED BY <1>5, <1>6

-----------------------------------------------------------------------------
(* The steps. *)

\* What the message m of a step has to say of c.
SuitsChannel(m, c) ==
    \/ IsAdded(m, c) /\ c \in DOMAIN channels'
    \/ IsErased(m, c) /\ c \notin DOMAIN channels'
    \/ ~IsAdded(m, c) /\ ~IsErased(m, c) /\ (c \in DOMAIN channels' <=> c \in DOMAIN channels)

LEMMA ChannelSays ==
    ASSUME IInv, ChannelInv, NEW m \in Message, Says(m), link' = link,
           channel_list' = channel_list, \A c \in Channels : SuitsChannel(m, c)
    PROVE  ChannelInv'
<1>1. wire \in Seq(Message)
  BY DEF IInv, WireTypes
<1>2. ListedOnce'
  BY DEF ChannelInv, ListedOnce
<1>3. ASSUME link = "up", NEW c \in Channels PROVE (c \in DOMAIN channels <=> Listed(c))'
  <2>1. c \in DOMAIN channels <=> Listed(c)
    BY <1>3 DEF ChannelInv
  <2>2. Listed(c)' <=> IsAdded(m, c) \/ (Listed(c) /\ ~IsErased(m, c))
    BY <1>1, <1>3, ListedAppended DEF Says
  <2>3. ~(IsAdded(m, c) /\ IsErased(m, c))
    BY DEF IsAdded, IsErased
  <2> QED BY <2>1, <2>2, <2>3 DEF SuitsChannel
<1> QED BY <1>2, <1>3 DEF ChannelInv

LEMMA ChannelReads ==
    ASSUME IInv, ChannelInv, wire # << >>, wire' = Tail(wire), UNCHANGED server, ListedOnce',
           \A c \in Channels : TookChannel(Head(wire), c)
    PROVE  ChannelInv'
<1>1. wire \in Seq(Message)
  BY DEF IInv, WireTypes
<1>2. \A c \in Channels : Listed(c)' <=> Listed(c)
  BY <1>1, ListedAdvanced
<1> QED BY <1>2 DEF ChannelInv, server

LEMMA ChannelKeeps ==
    ASSUME ChannelInv, UNCHANGED <<link, channels, wire, channel_list>>
    PROVE  ChannelInv'
<1>1. \A c : ChannelExists(c)' <=> ChannelExists(c)
  BY DEF ChannelExists
<1>2. \A c, a : Remains(c, a)' <=> Remains(c, a)
  BY DEF Remains
<1>3. \A c : Listed(c)' <=> Listed(c)
  BY <1>1, <1>2 DEF Listed
<1> QED BY <1>3 DEF ChannelInv, ListedOnce

\* What the kinds of message say of a channel.
LEMMA ChannelMessages ==
    /\ \A s, n, d, c : ~IsAdded(UserState(s, n, d), c) /\ ~IsErased(UserState(s, n, d), c)
    /\ \A s, c : ~IsAdded(UserRemove(s), c) /\ ~IsErased(UserRemove(s), c)
    /\ \A s, c : ~IsAdded(ServerSync(s), c) /\ ~IsErased(ServerSync(s), c)
    /\ \A d, n, c : (IsAdded(ChannelState(d, n), c) <=> c = d) /\ ~IsErased(ChannelState(d, n), c)
    /\ \A d, c : ~IsAdded(ChannelRemove(d), c) /\ (IsErased(ChannelRemove(d), c) <=> c = d)
BY DEF IsAdded, IsErased, UserState, UserRemove, ServerSync, ChannelState, ChannelRemove

\* The message of each of the server's steps.
LEMMA ServerSays ==
    ASSUME IInv, Server
    PROVE  /\ link' = link /\ own' = own /\ UNCHANGED client
           /\ \E m \in Message :
                 /\ Says(m)
                 /\ \A c \in Channels : SuitsChannel(m, c)
                 /\ m.type # "SERVERSYNC" /\ ~IsRemove(m, own)
                 /\ link = "up" =>
                       \/ ~IsState(m, own) /\ users'[own] = users[own]
                       \/ IsState(m, own) /\ m.channel_id \in {users'[own].channel, NoId}
<1>1. /\ ServerTypes /\ DOMAIN users \subseteq Sessions /\ DOMAIN channels \subseteq Channels
      /\ link = "up" => own \in DOMAIN users
  BY DEF IInv, ServerTypes
<1> DEFINE Fits(m) ==
                 /\ m \in Message
                 /\ link' = link /\ own' = own /\ UNCHANGED client /\ Says(m)
                 /\ \A c \in Channels : SuitsChannel(m, c)
                 /\ m.type # "SERVERSYNC" /\ ~IsRemove(m, own)
                 /\ link = "up" =>
                       \/ ~IsState(m, own) /\ users'[own] = users[own]
                       \/ IsState(m, own) /\ m.channel_id \in {users'[own].channel, NoId}
<1>2. ASSUME NEW s \in Sessions, NEW n \in Names, NEW c \in DOMAIN channels, UserJoins(s, n, c)
      PROVE  Fits(UserState(s, n, c))
  <2>1. PICK m : m = UserState(s, n, c)
    OBVIOUS
  <2>2. /\ m \in Message /\ IsState(m, s) /\ m.type = "USERSTATE"
        /\ \A t : t # s => ~IsState(m, t)
        /\ \A d : ~IsAdded(m, d) /\ ~IsErased(m, d)
    BY <1>1, <2>1, StateMessage, ChannelMessages DEF IsState
  <2>3. /\ s \notin DOMAIN users /\ users' = Put(users, s, Newcomer(n, c)) /\ channels' = channels
        /\ link' = link /\ own' = own /\ UNCHANGED client /\ Says(m)
    BY <1>2, <2>1 DEF UserJoins, Reports, Says
  <2>4. \A t \in DOMAIN users : t # s /\ users'[t] = users[t]
    BY <2>3 DEF Put
  <2>5. Fits(m)
    BY <1>1, <2>2, <2>3, <2>4 DEF SuitsChannel, IsRemove
  <2> HIDE DEF Fits
  <2> QED BY <2>1, <2>5
<1>3. ASSUME NEW s \in DOMAIN users, UserLeaves(s) PROVE Fits(UserRemove(s))
  <2>1. PICK m : m = UserRemove(s)
    OBVIOUS
  <2>2. /\ m \in Message /\ m.type = "USERREMOVE" /\ m.session = s
        /\ \A d : ~IsAdded(m, d) /\ ~IsErased(m, d)
    BY <1>1, <2>1, RemoveMessage, ChannelMessages DEF UserRemove
  <2>3. /\ s # own /\ users' = Drop(users, s) /\ channels' = channels
        /\ link' = link /\ own' = own /\ UNCHANGED client /\ Says(m)
    BY <1>3, <2>1 DEF UserLeaves, Reports, Says
  <2>4. \A t \in DOMAIN users : t # s => users'[t] = users[t]
    BY <2>3 DEF Drop
  <2>5. Fits(m)
    BY <1>1, <2>2, <2>3, <2>4 DEF SuitsChannel, IsState, IsRemove
  <2> HIDE DEF Fits
  <2> QED BY <2>1, <2>5
<1>4. ASSUME NEW s \in DOMAIN users, NEW n \in Names \cup {NoName}, NEW c \in Channels \cup {NoId},
             link' = link, own' = own, UNCHANGED client, channels' = channels,
             Says(UserState(s, n, c)),
             \A t \in DOMAIN users : t # s => users'[t] = users[t],
             c \in {users'[s].channel, NoId}
      PROVE  Fits(UserState(s, n, c))
  <2>1. PICK m : m = UserState(s, n, c)
    OBVIOUS
  <2>2. /\ m \in Message /\ IsState(m, s) /\ m.type = "USERSTATE" /\ m.channel_id = c
        /\ \A t : t # s => ~IsState(m, t)
        /\ \A d : ~IsAdded(m, d) /\ ~IsErased(m, d)
    BY <1>1, <2>1, StateMessage, ChannelMessages DEF IsState
  <2>3. Says(m)
    BY <1>4, <2>1
  <2>4. link = "up" =>
            \/ ~IsState(m, own) /\ users'[own] = users[own]
            \/ IsState(m, own) /\ m.channel_id \in {users'[own].channel, NoId}
    BY <1>1, <1>4, <2>2
  <2>5. Fits(m)
    BY <1>4, <2>2, <2>3, <2>4 DEF SuitsChannel, IsRemove
  <2> HIDE DEF Fits
  <2> QED BY <2>1, <2>5
<1>5. ASSUME NEW c \in Channels, NEW n \in ChannelNames, ChannelAdded(c, n)
             \/ (c \in DOMAIN channels /\ ChannelRenamed(c, n))
      PROVE  Fits(ChannelState(c, n))
  <2>1. PICK m : m = ChannelState(c, n)
    OBVIOUS
  <2>2. /\ m \in Message /\ m.type = "CHANNELSTATE"
        /\ \A d : (IsAdded(m, d) <=> d = c) /\ ~IsErased(m, d)
    BY <2>1, OtherMessages, ChannelMessages DEF ChannelState
  <2>3. /\ users' = users /\ DOMAIN channels' = DOMAIN channels \cup {c}
        /\ link' = link /\ own' = own /\ UNCHANGED client /\ Says(m)
    BY <1>5, <2>1 DEF ChannelAdded, ChannelRenamed, Reports, Says, Put
  <2>4. Fits(m)
    BY <2>2, <2>3 DEF SuitsChannel, IsState, IsRemove
  <2> HIDE DEF Fits
  <2> QED BY <2>1, <2>4
<1>6. ASSUME NEW c \in DOMAIN channels, ChannelRemoved(c) PROVE Fits(ChannelRemove(c))
  <2>1. PICK m : m = ChannelRemove(c)
    OBVIOUS
  <2>2. /\ m \in Message /\ m.type = "CHANNELREMOVE"
        /\ \A d : ~IsAdded(m, d) /\ (IsErased(m, d) <=> d = c)
    BY <1>1, <2>1, OtherMessages, ChannelMessages DEF ChannelRemove
  <2>3. /\ users' = users /\ DOMAIN channels' = DOMAIN channels \ {c}
        /\ link' = link /\ own' = own /\ UNCHANGED client /\ Says(m)
    BY <1>6, <2>1 DEF ChannelRemoved, Reports, Says, Drop
  <2>4. Fits(m)
    BY <2>2, <2>3 DEF SuitsChannel, IsState, IsRemove
  <2> HIDE DEF Fits
  <2> QED BY <2>1, <2>4
<1>7. ASSUME NEW s \in DOMAIN users,
             \/ UserChanges(s)
             \/ \E c \in DOMAIN channels : UserMoves(s, c)
             \/ \E n \in Names : UserRenamed(s, n)
      PROVE  \E m : Fits(m)
  <2> HIDE DEF Fits
  <2>1. users[s] \in [name : Names, had : SUBSET Names, channel : DOMAIN channels]
    BY <1>1 DEF ServerTypes
  <2>2. CASE UserChanges(s)
    <3>1. /\ link' = link /\ own' = own /\ UNCHANGED client /\ channels' = channels
          /\ users' = users /\ Says(UserState(s, NoName, NoId))
      BY <2>2 DEF UserChanges, Reports, Says
    <3> QED BY <1>4, <3>1
  <2>3. ASSUME NEW c \in DOMAIN channels, UserMoves(s, c) PROVE \E m : Fits(m)
    <3>1. /\ link' = link /\ own' = own /\ UNCHANGED client /\ channels' = channels
          /\ users' = [users EXCEPT ![s].channel = c] /\ Says(UserState(s, NoName, c))
      BY <2>3 DEF UserMoves, Reports, Says
    <3>2. c \in Channels
      BY <1>1
    <3>3. /\ \A t \in DOMAIN users : t # s => users'[t] = users[t]
          /\ users'[s].channel = c
      BY <1>1, <3>1, MovedUser
    <3>4. c \in Channels \cup {NoId} /\ NoName \in Names \cup {NoName} /\ c \in {users'[s].channel, NoId}
      BY <3>2, <3>3
    <3> QED BY <1>4, <3>1, <3>3, <3>4
  <2>4. ASSUME NEW n \in Names, UserRenamed(s, n) PROVE \E m : Fits(m)
    <3>1. /\ link' = link /\ own' = own /\ UNCHANGED client /\ channels' = channels
          /\ users' = [users EXCEPT ![s].name = n, ![s].had = @ \cup {n}]
          /\ Says(UserState(s, n, NoId))
      BY <2>4 DEF UserRenamed, Reports, Says
    <3>2. \A t \in DOMAIN users : t # s => users'[t] = users[t]
      BY <1>1, <3>1, RenamedUser
    <3>3. n \in Names \cup {NoName} /\ NoId \in Channels \cup {NoId} /\ NoId \in {users'[s].channel, NoId}
      OBVIOUS
    <3> QED BY <1>4, <3>1, <3>2, <3>3
  <2> QED BY <1>7, <2>2, <2>3, <2>4
<1>8. \E m : Fits(m)
  <2> HIDE DEF Fits
  <2> QED BY <1>1, <1>2, <1>3, <1>5, <1>6, <1>7 DEF Server
<1> QED BY <1>8

\* What the client reads, if it is about a channel.
LEMMA ChannelRead ==
    ASSUME IInv, ChannelInv, ChannelStatePacket \/ ChannelRemovePacket
    PROVE  ChannelInv'
<1> DEFINE Entry == [channelId : Channels, name : ChannelNames]
<1>1. channel_list \in Seq(Entry) /\ ListedOnce
  BY DEF IInv, ClientTypes, ChannelInv
<1>2. CASE ChannelStatePacket
  <2>1. Processes("CHANNELSTATE")
    BY <1>2 DEF ChannelStatePacket
  <2>2. PICK m : m = Head(wire)
    OBVIOUS
  <2>3. /\ wire # << >> /\ wire' = Tail(wire) /\ UNCHANGED server
        /\ m \in Message /\ m.type = "CHANNELSTATE"
    BY <2>1, <2>2, NextMessage
  <2>4. m.channel_id \in Channels /\ m.name \in ChannelNames
    BY <2>3 DEF Message
  <2>5. PICK e : e = [channelId |-> m.channel_id, name |-> m.name]
    OBVIOUS
  <2>6. e \in Entry /\ e.channelId = m.channel_id
    BY <2>4, <2>5
  <2>7. channel_list' = IF ChannelExists(m.channel_id) THEN channel_list ELSE Append(channel_list, e)
    BY <1>2, <2>2, <2>5 DEF ChannelStatePacket
  <2> HIDE DEF Entry
  <2>8. /\ ListedOnce'
        /\ \A c : ChannelExists(c)' <=> ChannelExists(c) \/ c = m.channel_id
    <3>1. CASE ChannelExists(m.channel_id)
      BY <1>1, <2>7, <3>1 DEF ListedOnce, ChannelExists
    <3>2. CASE ~ChannelExists(m.channel_id)
      BY <1>1, <2>6, <2>7, <3>2, AddedOnce
    <3> QED BY <3>1, <3>2
  <2>9. \A c \in Channels : TookChannel(m, c)
    BY <2>3, <2>8 DEF TookChannel, IsAdded, IsErased
  <2> QED BY <2>2, <2>3, <2>8, <2>9, ChannelReads
<1>3. CASE ChannelRemovePacket
  <2>1. Processes("CHANNELREMOVE")
    BY <1>3 DEF ChannelRemovePacket
  <2>2. PICK m : m = Head(wire)
    OBVIOUS
  <2>3. /\ wire # << >> /\ wire' = Tail(wire) /\ UNCHANGED server
        /\ m.type = "CHANNELREMOVE"
    BY <2>1, <2>2, NextMessage
  <2>4. PICK d : d = m.channel_id
    OBVIOUS
  <2>5. channel_list' = ChannelErase(d)
    BY <1>3, <2>2, <2>4 DEF ChannelRemovePacket
  <2> HIDE DEF Entry
  <2>6. /\ ListedOnce'
        /\ \A c : ChannelExists(c)' <=> ChannelExists(c) /\ c # d
    BY <1>1, <2>5, ErasedOnce
  <2>7. \A c \in Channels : TookChannel(m, c)
    BY <2>3, <2>4, <2>6 DEF TookChannel, IsAdded, IsErased
  <2> QED BY <2>2, <2>3, <2>6, <2>7, ChannelReads
<1> QED BY <1>2, <1>3

\* And if it is not.
LEMMA ChannelUnread ==
    ASSUME IInv, ChannelInv, UserStatePacket \/ UserRemovePacket \/ ServerSyncPacket
    PROVE  ChannelInv'
<1>1. PICK type \in {"USERSTATE", "USERREMOVE", "SERVERSYNC"} : Processes(type)
  BY DEF UserStatePacket, UserRemovePacket, ServerSyncPacket
<1>2. channel_list' = channel_list
  BY DEF UserStatePacket, UserRemovePacket, ServerSyncPacket
<1>3. PICK m : m = Head(wire)
  OBVIOUS
<1>4. /\ wire # << >> /\ wire' = Tail(wire) /\ UNCHANGED server /\ m.type = type
  BY <1>1, <1>3, NextMessage
<1>5. ListedOnce' /\ \A c : ChannelExists(c)' <=> ChannelExists(c)
  BY <1>2 DEF ChannelInv, ListedOnce, ChannelExists
<1>6. \A c \in Channels : TookChannel(m, c)
  BY <1>4, <1>5 DEF TookChannel, IsAdded, IsErased
<1> QED BY <1>3, <1>4, <1>5, <1>6, ChannelReads

LEMMA ChannelLogin == ASSUME IInv, TransportConnect PROVE ChannelInv'
<1>1. ServerTypes /\ channel_list' = << >> /\ channels' = channels
  BY DEF IInv, TransportConnect, GeneralClear
<1>2. PICK n1, n2, g, f : Announced(n1, n2, g, f)
  BY <1>1, LoginWire
<1>3. /\ n1 \in Nat /\ n2 \in Nat /\ Len(wire') = n1 + n2 + 1
      /\ g \in [1 .. n1 -> DOMAIN channels]
      /\ \A c \in DOMAIN channels : \E i \in 1 .. n1 : g[i] = c
  BY <1>2 DEF Announced
<1>4. \A i \in 1 .. n1 : \A c : (IsAdded(wire'[i], c) <=> c = g[i]) /\ ~IsErased(wire'[i], c)
  <2>1. ASSUME NEW i \in 1 .. n1, NEW c
        PROVE  (IsAdded(wire'[i], c) <=> c = g[i]) /\ ~IsErased(wire'[i], c)
    <3>1. wire'[i] = ChannelState(g[i], channels[g[i]])
      BY <1>2 DEF Announced
    <3>2. PICK m, d, x : m = wire'[i] /\ d = g[i] /\ x = channels[g[i]]
      OBVIOUS
    <3>3. m = ChannelState(d, x)
      BY <3>1, <3>2
    <3>4. (IsAdded(m, c) <=> c = d) /\ ~IsErased(m, c)
      BY <3>3, ChannelMessages
    <3> QED BY <3>2, <3>4
  <2> QED BY <2>1
<1>5. \A i \in n1 + 1 .. n1 + n2 + 1 : \A c : ~IsAdded(wire'[i], c) /\ ~IsErased(wire'[i], c)
  <2>1. ASSUME NEW i \in 1 .. n2, NEW c PROVE ~IsAdded(wire'[n1 + i], c) /\ ~IsErased(wire'[n1 + i], c)
    <3>1. wire'[n1 + i] = UserState(f[i], users'[f[i]].name, users'[f[i]].channel)
      BY <1>2 DEF Announced
    <3> QED BY <3>1, ChannelMessages
  <2>2. \A c : ~IsAdded(wire'[n1 + n2 + 1], c) /\ ~IsErased(wire'[n1 + n2 + 1], c)
    BY <1>2, ChannelMessages DEF Announced
  <2>3. \A i \in n1 + 1 .. n1 + n2 + 1 : i = n1 + n2 + 1 \/ (i - n1 \in 1 .. n2 /\ n1 + (i - n1) = i)
    BY <1>3
  <2> QED BY <2>1, <2>2, <2>3
<1>6. \A i \in 1 .. n1 + n2 + 1 : i \in 1 .. n1 \/ i \in n1 + 1 .. n1 + n2 + 1
  BY <1>3
<1>7. \A i \in 1 .. n1 : i \in 1 .. n1 + n2 + 1
  BY <1>3
<1>8. ASSUME NEW c, NEW a \in Nat, a >= 1 PROVE Remains(c, a)'
  <2>1. \A j \in a .. n1 + n2 + 1 : j \in 1 .. n1 + n2 + 1
    BY <1>3, <1>8
  <2> QED BY <1>3, <1>4, <1>5, <1>6, <2>1 DEF Remains
<1>9. ~\E i \in DOMAIN channel_list' : TRUE
  BY <1>1
<1>10. ASSUME NEW c PROVE Listed(c)' <=> c \in DOMAIN channels
  <2>1. Listed(c)' <=> \E j \in 1 .. n1 + n2 + 1 : IsAdded(wire'[j], c) /\ Remains(c, j + 1)'
    BY <1>3, <1>9 DEF Listed, ChannelExists
  <2>2. \A j \in 1 .. n1 + n2 + 1 : Remains(c, j + 1)'
    BY <1>3, <1>8
  <2>3. (\E j \in 1 .. n1 + n2 + 1 : IsAdded(wire'[j], c)) <=> \E i \in 1 .. n1 : g[i] = c
    BY <1>4, <1>5, <1>6, <1>7
  <2> QED BY <1>3, <2>1, <2>2, <2>3
<1>11. ListedOnce'
  BY <1>9 DEF ListedOnce
<1> QED BY <1>1, <1>10, <1>11 DEF ChannelInv

\* The connection ends, with or without the client's forgetting.
LEMMA ChannelDown == ASSUME ChannelInv, TransportLost \/ TransportDisconnect PROVE ChannelInv'
<1>1. link' = "down"
  BY DEF TransportLost, TransportDisconnect, CloseConnection
<1>2. channel_list' = channel_list \/ channel_list' = << >>
  BY DEF TransportLost, TransportDisconnect, GeneralClear, client
<1>3. ListedOnce'
  BY <1>2 DEF ChannelInv, ListedOnce
<1> QED BY <1>1, <1>3 DEF ChannelInv

\* The server's answer to a request, or what it makes of one it ignores.
LEMMA ReadsSays ==
    ASSUME IInv, ReadsUserState
    PROVE  /\ link = "up" /\ own \in DOMAIN users
           /\ UNCHANGED <<link, channels, own, client>>
           /\ \/ UNCHANGED <<users, wire>>
              \/ \E c \in Channels \cup {NoId} :
                    /\ UserState(own, NoName, c) \in Message
                    /\ Says(UserState(own, NoName, c))
                    /\ c \in {users'[own].channel, NoId}
<1> DEFINE c == Head(outbox).channel_id
<1>1. /\ ServerTypes /\ outbox # << >> /\ link = "up" /\ own \in DOMAIN users /\ own \in Sessions
      /\ UNCHANGED <<link, channels, own, client>>
  BY DEF IInv, ServerTypes, WireTypes, ReadsUserState, Reads
<1>2. \/ c \in DOMAIN channels \cup {NoId}
         /\ users' = (IF c = NoId THEN users ELSE [users EXCEPT ![own].channel = c])
         /\ wire' = Append(wire, UserState(own, NoName, c))
      \/ users' = users /\ wire' = wire
  BY DEF ReadsUserState
<1> HIDE DEF c
<1>3. ASSUME c \in DOMAIN channels \cup {NoId},
             users' = IF c = NoId THEN users ELSE [users EXCEPT ![own].channel = c],
             wire' = Append(wire, UserState(own, NoName, c))
      PROVE  /\ c \in Channels \cup {NoId} /\ UserState(own, NoName, c) \in Message
             /\ Says(UserState(own, NoName, c)) /\ c \in {users'[own].channel, NoId}
  <2>1. c \in Channels \cup {NoId}
    BY <1>1, <1>3 DEF ServerTypes
  <2>2. UserState(own, NoName, c) \in Message
    BY <1>1, <2>1, StateMessage
  <2>3. c \in {users'[own].channel, NoId}
    <3>1. CASE c = NoId
      BY <3>1
    <3>2. CASE c # NoId
      <4>1. c \in DOMAIN channels /\ users' = [users EXCEPT ![own].channel = c]
        BY <1>3, <3>2
      <4> QED BY <1>1, <4>1, MovedUser
    <3> QED BY <3>1, <3>2
  <2> QED BY <1>1, <1>3, <2>1, <2>2, <2>3 DEF Says
<1> QED BY <1>1, <1>2, <1>3

LEMMA ChannelNext == IInv /\ ChannelInv /\ [RequestsNext]_all => ChannelInv'
<1> SUFFICES ASSUME IInv, ChannelInv, [RequestsNext]_all PROVE ChannelInv'
  OBVIOUS
<1>1. CASE ConnectionChanges
  BY <1>1, ChannelLogin, ChannelDown DEF ConnectionChanges
<1>2. CASE Server
  BY <1>2, ServerSays, ChannelSays DEF client
<1>3. CASE Client
  <2>1. ASSUME NEW s, NEW mute_state, UserMute(s, mute_state) PROVE ChannelInv'
    BY <2>1, ChannelKeeps DEF UserMute, server
  <2> QED BY <1>3, <2>1, ChannelRead, ChannelUnread DEF Client
<1>4. CASE Application
  <2>1. UNCHANGED vars
    BY <1>4, Sends DEF Asked
  <2> QED BY <2>1, ChannelKeeps DEF vars, server, client
<1>5. CASE ReadsUserState
  <2>1. UNCHANGED <<link, channels, channel_list>>
    BY <1>5, ReadsSays DEF client
  <2>2. CASE wire' = wire
    BY <2>1, <2>2, ChannelKeeps
  <2>3. ASSUME NEW c, UserState(own, NoName, c) \in Message, Says(UserState(own, NoName, c))
        PROVE  ChannelInv'
    <3>1. \A d \in Channels : SuitsChannel(UserState(own, NoName, c), d)
      BY <2>1, ChannelMessages DEF SuitsChannel
    <3> QED BY <2>1, <2>3, <3>1, ChannelSays
  <2> QED BY <1>5, <2>2, <2>3, ReadsSays
<1>6. CASE ReadsText
  BY <1>6, ChannelKeeps DEF ReadsText, Reads, client
<1>7. CASE UNCHANGED all
  BY <1>7, ChannelKeeps DEF all, vars, server, client
<1> QED BY <1>1, <1>2, <1>3, <1>4, <1>5, <1>6, <1>7 DEF RequestsNext, ServerReads

\* The last message in flight about a channel decides.
LEMMA ChannelFacts == IInv /\ ChannelInv => ChannelsTracked
<1> SUFFICES ASSUME IInv, ChannelInv, link = "up", NEW c \in Channels
             PROVE  c \in DOMAIN channels <=>
                      IF AboutChannel(c) = {} THEN ChannelExists(c)
                      ELSE wire[Max(AboutChannel(c))].type = "CHANNELSTATE"
  BY DEF ChannelsTracked, ChannelInv, ListedOnce
<1> DEFINE A == AboutChannel(c)
           L == Len(wire)
<1>1. (c \in DOMAIN channels <=> Listed(c)) /\ L \in Nat /\ DOMAIN wire = 1 .. L
  BY DEF IInv, ChannelInv, WireTypes
<1>2. \A i \in 1 .. L : i \in A <=> IsAdded(wire[i], c) \/ IsErased(wire[i], c)
  BY <1>1 DEF AboutChannel, IsAdded, IsErased
<1>3. A \subseteq 1 .. L
  BY <1>1 DEF AboutChannel
<1>4. CASE A = {}
  BY <1>1, <1>2, <1>4 DEF Listed, Remains
<1>5. CASE A # {}
  <2> DEFINE M == Max(A)
  <2>1. M \in A /\ \A x \in A : x <= M
    <3> HIDE DEF A
    <3> QED BY <1>1, <1>3, <1>5, MaxIs
  <2> HIDE DEF M, A
  <2>2. M \in 1 .. L
    BY <1>3, <2>1
  <2>3. \A j \in M + 1 .. L : ~IsAdded(wire[j], c) /\ ~IsErased(wire[j], c)
    BY <1>1, <1>2, <2>1, <2>2
  <2>4. CASE IsAdded(wire[M], c)
    <3>1. Listed(c)
      BY <2>2, <2>3, <2>4 DEF Listed, Remains
    <3> QED BY <1>1, <1>5, <2>4, <3>1 DEF IsAdded, M, A
  <2>5. CASE IsErased(wire[M], c)
    <3>1. ~Remains(c, 1)
      BY <2>2, <2>5 DEF Remains
    <3>2. ASSUME NEW j \in 1 .. L, IsAdded(wire[j], c), Remains(c, j + 1) PROVE FALSE
      <4>1. j < M
        BY <1>1, <2>2, <2>3, <2>5, <3>2 DEF IsAdded, IsErased
      <4> QED BY <1>1, <2>2, <2>5, <3>2, <4>1 DEF Remains
    <3>3. ~Listed(c)
      BY <3>1, <3>2 DEF Listed
    <3> QED BY <1>1, <1>5, <2>5, <3>3 DEF IsErased, M, A
  <2> QED BY <1>2, <2>1, <2>2, <2>4, <2>5
<1> QED BY <1>4, <1>5

LEMMA ChannelInvariant == RequestsSpec => []ChannelInv
<1>1. RequestsInit => ChannelInv
  BY DEF RequestsInit, Init, ChannelInv, ListedOnce
<1> QED BY <1>1, Invariant, ChannelNext, PTL DEF RequestsSpec

-----------------------------------------------------------------------------
(***************************************************************************)
(* The client's own session and channel                                    *)
(***************************************************************************)

\* ServerSync is the message p in flight, or read already (0).
OwnFrom(p) ==
    /\ IF p = 0 THEN session_id = own ELSE session_id = 0 /\ wire[p] = ServerSync(own)
    /\ \A j \in 1 .. Len(wire) : j # p => wire[j].type # "SERVERSYNC"
    /\ \A j \in 1 .. Len(wire) : ~IsRemove(wire[j], own)
    /\ users[own].channel \in been
    /\ channel_current \in been \cup {NoId}
    /\ \A j \in p + 1 .. Len(wire) :
          IsState(wire[j], own) => wire[j].channel_id \in been \cup {NoId}
    /\ Silent(own, p + 1) => channel_current \in {users[own].channel, NoId}

OwnInv == link = "up" => \E p \in 0 .. Len(wire) : OwnFrom(p)

\* The report m of a step goes out.
LEMMA OwnSays ==
    ASSUME IInv, OwnInv, link = "up", link' = link, own' = own, UNCHANGED client,
           NEW m \in Message, Says(m), m.type # "SERVERSYNC", ~IsRemove(m, own),
           \/ ~IsState(m, own) /\ users'[own] = users[own]
           \/ IsState(m, own) /\ m.channel_id \in {users'[own].channel, NoId},
           been' = been \cup {users'[own].channel}
    PROVE  OwnInv'
<1> DEFINE L == Len(wire)
<1>1. wire \in Seq(Message) /\ wire' = Append(wire, m)
  BY DEF IInv, WireTypes, Says
<1>2. /\ L \in Nat /\ Len(wire') = L + 1 /\ wire'[L + 1] = m
      /\ \A j \in 1 .. L : wire'[j] = wire[j]
  BY <1>1, Appended
<1>3. PICK p \in 0 .. L : OwnFrom(p)
  BY DEF OwnInv
<1>4. session_id' = session_id /\ channel_current' = channel_current
  BY DEF client
<1> HIDE DEF L
<1>5. \A j \in 1 .. L + 1 : j = L + 1 \/ j \in 1 .. L
  BY <1>2
<1>6. IF p = 0 THEN session_id' = own' ELSE session_id' = 0 /\ wire'[p] = ServerSync(own')
  <2>1. p # 0 => p \in 1 .. L
    BY <1>2
  <2> QED BY <1>2, <1>3, <1>4, <2>1 DEF OwnFrom
<1>7. /\ \A j \in 1 .. L + 1 : j # p => wire'[j].type # "SERVERSYNC"
      /\ \A j \in 1 .. L + 1 : ~IsRemove(wire'[j], own)
  BY <1>2, <1>3, <1>5 DEF OwnFrom, L
<1>8. /\ users'[own].channel \in been'
      /\ channel_current' \in been' \cup {NoId}
  BY <1>3, <1>4 DEF OwnFrom
<1>9. ASSUME NEW j \in p + 1 .. L + 1, IsState(wire'[j], own)
      PROVE  wire'[j].channel_id \in been' \cup {NoId}
  <2>1. CASE j = L + 1
    BY <1>2, <1>9, <2>1
  <2>2. CASE j # L + 1
    <3>1. j \in p + 1 .. L /\ j \in 1 .. L
      BY <1>2, <2>2
    <3> QED BY <1>2, <1>3, <1>9, <3>1 DEF OwnFrom, L
  <2> QED BY <2>1, <2>2
<1>10. Silent(own, p + 1)' => channel_current' \in {users'[own].channel, NoId}
  <2> SUFFICES ASSUME Silent(own, p + 1)' PROVE channel_current' \in {users'[own].channel, NoId}
    OBVIOUS
  <2>1. L + 1 \in p + 1 .. L + 1
    BY <1>2
  <2>2. ~IsState(m, own)
    BY <1>2, <2>1 DEF Silent
  <2>3. \A j \in p + 1 .. L : j \in 1 .. L /\ j \in p + 1 .. L + 1
    BY <1>2
  <2>4. Silent(own, p + 1)
    BY <1>2, <2>3 DEF Silent, L
  <2> QED BY <1>3, <1>4, <2>2, <2>4 DEF OwnFrom
<1>11. OwnFrom(p)'
  BY <1>2, <1>6, <1>7, <1>8, <1>9, <1>10 DEF OwnFrom
<1>12. p \in 0 .. Len(wire')
  BY <1>2
<1> QED BY <1>11, <1>12 DEF OwnInv

\* The client reads the next message.
LEMMA OwnReads ==
    ASSUME IInv, OwnInv, link = "up", UNCHANGED server, wire # << >>, wire' = Tail(wire),
           been' = been \cup {users[own].channel},
           session_id' = IF Head(wire).type = "SERVERSYNC" THEN Head(wire).session ELSE session_id,
           channel_current' = IF IsState(Head(wire), session_id) THEN Head(wire).channel_id
                              ELSE channel_current
    PROVE  OwnInv'
<1> DEFINE L == Len(wire)
<1>1. wire \in Seq(Message) /\ own \in DOMAIN users /\ own \in Sessions /\ 0 \notin Sessions
  BY NumbersAssumption DEF IInv, WireTypes, ServerTypes
<1>2. /\ L \in Nat /\ L >= 1 /\ Len(wire') = L - 1 /\ Head(wire) = wire[1] /\ wire[1] \in Message
      /\ \A j \in 1 .. L - 1 : wire'[j] = wire[j + 1]
      /\ \A j \in 2 .. L : wire[j] = wire'[j - 1]
  BY <1>1, Advanced
<1>3. PICK p \in 0 .. L : OwnFrom(p)
  BY DEF OwnInv
<1>4. Located(own)
  BY <1>1 DEF IInv, Users, UserInv
<1>5. own' = own /\ link' = link /\ users' = users /\ been' = been
  BY <1>3 DEF server, OwnFrom
<1> HIDE DEF L
<1>6. PICK m : m = wire[1]
  OBVIOUS
<1>7. m \in Message /\ (m.type = "USERSTATE" => m.session \in Sessions)
  BY <1>2, <1>6 DEF Message
<1>8. ASSUME NEW a \in 1 .. L, Silent(own, a)' PROVE Silent(own, a + 1)
  <2> SUFFICES ASSUME NEW j \in a + 1 .. L PROVE ~IsState(wire[j], own) /\ ~IsRemove(wire[j], own)
    BY DEF Silent, L
  <2>1. wire[j] = wire'[j - 1] /\ j - 1 \in a .. L - 1
    BY <1>2
  <2> QED BY <1>2, <1>5, <1>8, <2>1 DEF Silent
<1>9. \A j \in 1 .. L - 1 : ~IsRemove(wire'[j], own)
  <2>1. \A j \in 1 .. L - 1 : j + 1 \in 1 .. L
    BY <1>2
  <2> QED BY <1>2, <1>3, <2>1 DEF OwnFrom, L
<1>10. CASE p > 1
  <2> DEFINE q == p - 1
  <2>1. q \in 1 .. L - 1 /\ q + 1 = p /\ 1 \in 1 .. L /\ 1 # p
    BY <1>2, <1>10
  <2>2. session_id = 0 /\ wire[p] = ServerSync(own) /\ m.type # "SERVERSYNC"
    BY <1>3, <1>6, <1>10, <2>1 DEF OwnFrom, L
  <2>3. session_id' = 0 /\ channel_current' = channel_current
    BY <1>1, <1>2, <1>6, <1>7, <2>2 DEF IsState
  <2>4. wire'[q] = ServerSync(own)
    BY <1>2, <2>1, <2>2
  <2>5. \A j \in 1 .. L - 1 : j # q => wire'[j].type # "SERVERSYNC"
    <3>1. \A j \in 1 .. L - 1 : j + 1 \in 1 .. L /\ (j # q => j + 1 # p)
      BY <1>2
    <3> QED BY <1>2, <1>3, <3>1 DEF OwnFrom, L
  <2>6. \A j \in q + 1 .. L - 1 :
           IsState(wire'[j], own) => wire'[j].channel_id \in been \cup {NoId}
    <3>1. \A j \in q + 1 .. L - 1 : j \in 1 .. L - 1 /\ j + 1 \in p + 1 .. L
      BY <1>2, <2>1
    <3> QED BY <1>2, <1>3, <3>1 DEF OwnFrom, L
  <2> HIDE DEF q
  <2>7. Silent(own, q + 1)' => channel_current' \in {users[own].channel, NoId}
    <3>1. Silent(own, q + 1)' => Silent(own, p + 1)
      BY <1>3, <1>8, <1>10, <2>1
    <3> QED BY <1>3, <2>3, <3>1 DEF OwnFrom
  <2>8. /\ users[own].channel \in been /\ channel_current' \in been \cup {NoId}
    BY <1>3, <2>3 DEF OwnFrom
  <2>9. q # 0 /\ q \in 0 .. L - 1
    BY <1>2, <2>1
  <2>10. OwnFrom(q)'
    BY <1>2, <1>5, <1>9, <2>3, <2>4, <2>5, <2>6, <2>7, <2>8, <2>9 DEF OwnFrom
  <2> QED BY <1>2, <2>9, <2>10 DEF OwnInv
<1>11. CASE p <= 1
  <2>1. /\ \A j \in 1 .. L - 1 : wire'[j].type # "SERVERSYNC"
        /\ \A j \in 1 .. L - 1 :
              IsState(wire'[j], own) => wire'[j].channel_id \in been \cup {NoId}
    <3>1. \A j \in 1 .. L - 1 : j + 1 \in 1 .. L /\ j + 1 # p /\ j + 1 \in p + 1 .. L
      BY <1>2, <1>11
    <3> QED BY <1>2, <1>3, <3>1 DEF OwnFrom, L
  <2>2. users[own].channel \in been /\ 1 \in 1 .. L
    BY <1>2, <1>3 DEF OwnFrom
  <2>3. Silent(own, 1)' => Silent(own, 2)
    BY <1>8, <2>2
  <2>4. CASE p = 1
    <3>1. m = ServerSync(own) /\ session_id = 0 /\ m.type = "SERVERSYNC" /\ m.session = own
      BY <1>3, <1>6, <2>4 DEF OwnFrom, ServerSync
    <3>2. session_id' = own /\ channel_current' = channel_current
      BY <1>2, <1>6, <3>1 DEF IsState
    <3>3. /\ channel_current' \in been \cup {NoId}
          /\ Silent(own, 1)' => channel_current' \in {users[own].channel, NoId}
      <4>1. \A a : a = 1 => (Silent(own, 1)' => Silent(own, a + 1))
        BY <1>8, <2>2
      <4> QED BY <1>3, <2>4, <3>2, <4>1 DEF OwnFrom
    <3>4. Silent(own, 0 + 1)' <=> Silent(own, 1)'
      OBVIOUS
    <3>5. \A j \in 0 + 1 .. L - 1 : j \in 1 .. L - 1
      BY <1>2
    <3>6. OwnFrom(0)'
      BY <1>2, <1>5, <1>9, <2>1, <2>2, <3>2, <3>3, <3>4, <3>5 DEF OwnFrom
    <3> QED BY <1>2, <3>6 DEF OwnInv
  <2>5. CASE p = 0
    <3>1. session_id = own /\ m.type # "SERVERSYNC"
      BY <1>2, <1>3, <1>6, <2>2, <2>5 DEF OwnFrom, L
    <3>2. /\ session_id' = own
          /\ channel_current' = IF IsState(m, own) THEN m.channel_id ELSE channel_current
      BY <1>2, <1>6, <3>1
    <3>3. channel_current' \in been \cup {NoId}
      <4>1. 1 \in p + 1 .. L
        BY <1>2, <2>5
      <4> QED BY <1>3, <1>6, <3>2, <4>1 DEF OwnFrom, L
    <3>4. Silent(own, 1)' => channel_current' \in {users[own].channel, NoId}
      <4> SUFFICES ASSUME Silent(own, 1)' PROVE channel_current' \in {users[own].channel, NoId}
        OBVIOUS
      <4>1. \A a : a = 1 => Silent(own, a + 1)
        BY <1>8, <2>2
      <4>2. CASE IsState(m, own)
        BY <1>1, <1>4, <1>6, <2>2, <3>2, <4>1, <4>2 DEF Located, L
      <4>3. CASE ~IsState(m, own)
        <5>1. ~IsRemove(m, own)
          BY <1>3, <1>6, <2>2 DEF OwnFrom, L
        <5>2. \A j \in 1 .. L : j = 1 \/ j \in 2 .. L
          BY <1>2
        <5>3. Silent(own, 1)
          BY <1>6, <2>3, <4>3, <5>1, <5>2 DEF Silent, L
        <5> QED BY <1>3, <2>5, <3>2, <4>3, <5>3 DEF OwnFrom
      <4> QED BY <4>2, <4>3
    <3>5. \A j \in 0 + 1 .. L - 1 : j \in 1 .. L - 1
      BY <1>2
    <3>6. Silent(own, 0 + 1)' <=> Silent(own, 1)'
      OBVIOUS
    <3>7. OwnFrom(0)'
      BY <1>2, <1>5, <1>9, <2>1, <2>2, <3>2, <3>3, <3>4, <3>5, <3>6 DEF OwnFrom
    <3> QED BY <1>2, <3>7 DEF OwnInv
  <2> QED BY <1>3, <1>11, <2>4, <2>5
<1> QED BY <1>2, <1>3, <1>10, <1>11

LEMMA OwnKeeps ==
    ASSUME OwnInv, UNCHANGED <<link, own, users, wire, session_id, channel_current>>,
           link = "up" => been' = been \cup {users[own].channel} \/ been' = been
    PROVE  OwnInv'
<1> SUFFICES ASSUME link = "up" PROVE \E p \in 0 .. Len(wire') : OwnFrom(p)'
  BY DEF OwnInv
<1>1. PICK p \in 0 .. Len(wire) : OwnFrom(p)
  BY DEF OwnInv
<1>2. been' = been
  BY <1>1 DEF OwnFrom
<1>3. Silent(own, p + 1)' <=> Silent(own, p + 1)
  BY DEF Silent
<1>4. OwnFrom(p)'
  BY <1>1, <1>2, <1>3 DEF OwnFrom
<1> QED BY <1>1, <1>4

\* The login: a client that has forgotten its channel is in the root, as the
\* server has it.
LEMMA OwnLogin ==
    ASSUME Home = {0}, IInv, TransportConnect, Wanders
    PROVE  OwnInv'
<1>1. /\ ServerTypes /\ link = "down" /\ link' = "up" /\ session_id' = 0 /\ channel_current' = 0
  BY DEF IInv, TransportConnect, GeneralClear
<1>2. /\ users'[own'].channel = 0
      /\ \E n1, n2, g, f : Announced(n1, n2, g, f)
  BY <1>1, LoginWire
<1>3. PICK n1, n2, g, f : Announced(n1, n2, g, f)
  BY <1>2
<1>4. been' = {0}
  BY <1>1, <1>2 DEF Wanders
<1> DEFINE p == n1 + n2 + 1
<1>5. /\ n1 \in Nat /\ n2 \in Nat /\ Len(wire') = p /\ p \in 0 .. p /\ p # 0
      /\ wire'[p] = ServerSync(own')
  BY <1>3 DEF Announced
<1>6. ASSUME NEW j \in 1 .. p PROVE ~IsRemove(wire'[j], own') /\ (j # p => wire'[j].type # "SERVERSYNC")
  <2>1. CASE j \in 1 .. n1
    <3>1. wire'[j] = ChannelState(g[j], channels[g[j]])
      BY <1>3, <2>1 DEF Announced
    <3>2. wire'[j].type = "CHANNELSTATE"
      BY <3>1 DEF ChannelState
    <3> QED BY <3>2 DEF IsRemove
  <2>2. CASE j - n1 \in 1 .. n2
    <3>1. n1 + (j - n1) = j
      BY <1>5
    <3>2. PICK i \in 1 .. n2 : i = j - n1 /\ n1 + i = j
      BY <2>2, <3>1
    <3>3. wire'[j] = UserState(f[i], users'[f[i]].name, users'[f[i]].channel)
      BY <1>3, <3>2 DEF Announced
    <3>4. wire'[j].type = "USERSTATE"
      BY <3>3 DEF UserState
    <3> QED BY <3>4 DEF IsRemove
  <2>3. CASE j = p
    BY <1>5, <2>3 DEF ServerSync, IsRemove
  <2> QED BY <1>5, <2>1, <2>2, <2>3
<1>7. \A j : j \notin p + 1 .. p
  BY <1>5
<1> HIDE DEF p
<1>8. OwnFrom(p)'
  BY <1>1, <1>2, <1>4, <1>5, <1>6, <1>7 DEF OwnFrom
<1> QED BY <1>5, <1>8 DEF OwnInv

LEMMA OwnPackets ==
    ASSUME IInv, OwnInv, Wanders,
           \/ ChannelStatePacket \/ ChannelRemovePacket
           \/ UserStatePacket \/ UserRemovePacket \/ ServerSyncPacket
    PROVE  OwnInv'
<1> DEFINE m == Head(wire)
<1>1. PICK type : /\ Processes(type)
                  /\ session_id' = IF type = "SERVERSYNC" THEN m.session ELSE session_id
                  /\ channel_current' = IF type = "USERSTATE" /\ m.session = session_id
                                        THEN m.channel_id ELSE channel_current
  BY DEF ChannelStatePacket, ChannelRemovePacket, UserStatePacket, UserRemovePacket, ServerSyncPacket
<1>2. /\ wire # << >> /\ wire' = Tail(wire) /\ UNCHANGED server /\ link = "up" /\ m.type = type
  BY <1>1, NextMessage
<1>3. been' = been \cup {users[own].channel}
  BY <1>2 DEF Wanders, server
<1> QED BY <1>1, <1>2, <1>3, OwnReads DEF IsState

LEMMA OwnNext == Home = {0} /\ IInv /\ OwnInv /\ [RequestsNext]_all => OwnInv'
<1> SUFFICES ASSUME Home = {0}, IInv, OwnInv, [RequestsNext]_all PROVE OwnInv'
  OBVIOUS
<1>0. CASE UNCHANGED all
  BY <1>0, OwnKeeps DEF all, vars, server, client
<1>1. CASE ConnectionChanges /\ Wanders
  <2>1. CASE TransportConnect
    BY <1>1, <2>1, OwnLogin
  <2>2. CASE TransportLost \/ TransportDisconnect
    BY <2>2 DEF TransportLost, TransportDisconnect, CloseConnection, OwnInv
  <2> QED BY <1>1, <2>1, <2>2 DEF ConnectionChanges
<1>2. CASE Server /\ Wanders
  <2>1. PICK m : /\ m \in Message /\ Says(m) /\ link' = link /\ own' = own /\ UNCHANGED client
                 /\ m.type # "SERVERSYNC" /\ ~IsRemove(m, own)
                 /\ link = "up" =>
                       \/ ~IsState(m, own) /\ users'[own] = users[own]
                       \/ IsState(m, own) /\ m.channel_id \in {users'[own].channel, NoId}
    BY <1>2, ServerSays
  <2>2. CASE link = "up"
    <3>1. been' = been \cup {users'[own].channel}
      BY <1>2, <2>1, <2>2 DEF Wanders
    <3> QED BY <2>1, <2>2, <3>1, OwnSays
  <2>3. CASE link # "up"
    BY <2>1, <2>3 DEF OwnInv
  <2> QED BY <2>2, <2>3
<1>3. CASE Client /\ Wanders
  <2>1. ASSUME NEW s, NEW mute_state, UserMute(s, mute_state) PROVE OwnInv'
    <3>1. UNCHANGED <<link, own, users, wire, session_id, channel_current>>
      BY <2>1 DEF UserMute, server
    <3>2. link = "up" => been' = been \cup {users[own].channel}
      BY <1>3, <3>1 DEF Wanders
    <3> QED BY <3>1, <3>2, OwnKeeps
  <2> QED BY <1>3, <2>1, OwnPackets DEF Client
<1>4. CASE Application /\ Wanders
  <2>1. UNCHANGED vars
    BY <1>4, Sends DEF Asked
  <2>2. UNCHANGED <<link, own, users, wire, session_id, channel_current>>
    BY <2>1 DEF vars, server, client
  <2>3. link = "up" => been' = been \cup {users[own].channel}
    BY <1>4, <2>2 DEF Wanders
  <2> QED BY <2>2, <2>3, OwnKeeps
<1>5. CASE ReadsUserState /\ Wanders
  <2>1. /\ link = "up" /\ own \in DOMAIN users
        /\ UNCHANGED <<link, channels, own, client>>
        /\ \/ UNCHANGED <<users, wire>>
           \/ \E c \in Channels \cup {NoId} :
                 /\ UserState(own, NoName, c) \in Message
                 /\ Says(UserState(own, NoName, c))
                 /\ c \in {users'[own].channel, NoId}
    BY <1>5, ReadsSays
  <2>2. been' = been \cup {users'[own].channel}
    BY <1>5, <2>1 DEF Wanders
  <2>3. CASE UNCHANGED <<users, wire>>
    BY <2>1, <2>2, <2>3, OwnKeeps DEF client
  <2>4. ASSUME NEW c \in Channels \cup {NoId}, UserState(own, NoName, c) \in Message,
               Says(UserState(own, NoName, c)), c \in {users'[own].channel, NoId}
        PROVE  OwnInv'
    <3>1. PICK m : m = UserState(own, NoName, c)
      OBVIOUS
    <3>2. m.type = "USERSTATE" /\ IsState(m, own) /\ ~IsRemove(m, own) /\ m.channel_id = c
      BY <3>1 DEF UserState, IsState, IsRemove
    <3>3. m \in Message /\ Says(m) /\ m.type # "SERVERSYNC"
      BY <2>4, <3>1, <3>2
    <3> QED BY <2>1, <2>2, <2>4, <3>2, <3>3, OwnSays
  <2> QED BY <2>1, <2>3, <2>4
<1>6. CASE ReadsText /\ Wanders
  <2>1. UNCHANGED <<link, own, users, wire, session_id, channel_current>>
    BY <1>6 DEF ReadsText, Reads, client
  <2>2. link = "up" => been' = been \cup {users[own].channel}
    BY <1>6, <2>1 DEF Wanders
  <2> QED BY <2>1, <2>2, OwnKeeps
<1> QED BY <1>0, <1>1, <1>2, <1>3, <1>4, <1>5, <1>6 DEF RequestsNext, ServerReads

\* Where the client's user is about whom nothing is in flight.
LEMMA OwnFacts == IInv /\ OwnInv => OwnChannelKnown
<1> SUFFICES ASSUME IInv, OwnInv, link = "up", session_id # 0, AboutUser(own) = {}
             PROVE  channel_current \in {users[own].channel, NoId}
  BY DEF OwnChannelKnown
<1>1. PICK p \in 0 .. Len(wire) : OwnFrom(p)
  BY DEF OwnInv
<1>2. p = 0
  BY <1>1 DEF OwnFrom
<1>3. Silent(own, 1)
  BY SilentAbout DEF IInv, WireTypes
<1> QED BY <1>1, <1>2, <1>3 DEF OwnFrom

\* The texts in flight.
TextInv == outbox \in Seq(Request) /\ TextWhereBeen

LEMMA TextKept ==
    ASSUME TextInv, outbox' = outbox \/ (outbox # << >> /\ outbox' = Tail(outbox)),
           been \subseteq been' \/ outbox = << >>
    PROVE  TextInv'
<1>1. CASE outbox' = outbox
  BY <1>1 DEF TextInv, TextWhereBeen
<1>2. CASE outbox # << >> /\ outbox' = Tail(outbox)
  <2>1. PICK a, b : a = outbox /\ b = outbox'
    OBVIOUS
  <2>2. a \in Seq(Request) /\ a # << >> /\ b = Tail(a)
    BY <1>2, <2>1 DEF TextInv
  <2>3. b \in Seq(Request) /\ \A i \in DOMAIN b : i + 1 \in DOMAIN a /\ b[i] = a[i + 1]
    BY <2>2
  <2> QED BY <1>2, <2>1, <2>3 DEF TextInv, TextWhereBeen
<1> QED BY <1>1, <1>2

LEMMA TextNext == IInv /\ OwnInv /\ TextInv /\ [RequestsNext]_all => TextInv'
<1> SUFFICES ASSUME IInv, OwnInv, TextInv, [RequestsNext]_all PROVE TextInv'
  OBVIOUS
<1>1. outbox # << >> => link = "up"
  BY DEF IInv, WireTypes
<1>2. ASSUME Wanders, link' = link PROVE been \subseteq been' \/ outbox = << >>
  BY <1>1, <1>2 DEF Wanders, IInv, ServerTypes
<1>3. CASE ConnectionChanges /\ Wanders
  BY <1>3 DEF ConnectionChanges, TextInv, TextWhereBeen
<1>4. CASE Server /\ UNCHANGED outbox /\ Wanders
  BY <1>2, <1>4, ServerSays, TextKept
<1>5. CASE Client /\ UNCHANGED outbox /\ Wanders
  <2>1. link' = link
    BY <1>5 DEF Client, ChannelStatePacket, ChannelRemovePacket, UserStatePacket, UserRemovePacket,
                ServerSyncPacket, UserMute, Processes, server
  <2> QED BY <1>2, <1>5, <2>1, TextKept
<1>6. CASE Application /\ Wanders
  <2>1. PICK r \in Request : Asked(r)
    BY <1>6, Sends
  <2>2. link' = link
    BY <2>1 DEF Asked, vars, server
  <2>3. been \subseteq been' \/ outbox = << >>
    BY <1>2, <1>6, <2>2
  <2>4. CASE outbox' = outbox
    BY <2>3, <2>4, TextKept
  <2>5. CASE Connected /\ outbox' = Append(outbox, r)
    <3>1. link = "up" /\ session_id # 0
      BY <2>5 DEF Connected
    <3>2. PICK p \in 0 .. Len(wire) : OwnFrom(p)
      BY <3>1 DEF OwnInv
    <3>3. channel_current \in been \cup {NoId}
      BY <3>2 DEF OwnFrom
    <3>4. been \subseteq been'
      BY <1>6, <2>2, <3>1 DEF Wanders
    <3>5. PICK a, b : a = outbox /\ b = outbox'
      OBVIOUS
    <3>6. a \in Seq(Request) /\ b = Append(a, r)
      BY <2>5, <3>5 DEF TextInv
    <3>7. /\ b \in Seq(Request) /\ DOMAIN b = 1 .. Len(a) + 1 /\ DOMAIN a = 1 .. Len(a)
          /\ b[Len(a) + 1] = r /\ Len(a) \in Nat
          /\ \A i \in 1 .. Len(a) : b[i] = a[i]
      BY <3>6
    <3>8. ASSUME NEW i \in 1 .. Len(a) + 1, b[i].type = "TEXTMESSAGE"
          PROVE  b[i].channel_id \in been' \cup {NoId}
      <4>1. CASE i = Len(a) + 1
        BY <2>1, <3>3, <3>4, <3>7, <3>8, <4>1 DEF Asked
      <4>2. CASE i # Len(a) + 1
        <5>1. i \in 1 .. Len(a)
          BY <3>7, <4>2
        <5> QED BY <3>4, <3>5, <3>7, <3>8, <5>1 DEF TextInv, TextWhereBeen
      <4> QED BY <4>1, <4>2
    <3> QED BY <3>5, <3>7, <3>8 DEF TextInv, TextWhereBeen
  <2> QED BY <2>1, <2>4, <2>5 DEF Asked
<1>7. CASE ServerReads /\ Wanders
  <2>1. link' = link /\ outbox # << >> /\ outbox' = Tail(outbox)
    BY <1>7 DEF ServerReads, ReadsUserState, ReadsText, Reads
  <2> QED BY <1>2, <1>7, <2>1, TextKept
<1>8. CASE UNCHANGED all
  BY <1>8, TextKept DEF all
<1> QED BY <1>3, <1>4, <1>5, <1>6, <1>7, <1>8 DEF RequestsNext

LEMMA OwnInvariant == ASSUME Home = {0} PROVE RequestsSpec => [](OwnInv /\ TextInv)
<1>1. RequestsInit => OwnInv /\ TextInv
  BY DEF RequestsInit, Init, OwnInv, TextInv, TextWhereBeen
<1>2. IInv /\ (OwnInv /\ TextInv) /\ [RequestsNext]_all => (OwnInv /\ TextInv)'
  BY OwnNext, TextNext
<1> QED BY <1>1, <1>2, Invariant, PTL DEF RequestsSpec

-----------------------------------------------------------------------------
(* The theorems. *)

\* Every variable of the client's view keeps its type, whatever the server
\* reports and the application asks.
THEOREM TypeCorrect == RequestsSpec => []TypeOK
BY Invariant, TypeFacts, PTL

\* processUserStatePacket and the removal of users keep user_map the server's
\* users, read up to the messages in flight.
THEOREM UsersFollowed == RequestsSpec => []UsersTracked
BY Invariant, UsersFacts, PTL

\* userUpdate never loses a name to a message without one, and no name of an earlier
\* user of the session number, or of an earlier connection, shows in user_map.
THEOREM NamesFollowed == RequestsSpec => []NamesKnown
BY Invariant, NamesFacts, PTL

\* userUpdate keeps the channel of a user with nothing in flight right or absent.
THEOREM LocationsFollowed == RequestsSpec => []LocationsKnown
BY Invariant, LocationsFacts, PTL

\* UserMute's mark is on exactly the users the application has muted.
THEOREM MutesStay == RequestsSpec => []MutesTracked
<1>1. IInv => MutesTracked
  BY DEF IInv
<1> QED BY <1>1, Invariant, PTL

\* processChannelStatePacket and processChannelRemovePacket keep channel_list the
\* server's channels, each once, read up to the messages in flight.
THEOREM ChannelsFollowed == RequestsSpec => []ChannelsTracked
BY Invariant, ChannelInvariant, ChannelFacts, PTL

\* Where every login starts in the root channel, channel_current is the channel the
\* client's user is in or none, once nothing about it is in flight.
THEOREM OwnChannelFollows == ASSUME Home = {0} PROVE RequestsSpec => []OwnChannelKnown
BY Invariant, OwnInvariant, OwnFacts, PTL

\* There, sendTextMessage never sends to a channel its user has not been in since
\* the login.
THEOREM TextsWhereBeen == ASSUME Home = {0} PROVE RequestsSpec => []TextWhereBeen
<1>1. TextInv => TextWhereBeen
  BY DEF TextInv
<1> QED BY <1>1, OwnInvariant, PTL

=============================================================================
