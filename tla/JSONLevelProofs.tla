--------------------------- MODULE JSONLevelProofs ----------------------------
(***************************************************************************)
(* What a level reads and writes, whatever the level below it does.        *)
(***************************************************************************)
EXTENDS JSONLevelProperties, JSONOrder, JSONMeaning, JSONOmissions, SequenceTheorems, RecursionFacts

CONSTANTS
  HasFieldsNested(_, _),  \* of a value of the level below: all fields are there
  NestedTypes,            \* the types that the level below handles
  IsText(_),              \* what an attribute is read as, before it is interpreted
  MayBeWritten(_, _),     \* of values that are not left out
  IsClear(_),             \* of an attribute and its kind: it is read as it was written
  MayBeOmitted            \* the properties that may be left out, each with its type

\* The properties are read one after the other: the definition has a solution.
LEMMA PropertiesAreReadInOrder ==
  ASSUME NEW type, NEW old, NEW properties, Len(properties) \in Nat
  PROVE  /\ ReadProperties(type, old, properties)[0] = <<BeginObject(type, old)>>
         /\ \A n \in 1..Len(properties) :
              ReadProperties(type, old, properties)[n] =
                ReadNextProperty(type, ReadProperties(type, old, properties)[n - 1], properties[n])
<1> DEFINE Solves(f, size) ==
             f = [n \in 0..size |->
                    IF n = 0 THEN <<BeginObject(type, old)>>
                    ELSE ReadNextProperty(type, f[n - 1], properties[n])]
           X == {size \in Nat : \E f : Solves(f, size)}
<1>1. ASSUME NEW size \in Nat, 0..(size - 1) \subseteq X PROVE size \in X
  <2>1. CASE size = 0
    <3> DEFINE f == [n \in 0..0 |-> <<BeginObject(type, old)>>]
    <3>1. f = [n \in 0..0 |-> IF n = 0 THEN <<BeginObject(type, old)>>
                              ELSE ReadNextProperty(type, f[n - 1], properties[n])]
      OBVIOUS
    <3>2. Solves(f, size)
      BY <2>1, <3>1
    <3> QED BY <3>2
  <2>2. CASE size # 0
    <3>1. PICK g : Solves(g, size - 1)
      BY <1>1, <2>2
    <3> DEFINE next == ReadNextProperty(type, g[size - 1], properties[size])
               f == [n \in 0..size |-> IF n = size THEN next ELSE g[n]]
    <3>2. \A n \in 0..(size - 1) :
            g[n] = IF n = 0 THEN <<BeginObject(type, old)>>
                   ELSE ReadNextProperty(type, g[n - 1], properties[n])
      BY <3>1, <2>2
    <3>3. \A n \in 0..size : n # 0 => n - 1 \in 0..size /\ n - 1 # size
      OBVIOUS
    <3>4. \A n \in 0..size : n # 0 => f[n - 1] = g[n - 1]
      BY <3>3
    <3>5. \A n \in 0..size : n # size => n \in 0..(size - 1)
      OBVIOUS
    <3> HIDE DEF next
    <3>6. ASSUME NEW n \in 0..size
          PROVE  f[n] = IF n = 0 THEN <<BeginObject(type, old)>>
                        ELSE ReadNextProperty(type, f[n - 1], properties[n])
      <4>1. CASE n = size
        <5>1. f[n] = next
          BY <4>1
        <5> HIDE DEF f
        <5> QED BY <2>2, <4>1, <3>4, <5>1 DEF next
      <4>2. CASE n # size
        <5>1. f[n] = g[n]
          BY <4>2
        <5> HIDE DEF f
        <5> QED BY <4>2, <3>2, <3>4, <3>5, <5>1
      <4> QED BY <4>1, <4>2
    <3>7. f = [n \in 0..size |-> f[n]]
      OBVIOUS
    <3> HIDE DEF f
    <3>8. Solves(f, size)
      BY <3>6, <3>7
    <3> QED BY <3>8
  <2> QED BY <2>1, <2>2
<1>2. Nat \subseteq X
  <2> HIDE DEF X
  <2> QED BY <1>1, NaturalsByInduction
<1>3. \E f : Solves(f, Len(properties))
  BY <1>2
<1>4. Solves(ReadProperties(type, old, properties), Len(properties))
  BY <1>3 DEF ReadProperties
<1> DEFINE read == ReadProperties(type, old, properties)
<1> HIDE DEF read
<1>5. Solves(read, Len(properties))
  BY <1>4 DEF read
<1>6. /\ read[0] = <<BeginObject(type, old)>>
      /\ \A n \in 1..Len(properties) : read[n] = ReadNextProperty(type, read[n - 1], properties[n])
  BY <1>5
<1> QED BY <1>6 DEF read

\* A reader yields one value or none.
OneOrNone(read) == read = <<>> \/ \E v : read = <<v>>

\* Assigning what has been read yields an object, or nothing if nothing has been read.
LEMMA AssignYieldsOneOrNone ==
  ASSUME NEW r, NEW name, NEW v
  PROVE  OneOrNone(Assign(r, name, v))
BY DEF OneOrNone, Assign

\* So there is one object after each of the properties, or none.
LEMMA PropertiesYieldOneOrNone ==
  ASSUME NEW type, NEW old, NEW properties, Len(properties) \in Nat,
         NEW n \in 0..Len(properties)
  PROVE  OneOrNone(ReadProperties(type, old, properties)[n])
<1> DEFINE read == ReadProperties(type, old, properties)
           X == {m \in Nat : m <= Len(properties) => OneOrNone(read[m])}
<1>1. ASSUME NEW m \in Nat, 0..(m - 1) \subseteq X, m <= Len(properties)
      PROVE  OneOrNone(read[m])
  <2>1. CASE m = 0
    BY <2>1, PropertiesAreReadInOrder DEF OneOrNone
  <2>2. CASE m # 0
    <3>1. m - 1 \in X /\ m - 1 <= Len(properties) /\ m \in 1..Len(properties)
      BY <1>1, <2>2
    <3>2. read[m] = ReadNextProperty(type, read[m - 1], properties[m])
      BY <3>1, PropertiesAreReadInOrder
    <3>3. OneOrNone(read[m - 1])
      BY <3>1
    <3> HIDE DEF read
    <3>4. CASE read[m] = read[m - 1]
      BY <3>3, <3>4
    <3>5. CASE read[m] # read[m - 1]
      <4>1. read[m] = ReadProperty(type, read[m - 1][1], properties[m][1], properties[m][2])
        BY <3>2, <3>5 DEF ReadNextProperty
      <4> QED BY <4>1, AssignYieldsOneOrNone DEF ReadProperty
    <3> QED BY <3>4, <3>5
  <2> QED BY <2>1, <2>2
<1>2. Nat \subseteq X
  <2> HIDE DEF X
  <2>1. \A m \in Nat : 0..(m - 1) \subseteq X => m \in X
    BY <1>1 DEF X
  <2> QED BY <2>1, NaturalsByInduction
<1> QED BY <1>2

\* A property that is unknown or not among the first ones is what it was.
LEMMA UnreadPropertiesStay ==
  ASSUME NEW type, NEW old, NEW properties, Len(properties) \in Nat,
         NEW n \in 0..Len(properties), NEW r, ReadProperties(type, old, properties)[n] = <<r>>
  PROVE  /\ DOMAIN r = DOMAIN BeginObject(type, old)
         /\ \A name \in DOMAIN r :
              (\A i \in 1..n : properties[i][1] # name \/ name \notin Names(type)) =>
                r[name] = BeginObject(type, old)[name]
<1> DEFINE read == ReadProperties(type, old, properties)
           begun == BeginObject(type, old)
           Stays(m, v) == /\ DOMAIN v = DOMAIN begun
                          /\ \A name \in DOMAIN begun :
                               (\A i \in 1..m :
                                  properties[i][1] # name \/ name \notin Names(type)) =>
                                 v[name] = begun[name]
           X == {m \in Nat : m <= Len(properties) => \A v : read[m] = <<v>> => Stays(m, v)}
<1>1. ASSUME NEW m \in Nat, 0..(m - 1) \subseteq X, m <= Len(properties),
             NEW v, read[m] = <<v>>
      PROVE  Stays(m, v)
  <2>1. CASE m = 0
    <3>1. v = begun
      BY <1>1, <2>1, PropertiesAreReadInOrder
    <3> QED BY <3>1
  <2>2. CASE m # 0
    <3>1. m - 1 \in X /\ m - 1 \in 0..Len(properties) /\ m \in 1..Len(properties)
      BY <1>1, <2>2
    <3>2. read[m] = ReadNextProperty(type, read[m - 1], properties[m])
      BY <3>1, PropertiesAreReadInOrder
    <3>3. m \in 1..m /\ \A i \in 1..(m - 1) : i \in 1..m
      BY <2>2
    <3>4. \A w : read[m - 1] = <<w>> => Stays(m - 1, w)
      BY <3>1
    <3>5. OneOrNone(read[m - 1])
      BY <3>1, PropertiesYieldOneOrNone
    <3> HIDE DEF read, begun
    <3>6. PICK w : read[m - 1] = <<w>>
      BY <1>1, <3>2, <3>5 DEF OneOrNone, ReadNextProperty
    <3>7. Stays(m - 1, w)
      BY <3>4, <3>6
    <3>8. CASE v = w
      BY <3>3, <3>7, <3>8
    <3>9. CASE v # w
      <4> DEFINE name0 == properties[m][1]
                 field == ReadField(Properties[type][name0], w[name0], properties[m][2])
      <4>1. <<v>> = Assign(w, name0, field)
        BY <1>1, <3>2, <3>6, <3>9 DEF ReadNextProperty, ReadProperty
      <4> HIDE DEF field
      <4>2. v = [w EXCEPT ![name0] = field[1]]
        BY <4>1 DEF Assign
      <4>3. name0 \in Names(type)
        BY <1>1, <3>2, <3>6, <3>9 DEF ReadNextProperty
      <4> QED BY <3>3, <3>7, <4>2, <4>3
    <3> QED BY <3>8, <3>9
  <2> QED BY <2>1, <2>2
<1>2. Nat \subseteq X
  <2> HIDE DEF X
  <2>1. \A m \in Nat : 0..(m - 1) \subseteq X => m \in X
    BY <1>1 DEF X
  <2> QED BY <2>1, NaturalsByInduction
<1>3. Stays(n, r)
  BY <1>2
<1> QED BY <1>3

(***************************************************************************)
(* An object that has no property twice: each is read by itself.           *)
(***************************************************************************)
IsFunction(f) == f = [x \in DOMAIN f |-> f[x]]
\* What a property is read as in an object that has nothing else.
ReadAlone(type, old, property) ==
  ReadField(Properties[type][property[1]], BeginObject(type, old)[property[1]], property[2])
Fails(type, old, property) ==
  property[1] \in Names(type) /\ ReadAlone(type, old, property) = <<>>

\* Reading fails if one of the properties alone fails; otherwise the object has for each of
\* them what it is read as alone.
LEMMA PropertiesAreReadAlone ==
  ASSUME NEW type, NEW old, NEW properties, IsList(properties), NoneRepeated(properties),
         IsFunction(BeginObject(type, old)), Names(type) \subseteq DOMAIN BeginObject(type, old),
         NEW n \in 0..Len(properties)
  PROVE  LET read == ReadProperties(type, old, properties)[n]
         IN  /\ read = <<>> <=> \E i \in 1..n : Fails(type, old, properties[i])
             /\ \A r : read = <<r>> =>
                  /\ IsFunction(r)
                  /\ \A i \in 1..n : properties[i][1] \in Names(type) =>
                       r[properties[i][1]] = ReadAlone(type, old, properties[i])[1]
<1>0. Len(properties) \in Nat /\ DOMAIN properties = 1..Len(properties)
  BY DEF IsList
<1> DEFINE read == ReadProperties(type, old, properties)
           begun == BeginObject(type, old)
           Good(m) == /\ read[m] = <<>> <=> \E i \in 1..m : Fails(type, old, properties[i])
                      /\ \A r : read[m] = <<r>> =>
                           /\ IsFunction(r)
                           /\ \A i \in 1..m : properties[i][1] \in Names(type) =>
                                r[properties[i][1]] = ReadAlone(type, old, properties[i])[1]
           X == {m \in Nat : m <= Len(properties) => Good(m)}
<1>1. ASSUME NEW m \in Nat, 0..(m - 1) \subseteq X, m <= Len(properties)
      PROVE  Good(m)
  <2>1. CASE m = 0
    <3>1. read[m] = <<begun>>
      BY <2>1, <1>0, PropertiesAreReadInOrder
    <3>2. \A i \in 1..m : FALSE
      BY <2>1
    <3> HIDE DEF read, begun
    <3>3. \A r : read[m] = <<r>> => r = begun
      BY <3>1
    <3>4. IsFunction(begun)
      BY DEF begun
    <3> QED BY <3>1, <3>2, <3>3, <3>4
  <2>2. CASE m # 0
    <3>1. m - 1 \in X /\ m - 1 \in 0..Len(properties) /\ m \in 1..Len(properties)
      BY <1>1, <2>2
    <3>2. read[m] = ReadNextProperty(type, read[m - 1], properties[m])
      BY <3>1, <1>0, PropertiesAreReadInOrder
    <3>3. m \in 1..m /\ \A i \in 1..m : i \in 1..(m - 1) \/ i = m
      BY <2>2
    <3>4. Good(m - 1)
      BY <3>1
    <3>5. OneOrNone(read[m - 1])
      BY <3>1, <1>0, PropertiesYieldOneOrNone
    <3>6. \A i \in 1..(m - 1) : i \in 1..m /\ properties[i][1] # properties[m][1]
      <4> TAKE i \in 1..(m - 1)
      <4>1. i \in 1..m /\ i # m /\ i \in 1..Len(properties)
        BY <3>1
      <4> QED BY <4>1, <3>1, <1>0 DEF NoneRepeated
    <3>7. CASE read[m - 1] = <<>>
      <4>1. read[m] = <<>>
        BY <3>2, <3>7 DEF ReadNextProperty
      <4>2. \E i \in 1..(m - 1) : Fails(type, old, properties[i])
        BY <3>4, <3>7
      <4>3. \A r : read[m] # <<r>>
        BY <4>1
      <4> HIDE DEF read, begun
      <4> QED BY <4>1, <4>2, <4>3, <3>6
    <3>8. CASE read[m - 1] # <<>>
      <4>1. PICK w : read[m - 1] = <<w>>
        BY <3>5, <3>8 DEF OneOrNone
      <4>2. DOMAIN w = DOMAIN begun
            /\ \A name \in DOMAIN w :
                 (\A i \in 1..(m - 1) : properties[i][1] # name \/ name \notin Names(type)) =>
                   w[name] = begun[name]
        BY <4>1, <3>1, <1>0, UnreadPropertiesStay
      <4>3. ~ \E i \in 1..(m - 1) : Fails(type, old, properties[i])
        BY <3>4, <3>8
      <4> DEFINE property == properties[m]
                 name0 == property[1]
                 field == ReadAlone(type, old, property)
      <4>4. CASE name0 \notin Names(type)
        <5>1. read[m] = read[m - 1]
          BY <3>2, <4>4 DEF ReadNextProperty
        <5>2. ~Fails(type, old, properties[m])
          BY <4>4 DEF Fails
        <5> HIDE DEF read, begun
        <5>3. \A i \in 1..m : properties[i][1] \in Names(type) => i \in 1..(m - 1)
          BY <3>3, <4>4
        <5> QED BY <5>1, <5>2, <5>3, <3>3, <3>4, <3>8, <4>3
      <4>5. CASE name0 \in Names(type)
        <5>1. w[name0] = begun[name0] /\ name0 \in DOMAIN w
          BY <4>2, <4>5, <3>6
        <5>2. read[m] = Assign(w, name0, field)
          BY <3>2, <4>1, <4>5, <5>1 DEF ReadNextProperty, ReadProperty, ReadAlone
        <5>3. Fails(type, old, properties[m]) <=> field = <<>>
          BY <4>5 DEF Fails
        <5> HIDE DEF read, begun, field
        <5>4. CASE field = <<>>
          <6>1. read[m] = <<>>
            BY <5>2, <5>4 DEF Assign
          <6>2. \A r : read[m] # <<r>>
            BY <6>1
          <6> QED BY <6>1, <6>2, <5>3, <5>4, <3>3
        <5>5. CASE field # <<>>
          <6> DEFINE v == [w EXCEPT ![name0] = field[1]]
          <6>1. read[m] = <<v>>
            BY <5>2, <5>5 DEF Assign
          <6>2. IsFunction(w) /\ \A i \in 1..(m - 1) : properties[i][1] \in Names(type) =>
                       w[properties[i][1]] = ReadAlone(type, old, properties[i])[1]
            BY <3>4, <4>1
          <6>3. IsFunction(v) /\ v[name0] = field[1]
                /\ \A name \in DOMAIN w \ {name0} : v[name] = w[name]
            BY <6>2, <5>1 DEF IsFunction
          <6>4. Names(type) \subseteq DOMAIN w
            BY <4>2 DEF begun
          <6> HIDE DEF v
          <6>5. \A i \in 1..(m - 1) : properties[i][1] \in Names(type) =>
                       v[properties[i][1]] = ReadAlone(type, old, properties[i])[1]
            BY <6>2, <6>3, <6>4, <3>6
          <6>6. v[properties[m][1]] = ReadAlone(type, old, properties[m])[1]
            BY <6>3 DEF field
          <6>7. read[m] # <<>> /\ \A r : read[m] = <<r>> => r = v
            BY <6>1
          <6> QED BY <6>3, <6>5, <6>6, <6>7, <5>3, <5>5, <4>3, <3>3
        <5> QED BY <5>4, <5>5
      <4> QED BY <4>4, <4>5
    <3> QED BY <3>7, <3>8
  <2> QED BY <2>1, <2>2
<1>2. Nat \subseteq X
  <2> HIDE DEF X
  <2>1. \A m \in Nat : 0..(m - 1) \subseteq X => m \in X
    BY <1>1 DEF X
  <2> QED BY <2>1, NaturalsByInduction
<1>3. Good(n)
  BY <1>0, <1>2
<1> QED BY <1>3

\* The result depends on what is read for each name only: two objects with the same properties
\* in different orders, each of which is read alone as the same value, are read as the same
\* object, or both fail.
LEMMA OrderOfProperties ==
  ASSUME NEW type, NEW old, NEW a, NEW b,
         IsList(a), NoneRepeated(a), IsList(b), NoneRepeated(b), NamesIn(a) = NamesIn(b),
         IsFunction(BeginObject(type, old)), Names(type) \subseteq DOMAIN BeginObject(type, old),
         \A i \in DOMAIN a, j \in DOMAIN b :
           a[i][1] = b[j][1] /\ a[i][1] \in Names(type) =>
             ReadAlone(type, old, a[i]) = ReadAlone(type, old, b[j])
  PROVE  ReadObject(type, old, a) = ReadObject(type, old, b)
<1> DEFINE ra == ReadProperties(type, old, a)[Len(a)]
           rb == ReadProperties(type, old, b)[Len(b)]
<1>1. /\ Len(a) \in Nat /\ DOMAIN a = 1..Len(a) /\ Len(a) \in 0..Len(a)
      /\ Len(b) \in Nat /\ DOMAIN b = 1..Len(b) /\ Len(b) \in 0..Len(b)
  BY DEF IsList
<1>2. \A i \in DOMAIN a : \E j \in DOMAIN b : a[i][1] = b[j][1]
  BY DEF NamesIn
<1>3. \A j \in DOMAIN b : \E i \in DOMAIN a : a[i][1] = b[j][1]
  BY DEF NamesIn
<1>4. /\ ra = <<>> <=> \E i \in DOMAIN a : Fails(type, old, a[i])
      /\ \A r : ra = <<r>> =>
           /\ IsFunction(r)
           /\ \A i \in DOMAIN a : a[i][1] \in Names(type) =>
                r[a[i][1]] = ReadAlone(type, old, a[i])[1]
  BY <1>1, PropertiesAreReadAlone
<1>5. /\ rb = <<>> <=> \E i \in DOMAIN b : Fails(type, old, b[i])
      /\ \A r : rb = <<r>> =>
           /\ IsFunction(r)
           /\ \A i \in DOMAIN b : b[i][1] \in Names(type) =>
                r[b[i][1]] = ReadAlone(type, old, b[i])[1]
  BY <1>1, PropertiesAreReadAlone
<1>6. OneOrNone(ra) /\ OneOrNone(rb)
  BY <1>1, PropertiesYieldOneOrNone
<1>7. \A r : ra = <<r>> =>
        /\ DOMAIN r = DOMAIN BeginObject(type, old)
        /\ \A name \in DOMAIN r :
             (\A i \in DOMAIN a : a[i][1] # name \/ name \notin Names(type)) =>
               r[name] = BeginObject(type, old)[name]
  BY <1>1, UnreadPropertiesStay
<1>8. \A r : rb = <<r>> =>
        /\ DOMAIN r = DOMAIN BeginObject(type, old)
        /\ \A name \in DOMAIN r :
             (\A i \in DOMAIN b : b[i][1] # name \/ name \notin Names(type)) =>
               r[name] = BeginObject(type, old)[name]
  BY <1>1, UnreadPropertiesStay
<1> HIDE DEF ra, rb
<1>9. ra = <<>> <=> rb = <<>>
  BY <1>2, <1>3, <1>4, <1>5 DEF Fails
<1>10. ASSUME NEW r, NEW q, ra = <<r>>, rb = <<q>> PROVE r = q
  <2>1. DOMAIN r = DOMAIN q
    BY <1>7, <1>8, <1>10
  <2>2. ASSUME NEW name \in DOMAIN r PROVE r[name] = q[name]
    <3>1. CASE name \in Names(type) /\ \E i \in DOMAIN a : a[i][1] = name
      <4>1. PICK i \in DOMAIN a : a[i][1] = name
        BY <3>1
      <4>2. PICK j \in DOMAIN b : b[j][1] = name
        BY <4>1, <1>2
      <4> QED BY <3>1, <4>1, <4>2, <1>4, <1>5, <1>10
    <3>2. CASE name \notin Names(type) \/ ~ \E i \in DOMAIN a : a[i][1] = name
      <4>1. \A i \in DOMAIN a : a[i][1] # name \/ name \notin Names(type)
        BY <3>2
      <4>2. \A i \in DOMAIN b : b[i][1] # name \/ name \notin Names(type)
        BY <3>2, <1>3
      <4> QED BY <4>1, <4>2, <2>1, <2>2, <1>7, <1>8, <1>10
    <3> QED BY <3>1, <3>2
  <2>3. IsFunction(r) /\ IsFunction(q)
    BY <1>4, <1>5, <1>10
  <2> QED BY <2>1, <2>2, <2>3 DEF IsFunction
<1>11. ra = rb
  BY <1>6, <1>9, <1>10 DEF OneOrNone
<1> QED BY <1>11 DEF ReadObject, ra, rb

(***************************************************************************)
(* JSON in another order is read as the same value.                        *)
(***************************************************************************)
\* A value to read over has a field for each property, and so do the objects in it.
HasFields(type, v) ==
  type \in ObjectTypes =>
    /\ IsFunction(BeginObject(type, v))
    /\ Names(type) \subseteq DOMAIN BeginObject(type, v)
    /\ \A name \in Names(type) : ~Properties[type][name].list =>
         HasFieldsNested(Properties[type][name].type, BeginObject(type, v)[name])

\* What has to be known of the level below.
OrderDoesNotMatterNested ==
  \A type, old, a, b :
    HasFieldsNested(type, old) /\ SameNested(type, a, b) =>
      ReadNested(type, old, a) = ReadNested(type, old, b)
NewValuesHaveFieldsNested == \A type : HasFieldsNested(type, NewValue(type))

\* A field, be it a value or a list, is read as the same from JSON in another order.
LEMMA OrderInAField ==
  ASSUME OrderDoesNotMatterNested, NewValuesHaveFieldsNested,
         NEW p, NEW old, p.list \/ HasFieldsNested(p.type, old),
         NEW a, NEW b, SameField(p, a, b)
  PROVE  ReadField(p, old, a) = ReadField(p, old, b)
<1>1. CASE ~p.list
  BY <1>1 DEF OrderDoesNotMatterNested, SameField, ReadField
<1>2. CASE p.list /\ a # b
  <2>1. /\ a[1] = "array" /\ b[1] = "array" /\ DOMAIN a[2] = DOMAIN b[2]
        /\ \A i \in DOMAIN a[2] : SameNested(p.type, a[2][i], b[2][i])
    BY <1>2 DEF SameField
  <2>2. \A i \in DOMAIN a[2] : ReadNested(p.type, NewValue(p.type), a[2][i]) =
                               ReadNested(p.type, NewValue(p.type), b[2][i])
    BY <2>1 DEF OrderDoesNotMatterNested, NewValuesHaveFieldsNested
  <2> DEFINE ra == [i \in DOMAIN a[2] |-> ReadNested(p.type, NewValue(p.type), a[2][i])]
             rb == [i \in DOMAIN b[2] |-> ReadNested(p.type, NewValue(p.type), b[2][i])]
  <2>3. ra = rb
    BY <2>1, <2>2
  <2> HIDE DEF ra, rb
  <2>4. ReadList(p.type, old, a) = ReadList(p.type, old, b)
    BY <2>1, <2>3 DEF ReadList, ra, rb
  <2> QED BY <1>2, <2>4 DEF ReadField
<1> QED BY <1>1, <1>2

\* So is a value: its own properties may change places, and those of the values in it.
LEMMA OrderInAValue ==
  ASSUME OrderDoesNotMatterNested, NewValuesHaveFieldsNested,
         NEW type, NEW old, HasFields(type, old), NEW a, NEW b, SameValue(type, a, b)
  PROVE  ReadValue(type, old, a) = ReadValue(type, old, b)
<1>1. SUFFICES ASSUME a # b
               PROVE  ReadValue(type, old, a) = ReadValue(type, old, b)
  OBVIOUS
<1>2. /\ type \in ObjectTypes /\ a[1] = "object" /\ b[1] = "object"
      /\ SameObject(type, a[2], b[2])
  BY <1>1 DEF SameValue
<1> DEFINE x == a[2]
           y == b[2]
<1> HIDE DEF x, y
<1>3. SameObject(type, x, y)
  BY <1>2 DEF x, y
<1>4. ASSUME NEW i \in DOMAIN x, NEW j \in DOMAIN y, x[i][1] = y[j][1], x[i][1] \in Names(type)
      PROVE  ReadAlone(type, old, x[i]) = ReadAlone(type, old, y[j])
  <2> DEFINE p == Properties[type][x[i][1]]
             o == BeginObject(type, old)[x[i][1]]
  <2>1. SameField(p, x[i][2], y[j][2])
    BY <1>3, <1>4 DEF SameObject
  <2>2. p.list \/ HasFieldsNested(p.type, o)
    BY <1>2, <1>4 DEF HasFields
  <2> HIDE DEF p, o
  <2>3. ReadField(p, o, x[i][2]) = ReadField(p, o, y[j][2])
    BY <2>1, <2>2, OrderInAField
  <2> QED BY <1>4, <2>3 DEF ReadAlone, p, o
<1>5. ReadObject(type, old, x) = ReadObject(type, old, y)
  BY <1>2, <1>3, <1>4, OrderOfProperties DEF HasFields, SameObject
<1> QED BY <1>2, <1>5 DEF ReadValue, x, y

(***************************************************************************)
(* A written object has the properties that are to be written, and each    *)
(* one once.                                                               *)
(***************************************************************************)
\* Each name is the name of one property of the schema.
SchemaIsSound(type) ==
  /\ Len(Schema[type]) \in Nat /\ DOMAIN Schema[type] = 1..Len(Schema[type])
  /\ \A i, j \in DOMAIN Schema[type] : Schema[type][i].name = Schema[type][j].name => i = j
  /\ Names(type) = {Schema[type][i].name : i \in DOMAIN Schema[type]}
  /\ \A i \in DOMAIN Schema[type] : Properties[type][Schema[type][i].name] = Schema[type][i]

\* The properties are written one after the other: the definition has a solution.
LEMMA PropertiesAreWrittenInOrder ==
  ASSUME NEW type, NEW r, Len(Schema[type]) \in Nat
  PROVE  /\ WriteProperties(type, r)[0] = <<>>
         /\ \A n \in 1..Len(Schema[type]) :
              LET p == Schema[type][n]
              IN  WriteProperties(type, r)[n] =
                    IF IsWritten(p, r)
                    THEN Append(WriteProperties(type, r)[n - 1],
                                WriteProperty(p, Source(type, r, p.name)))
                    ELSE WriteProperties(type, r)[n - 1]
<1> DEFINE size == Len(Schema[type])
           up(n, soFar) ==
             IF IsWritten(Schema[type][n], r)
             THEN Append(soFar,
                         WriteProperty(Schema[type][n], Source(type, r, Schema[type][n].name)))
             ELSE soFar
           Solves(f, length) == f = [n \in 0..length |-> IF n = 0 THEN <<>> ELSE up(n, f[n - 1])]
           X == {length \in Nat : \E f : Solves(f, length)}
<1> HIDE DEF up
<1>1. ASSUME NEW length \in Nat, 0..(length - 1) \subseteq X PROVE length \in X
  <2>1. CASE length = 0
    <3> DEFINE f == [n \in 0..0 |-> <<>>]
    <3>1. f = [n \in 0..0 |-> IF n = 0 THEN <<>> ELSE up(n, f[n - 1])]
      OBVIOUS
    <3>2. Solves(f, length)
      BY <2>1, <3>1
    <3> QED BY <3>2
  <2>2. CASE length # 0
    <3>1. PICK g : Solves(g, length - 1)
      <4>1. length - 1 \in X
        <5> HIDE DEF X
        <5>1. length - 1 \in 0..(length - 1)
          BY <2>2
        <5> QED BY <5>1, <1>1
      <4> QED BY <4>1
    <3> DEFINE next == up(length, g[length - 1])
               f == [n \in 0..length |-> IF n = length THEN next ELSE g[n]]
    <3>2. \A n \in 0..(length - 1) : g[n] = IF n = 0 THEN <<>> ELSE up(n, g[n - 1])
      BY <3>1, <2>2
    <3>3. \A n \in 0..length : n # 0 => n - 1 \in 0..length /\ n - 1 # length
      OBVIOUS
    <3>4. \A n \in 0..length : n # 0 => f[n - 1] = g[n - 1]
      BY <3>3
    <3>5. \A n \in 0..length : n # length => n \in 0..(length - 1)
      OBVIOUS
    <3> HIDE DEF next
    <3>6. ASSUME NEW n \in 0..length PROVE f[n] = IF n = 0 THEN <<>> ELSE up(n, f[n - 1])
      <4>1. CASE n = length
        <5>1. f[n] = next
          BY <4>1
        <5> HIDE DEF f
        <5> QED BY <2>2, <4>1, <3>4, <5>1 DEF next
      <4>2. CASE n # length
        <5>1. f[n] = g[n]
          BY <4>2
        <5> HIDE DEF f
        <5> QED BY <4>2, <3>2, <3>4, <3>5, <5>1
      <4> QED BY <4>1, <4>2
    <3>7. f = [n \in 0..length |-> f[n]]
      OBVIOUS
    <3> HIDE DEF f
    <3>8. Solves(f, length)
      BY <3>6, <3>7
    <3> QED BY <3>8
  <2> QED BY <2>1, <2>2
<1>2. Nat \subseteq X
  <2> HIDE DEF X
  <2> QED BY <1>1, NaturalsByInduction
<1>3. \E f : Solves(f, size)
  BY <1>2
<1>4. Solves(WriteProperties(type, r), size)
  BY <1>3 DEF WriteProperties, up
<1> DEFINE written == WriteProperties(type, r)
<1> HIDE DEF written
<1>5. Solves(written, size)
  BY <1>4 DEF written
<1>6. written[0] = <<>> /\ \A n \in 1..size : written[n] = up(n, written[n - 1])
  <2>1. 0 \in 0..size /\ \A n \in 1..size : n \in 0..size /\ n # 0
    OBVIOUS
  <2>2. written = [n \in 0..size |-> IF n = 0 THEN <<>> ELSE up(n, written[n - 1])]
    BY <1>5
  <2> HIDE DEF size
  <2>3. \A n \in 0..size : written[n] = IF n = 0 THEN <<>> ELSE up(n, written[n - 1])
    BY <2>2
  <2> QED BY <2>1, <2>3
<1> QED BY <1>6 DEF written, up

\* The names in a written object are those of the properties to be written, each once and with
\* what it is written from.
LEMMA WrittenProperties ==
  ASSUME NEW type, NEW r, SchemaIsSound(type)
  PROVE  LET object == WriteObject(type, r)
         IN  /\ IsList(object) /\ NoneRepeated(object)
             /\ \A name : name \in NamesIn(object) <=>
                            name \in Names(type) /\ IsWritten(Properties[type][name], r)
             /\ \A i \in DOMAIN object :
                  object[i] = WriteProperty(Properties[type][object[i][1]],
                                            Source(type, r, object[i][1]))
<1> DEFINE size == Len(Schema[type])
           name0(k) == Schema[type][k].name
           isWritten(k) == IsWritten(Schema[type][k], r)
           property(k) == WriteProperty(Schema[type][k], Source(type, r, name0(k)))
           All == {property(k) : k \in 1..size}
           written == WriteProperties(type, r)
           Good(n, w) ==
             /\ w \in Seq(All)
             /\ \A i, j \in 1..Len(w) : w[i][1] = w[j][1] => i = j
             /\ \A i \in 1..Len(w) : \E k \in 1..n : isWritten(k) /\ w[i] = property(k)
             /\ \A k \in 1..n : isWritten(k) => \E i \in 1..Len(w) : w[i] = property(k)
           X == {n \in Nat : n <= size => Good(n, written[n])}
<1>1. size \in Nat /\ DOMAIN Schema[type] = 1..size
  BY DEF SchemaIsSound
<1>2. \A k \in 1..size : property(k)[1] = name0(k)
  BY DEF WriteProperty
<1>3. \A j, k \in 1..size : name0(j) = name0(k) => j = k
  BY <1>1 DEF SchemaIsSound
<1>4. written[0] = <<>>
      /\ \A n \in 1..size :
           written[n] = IF isWritten(n) THEN Append(written[n - 1], property(n)) ELSE written[n - 1]
  BY <1>1, PropertiesAreWrittenInOrder
<1> HIDE DEF written, property, isWritten, name0, size
<1>5. ASSUME NEW n \in Nat, 0..(n - 1) \subseteq X, n <= size
      PROVE  Good(n, written[n])
  <2>1. CASE n = 0
    <3>1. written[n] = <<>> /\ Len(written[n]) = 0 /\ written[n] \in Seq(All)
      BY <2>1, <1>4, EmptySeq
    <3>2. \A i \in 1..0 : FALSE
      OBVIOUS
    <3> HIDE DEF All
    <3> QED BY <2>1, <3>1, <3>2
  <2>2. CASE n # 0
    <3>1. n - 1 \in X /\ n - 1 <= size /\ n \in 1..size /\ n \in 1..n
      <4> HIDE DEF X
      <4>1. n - 1 \in 0..(n - 1) /\ n - 1 <= size /\ n \in 1..size /\ n \in 1..n
        BY <1>1, <1>5, <2>2
      <4> QED BY <4>1, <1>5
    <3> DEFINE v == written[n - 1]
    <3>2. Good(n - 1, v)
      BY <3>1
    <3>3. \A k \in 1..n : k \in 1..(n - 1) \/ k = n
      OBVIOUS
    <3>4. \A k \in 1..(n - 1) : k \in 1..n /\ k \in 1..size /\ k # n
      BY <1>1, <1>5
    <3> HIDE DEF v
    <3>5. CASE ~isWritten(n)
      <4>1. written[n] = v
        BY <3>1, <3>5, <1>4 DEF v
      <4> QED BY <4>1, <3>2, <3>3, <3>4, <3>5
    <3>6. CASE isWritten(n)
      <4> DEFINE w == Append(v, property(n))
      <4>1. written[n] = w
        BY <3>1, <3>6, <1>4 DEF v
      <4>2. property(n) \in All /\ v \in Seq(All)
        BY <3>1, <3>2
      <4>3. /\ w \in Seq(All) /\ Len(w) = Len(v) + 1 /\ Len(v) \in Nat
            /\ w[Len(v) + 1] = property(n) /\ \A i \in 1..Len(v) : w[i] = v[i]
        <5> HIDE DEF All
        <5> QED BY <4>2, AppendProperties
      <4>4. \A i \in 1..Len(w) : i \in 1..Len(v) \/ i = Len(v) + 1
        BY <4>3
      <4>5. Len(v) + 1 \in 1..Len(w) /\ \A i \in 1..Len(v) : i \in 1..Len(w)
        BY <4>3
      <4> HIDE DEF w, All
      <4>6. \A i \in 1..Len(v) : v[i][1] # property(n)[1]
        <5> TAKE i \in 1..Len(v)
        <5>1. PICK k \in 1..(n - 1) : v[i] = property(k)
          BY <3>2
        <5> QED BY <5>1, <3>1, <3>4, <1>2, <1>3
      <4>7. \A i, j \in 1..Len(w) : w[i][1] = w[j][1] => i = j
        BY <4>3, <4>4, <4>6, <3>2
      <4>8. \A i \in 1..Len(w) : \E k \in 1..n : isWritten(k) /\ w[i] = property(k)
        <5> TAKE i \in 1..Len(w)
        <5>1. CASE i = Len(v) + 1
          BY <5>1, <4>3, <3>1, <3>6
        <5>2. CASE i # Len(v) + 1
          <6>1. i \in 1..Len(v) /\ w[i] = v[i]
            BY <5>2, <4>3, <4>4
          <6>2. PICK k \in 1..(n - 1) : isWritten(k) /\ v[i] = property(k)
            BY <6>1, <3>2
          <6> QED BY <6>1, <6>2, <3>4
        <5> QED BY <5>1, <5>2
      <4>9. \A k \in 1..n : isWritten(k) => \E i \in 1..Len(w) : w[i] = property(k)
        <5> TAKE k \in 1..n
        <5> HAVE isWritten(k)
        <5>1. CASE k = n
          BY <5>1, <4>3, <4>5
        <5>2. CASE k # n
          BY <5>2, <4>3, <4>5, <3>2, <3>3
        <5> QED BY <5>1, <5>2
      <4> QED BY <4>1, <4>3, <4>7, <4>8, <4>9
    <3> QED BY <3>5, <3>6
  <2> QED BY <2>1, <2>2
<1>6. Nat \subseteq X
  <2> HIDE DEF X
  <2>1. \A n \in Nat : 0..(n - 1) \subseteq X => n \in X
    BY <1>5 DEF X
  <2> QED BY <2>1, NaturalsByInduction
<1> DEFINE object == written[size]
<1>7. Good(size, object)
  <2>1. size \in X
    <3> HIDE DEF X
    <3> QED BY <1>1, <1>6
  <2>2. size <= size
    BY <1>1
  <2> HIDE DEF Good
  <2> QED BY <2>1, <2>2
<1>8. object = WriteObject(type, r)
  BY DEF WriteObject, written, size
<1> HIDE DEF object
<1>9. DOMAIN object = 1..Len(object) /\ Len(object) \in Nat
  BY <1>7
<1>10. IsList(object)
  <2>1. object = [i \in 1..Len(object) |-> object[i]]
    BY <1>7
  <2>2. object \in [1..Len(object) -> {object[i] : i \in DOMAIN object}]
    BY <2>1, <1>9
  <2> QED BY <1>9, <2>2 DEF IsList
<1>11. \A k \in 1..size : Properties[type][name0(k)] = Schema[type][k]
  BY <1>1 DEF SchemaIsSound, name0
<1>12. \A name : name \in Names(type) <=> \E k \in 1..size : name = name0(k)
  BY <1>1 DEF SchemaIsSound, name0
<1>13. ASSUME NEW name
       PROVE  name \in NamesIn(object) <=>
                name \in Names(type) /\ IsWritten(Properties[type][name], r)
  <2>1. ASSUME name \in NamesIn(object)
        PROVE  name \in Names(type) /\ IsWritten(Properties[type][name], r)
    <3>1. PICK i \in 1..Len(object) : name = object[i][1]
      BY <2>1, <1>9 DEF NamesIn
    <3>2. PICK k \in 1..size : isWritten(k) /\ object[i] = property(k)
      BY <1>7
    <3> QED BY <3>1, <3>2, <1>2, <1>11, <1>12 DEF isWritten
  <2>2. ASSUME name \in Names(type), IsWritten(Properties[type][name], r)
        PROVE  name \in NamesIn(object)
    <3>1. PICK k \in 1..size : name = name0(k)
      BY <2>2, <1>12
    <3>2. isWritten(k)
      BY <2>2, <3>1, <1>11 DEF isWritten
    <3>3. PICK i \in 1..Len(object) : object[i] = property(k)
      BY <3>2, <1>7
    <3> QED BY <3>1, <3>3, <1>2, <1>9 DEF NamesIn
  <2> QED BY <2>1, <2>2
<1>14. ASSUME NEW i \in DOMAIN object
       PROVE  object[i] = WriteProperty(Properties[type][object[i][1]],
                                        Source(type, r, object[i][1]))
  <2>1. PICK k \in 1..size : object[i] = property(k)
    BY <1>7, <1>9
  <2>2. object[i][1] = name0(k)
    BY <2>1, <1>2
  <2> QED BY <2>1, <2>2, <1>11 DEF property
<1>15. NoneRepeated(object)
  BY <1>7, <1>9 DEF NoneRepeated
<1> QED BY <1>8, <1>10, <1>13, <1>14, <1>15

(***************************************************************************)
(* What is read has the type it should have.                               *)
(***************************************************************************)
\* A type that the level below handles; an attribute is not in a list.
FitsTheLevel(p) ==
  p.type \in NestedTypes /\ p.list \in BOOLEAN /\ (p.list => p.type # "attribute")
IsReadField(p, v) == IF p.type = "attribute" THEN IsText(v) ELSE IsField(p, v)

\* What has to be known of the level below.
YieldsOneOrNoneNested == \A type, old, json : OneOrNone(ReadNested(type, old, json))
ReadsTypedNested ==
  /\ \A type \in NestedTypes \ {"attribute"} : \A old, json, u :
       /\ old = NewValue(type) \/ IsNested(type, old)
       /\ IsTaggedNested(type, json) /\ ReadNested(type, old, json) = <<u>>
       => IsNested(type, u)
  /\ \A old, json, u :
       IsTaggedNested("attribute", json) /\ ReadNested("attribute", old, json) = <<u>> => IsText(u)

\* A list whose elements are what it says is one.
LEMMA ListOf ==
  ASSUME NEW S, NEW v \in Seq(S)
  PROVE  IsList(v) /\ DOMAIN v = 1..Len(v)
<1>1. v = [i \in 1..Len(v) |-> v[i]] /\ DOMAIN v = 1..Len(v) /\ Len(v) \in Nat
  OBVIOUS
<1>2. v \in [1..Len(v) -> {v[i] : i \in DOMAIN v}]
  BY <1>1
<1> QED BY <1>1, <1>2 DEF IsList

\* A value or a list is read with the type of its property, if what it is read over has it.
LEMMA FieldsAreTyped ==
  ASSUME YieldsOneOrNoneNested, ReadsTypedNested, NEW p, FitsTheLevel(p),
         NEW old, IsReadField(p, old), NEW json, IsTaggedField(p, json),
         NEW u, ReadField(p, old, json) = <<u>>
  PROVE  IsReadField(p, u)
<1>1. CASE ~p.list
  <2>1. IsTaggedNested(p.type, json) /\ ReadNested(p.type, old, json) = <<u>>
    BY <1>1 DEF IsTaggedField, ReadField
  <2> QED BY <1>1, <2>1 DEF ReadsTypedNested, FitsTheLevel, IsReadField, IsField
<1>2. CASE p.list
  <2>0. p.type # "attribute" /\ p.type \in NestedTypes /\ IsField(p, old)
    BY <1>2 DEF FitsTheLevel, IsReadField
  <2>1. IsList(old) /\ \A i \in DOMAIN old : IsNested(p.type, old[i])
    BY <1>2, <2>0 DEF IsField
  <2> DEFINE elements == json[2]
             read == [i \in DOMAIN elements |-> ReadNested(p.type, NewValue(p.type), elements[i])]
             values == [i \in DOMAIN elements |-> read[i][1]]
  <2>2. ReadList(p.type, old, json) = <<u>>
    BY <1>2 DEF ReadField
  <2>3. CASE u = old
    BY <2>0, <2>3 DEF IsReadField
  <2>4. CASE u # old
    <3>1. /\ json[1] = "array" /\ (\A i \in DOMAIN read : read[i] # <<>>)
          /\ u = old \o [i \in DOMAIN read |-> read[i][1]]
      BY <2>2, <2>4 DEF ReadList
    <3>2. IsList(elements) /\ \A i \in DOMAIN elements : IsTaggedNested(p.type, elements[i])
      BY <1>2, <3>1 DEF IsTaggedField
    <3> HIDE DEF elements
    <3>3. DOMAIN elements = 1..Len(elements) /\ Len(elements) \in Nat
      BY <3>2 DEF IsList
    <3>4. ASSUME NEW i \in DOMAIN elements
          PROVE  IsNested(p.type, read[i][1])
      <4>1. read[i] = ReadNested(p.type, NewValue(p.type), elements[i])
        OBVIOUS
      <4>2. read[i] # <<>>
        BY <3>1
      <4> HIDE DEF read
      <4>3. PICK w : read[i] = <<w>>
        BY <4>1, <4>2 DEF YieldsOneOrNoneNested, OneOrNone
      <4>4. ReadNested(p.type, NewValue(p.type), elements[i]) = <<w>>
        BY <4>1, <4>3
      <4>5. IsNested(p.type, w)
        BY <4>4, <3>2, <2>0 DEF ReadsTypedNested
      <4> QED BY <4>3, <4>5
    <3>5. u = old \o values
      BY <3>1
    <3> DEFINE S == {old[i] : i \in DOMAIN old} \cup {values[i] : i \in DOMAIN elements}
    <3>6. old \in Seq(S) /\ DOMAIN old = 1..Len(old) /\ Len(old) \in Nat
      <4>1. old \in Seq({old[i] : i \in DOMAIN old})
        BY <2>1 DEF IsList
      <4>2. {old[i] : i \in DOMAIN old} \subseteq S
        OBVIOUS
      <4> HIDE DEF S
      <4> QED BY <4>1, <4>2, SeqMonotonic
    <3>7. values \in Seq(S) /\ Len(values) = Len(elements)
      <4>1. values \in [1..Len(elements) -> S]
        BY <3>3
      <4> HIDE DEF S, values
      <4> QED BY <3>3, <4>1
    <3>8. \A i \in 1..Len(elements) : IsNested(p.type, values[i])
      BY <3>3, <3>4
    <3> HIDE DEF S, values
    <3>9. /\ u \in Seq(S) /\ Len(u) = Len(old) + Len(values)
          /\ \A i \in 1..Len(u) : u[i] = IF i <= Len(old) THEN old[i] ELSE values[i - Len(old)]
      <4>1. /\ old \o values \in Seq(S) /\ Len(old \o values) = Len(old) + Len(values)
            /\ \A i \in 1..Len(old \o values) :
                 (old \o values)[i] = IF i <= Len(old) THEN old[i] ELSE values[i - Len(old)]
        <5>1. old \in Seq(S) /\ values \in Seq(S)
          BY <3>6, <3>7
        <5> QED BY <5>1, ConcatProperties
      <4> QED BY <4>1, <3>5, Zenon
    <3>10. IsList(u) /\ DOMAIN u = 1..Len(u)
      BY <3>9, ListOf
    <3>11. ASSUME NEW i \in 1..Len(u) PROVE IsNested(p.type, u[i])
      <4>1. CASE i <= Len(old)
        <5>1. u[i] = old[i] /\ i \in DOMAIN old
          BY <3>6, <3>9, <4>1
        <5> QED BY <5>1, <2>1
      <4>2. CASE ~(i <= Len(old))
        <5>1. u[i] = values[i - Len(old)] /\ i - Len(old) \in 1..Len(elements)
          BY <3>3, <3>6, <3>7, <3>9, <4>2
        <5> QED BY <5>1, <3>8
      <4> QED BY <4>1, <4>2
    <3> QED BY <1>2, <2>0, <3>10, <3>11 DEF IsReadField, IsField
  <2> QED BY <2>3, <2>4
<1> QED BY <1>1, <1>2

\* So all fields of an object have their types after all of its properties, if they had at first.
LEMMA PropertiesAreTyped ==
  ASSUME YieldsOneOrNoneNested, ReadsTypedNested,
         NEW type, \A name \in Names(type) : FitsTheLevel(Properties[type][name]),
         NEW old, IsFunction(BeginObject(type, old)),
         Names(type) \subseteq DOMAIN BeginObject(type, old),
         \A name \in Names(type) :
           IsReadField(Properties[type][name], BeginObject(type, old)[name]),
         NEW properties, IsTaggedObject(type, properties),
         NEW r, ReadProperties(type, old, properties)[Len(properties)] = <<r>>
  PROVE  /\ IsFunction(r) /\ DOMAIN r = DOMAIN BeginObject(type, old)
         /\ \A name \in Names(type) : IsReadField(Properties[type][name], r[name])
         /\ \A name \in DOMAIN r \ Names(type) : r[name] = BeginObject(type, old)[name]
<1> DEFINE read == ReadProperties(type, old, properties)
           begun == BeginObject(type, old)
           p(name) == Properties[type][name]
           Typed(v) == /\ IsFunction(v) /\ DOMAIN v = DOMAIN begun
                       /\ \A name \in Names(type) : IsReadField(p(name), v[name])
           X == {m \in Nat : m <= Len(properties) => \A v : read[m] = <<v>> => Typed(v)}
<1>0. Len(properties) \in Nat /\ DOMAIN properties = 1..Len(properties)
  BY DEF IsTaggedObject, IsList
<1>1. ASSUME NEW m \in Nat, 0..(m - 1) \subseteq X, m <= Len(properties),
             NEW v, read[m] = <<v>>
      PROVE  Typed(v)
  <2>1. CASE m = 0
    <3>1. v = begun
      BY <1>0, <1>1, <2>1, PropertiesAreReadInOrder
    <3> QED BY <3>1
  <2>2. CASE m # 0
    <3>1. m - 1 \in X /\ m - 1 \in 0..Len(properties) /\ m \in 1..Len(properties)
      BY <1>1, <2>2
    <3>2. read[m] = ReadNextProperty(type, read[m - 1], properties[m])
      BY <3>1, <1>0, PropertiesAreReadInOrder
    <3>4. \A w : read[m - 1] = <<w>> => Typed(w)
      BY <3>1
    <3>5. OneOrNone(read[m - 1])
      BY <3>1, <1>0, PropertiesYieldOneOrNone
    <3>0. \A name \in Names(type) : name \in DOMAIN begun
      OBVIOUS
    <3> HIDE DEF read, begun
    <3>6. PICK w : read[m - 1] = <<w>>
      BY <1>1, <3>2, <3>5 DEF OneOrNone, ReadNextProperty
    <3>7. Typed(w)
      BY <3>4, <3>6
    <3>8. CASE v = w
      BY <3>7, <3>8
    <3>9. CASE v # w
      <4> DEFINE name0 == properties[m][1]
                 field == ReadField(p(name0), w[name0], properties[m][2])
      <4>1. <<v>> = Assign(w, name0, field) /\ name0 \in Names(type)
        BY <1>1, <3>2, <3>6, <3>9 DEF ReadNextProperty, ReadProperty
      <4>2. IsTaggedField(p(name0), properties[m][2])
        BY <4>1, <1>0, <3>1 DEF IsTaggedObject
      <4>3. FitsTheLevel(p(name0)) /\ IsReadField(p(name0), w[name0])
        BY <4>1, <3>7
      <4> HIDE DEF p
      <4>4. \A u : field = <<u>> => IsReadField(p(name0), u)
        BY <4>2, <4>3, FieldsAreTyped
      <4>5. OneOrNone(field)
        <5> HIDE DEF name0
        <5>1. OneOrNone(ReadList(p(name0).type, w[name0], properties[m][2]))
          BY DEF ReadList, OneOrNone
        <5>2. OneOrNone(ReadNested(p(name0).type, w[name0], properties[m][2]))
          BY DEF YieldsOneOrNoneNested
        <5> QED BY <5>1, <5>2 DEF ReadField
      <4> HIDE DEF field
      <4>6. v = [w EXCEPT ![name0] = field[1]] /\ field # <<>>
        BY <4>1 DEF Assign
      <4>7. IsReadField(p(name0), field[1])
        BY <4>4, <4>5, <4>6 DEF OneOrNone
      <4> HIDE DEF name0
      <4> QED BY <3>0, <3>7, <4>1, <4>6, <4>7 DEF IsFunction
    <3> QED BY <3>8, <3>9
  <2> QED BY <2>1, <2>2
<1>2. Nat \subseteq X
  <2> HIDE DEF X
  <2>1. \A m \in Nat : 0..(m - 1) \subseteq X => m \in X
    BY <1>1 DEF X
  <2> QED BY <2>1, NaturalsByInduction
<1>3. Typed(r)
  BY <1>0, <1>2
<1>4. \A name \in DOMAIN r \ Names(type) : r[name] = begun[name]
  BY <1>0, UnreadPropertiesStay
<1> QED BY <1>3, <1>4

(***************************************************************************)
(* What was written is read back.                                          *)
(***************************************************************************)
\* What has to be known of the level below: that much of a value is read back.
ReadsBackNested ==
  \A type \in NestedTypes \ {"attribute"} : \A old, v :
    /\ type \in ObjectTypes => old = NewValue(type)
    /\ IsNested(type, v) /\ MayBeWritten(type, v)
    /\ \A a \in AttributesOfNested(type, v) : IsClear(a)
    => \E u : /\ ReadNested(type, old, WriteNested(type, v)) = <<u>>
              /\ MeaningOfNested(type, u) = MeaningOfNested(type, v)
ReadsTextsBackNested ==
  \A old, text : ReadNested("attribute", old, WriteNested("attribute", text)) = <<text>>

CanBeReadOver(p, old) ==
  /\ p.list => old = <<>>
  /\ ~p.list /\ p.type \in ObjectTypes => old = NewValue(p.type)
CanBeReadBack(p, v) ==
  /\ IsField(p, v)
  /\ \A a \in AttributesOfField(p, v) : IsClear(a)
  /\ IF p.list THEN \A i \in DOMAIN v : MayBeWritten(p.type, v[i]) ELSE MayBeWritten(p.type, v)

\* A value or a list is read back with the same meaning.
LEMMA FieldsAreReadBack ==
  ASSUME ReadsBackNested, NEW p, FitsTheLevel(p), p.type # "attribute",
         NEW old, CanBeReadOver(p, old), NEW v, CanBeReadBack(p, v)
  PROVE  \E u : /\ ReadField(p, old, WriteProperty(p, v)[2]) = <<u>>
                /\ MeaningOfField(p, u) = MeaningOfField(p, v)
<1>0. p.type \in NestedTypes \ {"attribute"} /\ p.list \in BOOLEAN
  BY DEF FitsTheLevel
<1>1. CASE ~p.list
  <2>1. /\ p.type \in ObjectTypes => old = NewValue(p.type)
        /\ IsNested(p.type, v) /\ MayBeWritten(p.type, v)
        /\ \A a \in AttributesOfNested(p.type, v) : IsClear(a)
    BY <1>1 DEF CanBeReadOver, CanBeReadBack, IsField, AttributesOfField
  <2>2. PICK u : /\ ReadNested(p.type, old, WriteNested(p.type, v)) = <<u>>
                 /\ MeaningOfNested(p.type, u) = MeaningOfNested(p.type, v)
    BY <1>0, <2>1 DEF ReadsBackNested
  <2>3. WriteProperty(p, v)[2] = WriteNested(p.type, v)
    BY <1>1 DEF WriteProperty
  <2>4. ReadField(p, old, WriteProperty(p, v)[2]) = <<u>>
    BY <1>1, <2>2, <2>3 DEF ReadField
  <2>5. MeaningOfField(p, u) = MeaningOfField(p, v)
    BY <1>1, <2>2 DEF MeaningOfField
  <2> QED BY <2>4, <2>5
<1>2. CASE p.list
  <2> DEFINE elements == [i \in DOMAIN v |-> WriteNested(p.type, v[i])]
             read == [i \in DOMAIN elements |-> ReadNested(p.type, NewValue(p.type), elements[i])]
             values == [i \in DOMAIN read |-> read[i][1]]
  <2>1. IsList(v) /\ \A i \in DOMAIN v : IsNested(p.type, v[i]) /\ MayBeWritten(p.type, v[i])
    BY <1>2 DEF CanBeReadBack, IsField
  <2>2. DOMAIN v = 1..Len(v) /\ Len(v) \in Nat
    BY <2>1 DEF IsList
  <2>3. ASSUME NEW i \in DOMAIN v
        PROVE  /\ read[i] # <<>>
               /\ MeaningOfNested(p.type, values[i]) = MeaningOfNested(p.type, v[i])
    <3>1. \A a \in AttributesOfNested(p.type, v[i]) : IsClear(a)
      BY <1>2 DEF CanBeReadBack, AttributesOfField
    <3>2. PICK u : /\ ReadNested(p.type, NewValue(p.type), WriteNested(p.type, v[i])) = <<u>>
                   /\ MeaningOfNested(p.type, u) = MeaningOfNested(p.type, v[i])
      BY <1>0, <2>1, <3>1 DEF ReadsBackNested
    <3>3. read[i] = <<u>>
      BY <3>2
    <3>4. values[i] = read[i][1]
      OBVIOUS
    <3> HIDE DEF read, values
    <3> QED BY <3>2, <3>3, <3>4
  <2>4. DOMAIN values = DOMAIN v /\ DOMAIN read = DOMAIN v
    OBVIOUS
  <2>5. <<>> \o values = values
    <3>1. values \in Seq({values[i] : i \in DOMAIN v})
      <4>1. values \in [1..Len(v) -> {values[i] : i \in DOMAIN v}]
        BY <2>2
      <4> HIDE DEF values
      <4> QED BY <2>2, <4>1
    <3> HIDE DEF values
    <3> QED BY <3>1, ConcatEmptySeq
  <2>6. ReadField(p, old, WriteProperty(p, v)[2]) = <<values>>
    <3>1. WriteProperty(p, v)[2] = <<"array", elements>>
      BY <1>2 DEF WriteProperty
    <3>2. old = <<>>
      BY <1>2 DEF CanBeReadOver
    <3>3. \A i \in DOMAIN read : read[i] # <<>>
      BY <2>3, <2>4
    <3> DEFINE json == <<"array", elements>>
    <3>4. json[1] = "array" /\ json[2] = elements
      OBVIOUS
    <3> HIDE DEF json
    <3>5. ReadList(p.type, old, json) = <<old \o values>>
      BY <3>3, <3>4 DEF ReadList
    <3> HIDE DEF values, elements, read
    <3> QED BY <1>2, <2>5, <3>1, <3>2, <3>5 DEF ReadField, json
  <2>7. MeaningOfField(p, values) = MeaningOfField(p, v)
    <3>1. \A i \in DOMAIN v : MeaningOfNested(p.type, values[i]) = MeaningOfNested(p.type, v[i])
      BY <2>3
    <3> HIDE DEF values
    <3> QED BY <1>2, <2>4, <3>1 DEF MeaningOfField
  <2> QED BY <2>6, <2>7
<1> QED BY <1>0, <1>1, <1>2

\* What a field is at the end of what was written: as at the beginning if nothing was, the text
\* of an attribute, and otherwise what has the same meaning.
IsReadBack(type, old, v, q) ==
  \A name \in Names(type) :
    LET p == Properties[type][name]
    IN  IF ~IsWritten(p, v) THEN q[name] = BeginObject(type, old)[name]
        ELSE IF p.type = "attribute" THEN q[name] = Source(type, v, name)
        ELSE MeaningOfField(p, q[name]) = MeaningOfField(p, Source(type, v, name))

\* The properties that were written are read back.
LEMMA PropertiesAreReadBack ==
  ASSUME ReadsBackNested, ReadsTextsBackNested, NEW type, SchemaIsSound(type),
         \A name \in Names(type) : FitsTheLevel(Properties[type][name]),
         NEW old, IsFunction(BeginObject(type, old)),
         Names(type) \subseteq DOMAIN BeginObject(type, old),
         \A name \in Names(type) :
           CanBeReadOver(Properties[type][name], BeginObject(type, old)[name]),
         NEW v, \A name \in Names(type) :
                  LET p == Properties[type][name]
                  IN  IsWritten(p, v) /\ p.type # "attribute" =>
                        CanBeReadBack(p, Source(type, v, name))
  PROVE  LET object == WriteObject(type, v)
         IN  \E q : /\ ReadProperties(type, old, object)[Len(object)] = <<q>>
                    /\ IsFunction(q) /\ DOMAIN q = DOMAIN BeginObject(type, old)
                    /\ \A name \in DOMAIN q \ Names(type) : q[name] = BeginObject(type, old)[name]
                    /\ IsReadBack(type, old, v, q)
<1> DEFINE object == WriteObject(type, v)
           begun == BeginObject(type, old)
           p(name) == Properties[type][name]
           source(name) == Source(type, v, name)
           read == ReadProperties(type, old, object)
<1>1. /\ IsList(object) /\ NoneRepeated(object)
      /\ \A name : name \in NamesIn(object) <=> name \in Names(type) /\ IsWritten(p(name), v)
      /\ \A i \in DOMAIN object :
           object[i] = WriteProperty(p(object[i][1]), source(object[i][1]))
  BY WrittenProperties
<1> HIDE DEF object
<1>2. Len(object) \in Nat /\ DOMAIN object = 1..Len(object) /\ Len(object) \in 0..Len(object)
  BY <1>1 DEF IsList
<1>3. ASSUME NEW i \in DOMAIN object
      PROVE  LET name == object[i][1]
             IN  /\ name \in Names(type) /\ IsWritten(p(name), v)
                 /\ ReadAlone(type, old, object[i]) # <<>>
                 /\ IF p(name).type = "attribute"
                    THEN ReadAlone(type, old, object[i])[1] = source(name)
                    ELSE MeaningOfField(p(name), ReadAlone(type, old, object[i])[1])
                         = MeaningOfField(p(name), source(name))
  <2> DEFINE name == object[i][1]
             pn == p(name)
             sn == source(name)
             bn == begun[name]
             alone == ReadAlone(type, old, object[i])
  <2>1. name \in Names(type) /\ IsWritten(pn, v)
    BY <1>1 DEF NamesIn
  <2>2. object[i][2] = WriteProperty(pn, sn)[2]
    BY <1>1
  <2>3. alone = ReadField(pn, bn, WriteProperty(pn, sn)[2])
    BY <2>2 DEF ReadAlone
  <2>4. FitsTheLevel(pn) /\ CanBeReadOver(pn, bn)
    BY <2>1
  <2>5. pn.type # "attribute" => CanBeReadBack(pn, sn)
    BY <2>1
  <2> HIDE DEF pn, sn, bn, alone, name
  <2>6. CASE pn.type = "attribute"
    <3>1. ~pn.list
      BY <2>4, <2>6 DEF FitsTheLevel
    <3>2. alone = <<sn>>
      BY <2>3, <2>6, <3>1 DEF ReadField, WriteProperty, ReadsTextsBackNested
    <3> QED BY <2>1, <2>6, <3>2 DEF pn, sn, alone, name
  <2>7. CASE pn.type # "attribute"
    <3>1. PICK u : alone = <<u>> /\ MeaningOfField(pn, u) = MeaningOfField(pn, sn)
      BY <2>3, <2>4, <2>5, <2>7, FieldsAreReadBack
    <3>2. alone # <<>> /\ MeaningOfField(pn, alone[1]) = MeaningOfField(pn, sn)
      BY <3>1
    <3> QED BY <2>1, <2>7, <3>2 DEF pn, sn, alone, name
  <2> QED BY <2>6, <2>7
<1>4. /\ read[Len(object)] = <<>> <=> \E i \in 1..Len(object) : Fails(type, old, object[i])
      /\ \A q : read[Len(object)] = <<q>> =>
           /\ IsFunction(q)
           /\ \A i \in 1..Len(object) : object[i][1] \in Names(type) =>
                q[object[i][1]] = ReadAlone(type, old, object[i])[1]
  BY <1>1, <1>2, PropertiesAreReadAlone
<1>5. OneOrNone(read[Len(object)])
  BY <1>2, PropertiesYieldOneOrNone
<1>6. \A q : read[Len(object)] = <<q>> =>
        /\ DOMAIN q = DOMAIN begun
        /\ \A name \in DOMAIN q :
             (\A i \in 1..Len(object) : object[i][1] # name \/ name \notin Names(type)) =>
               q[name] = begun[name]
  BY <1>2, UnreadPropertiesStay
<1>7. Names(type) \subseteq DOMAIN begun
  OBVIOUS
<1> HIDE DEF read, begun
<1>8. PICK q : read[Len(object)] = <<q>>
  BY <1>2, <1>3, <1>4, <1>5 DEF OneOrNone, Fails
<1>9. IsFunction(q) /\ DOMAIN q = DOMAIN begun
      /\ \A name \in DOMAIN q \ Names(type) : q[name] = begun[name]
  BY <1>4, <1>6, <1>8
<1>10. ASSUME NEW name \in Names(type)
       PROVE  IF ~IsWritten(p(name), v) THEN q[name] = begun[name]
              ELSE IF p(name).type = "attribute" THEN q[name] = source(name)
              ELSE MeaningOfField(p(name), q[name]) = MeaningOfField(p(name), source(name))
  <2>1. CASE IsWritten(p(name), v)
    <3>1. PICK i \in DOMAIN object : name = object[i][1]
      BY <1>1, <2>1 DEF NamesIn
    <3>2. q[name] = ReadAlone(type, old, object[i])[1]
      BY <1>2, <1>4, <1>8, <3>1
    <3> HIDE DEF p, source
    <3> QED BY <2>1, <1>3, <3>1, <3>2
  <2>2. CASE ~IsWritten(p(name), v)
    <3>1. \A i \in 1..Len(object) : object[i][1] # name
      BY <1>1, <1>2, <2>2 DEF NamesIn
    <3>2. q[name] = begun[name]
      BY <1>6, <1>7, <1>8, <3>1
    <3> QED BY <2>2, <3>2
  <2> QED BY <2>1, <2>2
<1>11. IsReadBack(type, old, v, q)
  BY <1>10 DEF IsReadBack, begun
<1> QED BY <1>8, <1>9, <1>11 DEF read, object, begun

(***************************************************************************)
(* The objects of a regular type: all fields are properties, and each is   *)
(* read and written by itself.  Only flags are not.                        *)
(***************************************************************************)
IsRecord(type, r) == r = [name \in DOMAIN NewValue(type) |-> r[name]]
\* What is known of each property.
IsRegularProperty(type, name) ==
  LET p == Properties[type][name]
  IN  /\ name \in DOMAIN NewValue(type)
      /\ name \in AttributeOf(type) <=> p.type = "attribute"
      /\ p.list => p.always /\ NewValue(type)[name] = <<>> /\ \A x : MayBeWritten(p.type, x)
      /\ ~p.list /\ p.type \in ObjectTypes =>
           p.type = "Rollout" /\ ~p.always /\ NewValue(type)[name] = NewValue(p.type)
      /\ p.type # "attribute" => \A v : Source(type, v, name) = v[name]
      /\ \A x : ~p.list /\ (p.always \/ IsSet(p, x)) => MayBeWritten(p.type, x)
      /\ p.type \notin ObjectTypes \cup {"attribute"} =>
           \A x : ~p.always /\ ~IsSet(p, x) /\ IsScalar(p.type, x) => x = NewValue(type)[name]
\* An object begins with what it is read over, or with zero values; and a null is read as that.
Begins(type) ==
  \A old : old = [name \in DOMAIN NewValue(type) |-> old[name]] =>
    LET begun == BeginObject(type, old)
    IN  /\ begun = [name \in DOMAIN NewValue(type) |-> begun[name]]
        /\ \A name \in Names(type) : IF name \in AttributeOf(type) THEN begun[name] = <<>>
                                     ELSE begun[name] \in {old[name], NewValue(type)[name]}
NullsAreTyped(type) ==
  \A old, u :
    old = [name \in DOMAIN NewValue(type) |-> old[name]] /\ ReadNullObject(type, old) = <<u>> =>
      /\ u = [name \in DOMAIN NewValue(type) |-> u[name]]
      /\ \A name \in Names(type) : u[name] \in {old[name], NewValue(type)[name]}
      /\ IsConsistent(type, u)
\* At the end the attributes are interpreted.
Ends(type) ==
  \A q : q = [name \in DOMAIN NewValue(type) |-> q[name]] =>
    EndObject(type, q) = [name \in DOMAIN NewValue(type) |->
                            IF name \in AttributeOf(type)
                            THEN SetAttrNameOrRef(q[name], KindOf(type, q)) ELSE q[name]]
EndsTyped(type) ==
  \A old, q :
    /\ old = [name \in DOMAIN NewValue(type) |-> old[name]]
    /\ q = [name \in DOMAIN NewValue(type) |-> q[name]]
    /\ \A name \in AttributeOf(type) : IsText(q[name])
    /\ \A name \in DOMAIN q \ Names(type) : q[name] = BeginObject(type, old)[name]
    => /\ \A name \in AttributeOf(type) : IsScalar("attribute", EndObject(type, q)[name])
       /\ IsConsistent(type, EndObject(type, q))
\* An attribute means what it did, if its kind is what it was.
AttributesAreReadBack(type) ==
  \A name \in AttributeOf(type) : \A v, q :
    /\ IsScalar("attribute", v[name]) /\ IsConsistent(type, v)
    /\ IsClear(<<KindOf(type, v), v[name]>>)
    /\ KindOf(type, q) = KindOf(type, v)
    /\ \/ q[name] = Source(type, v, name)
       \/ q[name] = <<>> /\ ~Properties[type][name].always
            /\ ~IsSet(Properties[type][name], v[name])
    => MeaningOfScalar("attribute", SetAttrNameOrRef(q[name], KindOf(type, q)))
       = MeaningOfScalar("attribute", v[name])
KindIsAField(type) ==
  AttributeOf(type) # {} =>
    \E kind \in Names(type) :
      /\ Properties[type][kind].type = "string" /\ ~Properties[type][kind].list
      /\ \A r : KindOf(type, r) = r[kind]
\* What no property tells is what it was, if the object is written at all.
HiddenAreReadBack(type) ==
  \A v : IsConsistent(type, v) /\ MayBeWritten(type, v) =>
    \A name \in DOMAIN NewValue(type) \ Names(type) :
      BeginObject(type, NewValue(type))[name] = v[name]
IsRegular(type) ==
  /\ NewValue(type) = [name \in DOMAIN NewValue(type) |-> NewValue(type)[name]]
  /\ Names(type) = Fields(type) /\ AttributeOf(type) \subseteq Names(type)
  /\ \A name \in Names(type) : Properties[type][name].name = name /\ IsRegularProperty(type, name)
  /\ Begins(type) /\ NullsAreTyped(type) /\ Ends(type) /\ EndsTyped(type)
  /\ AttributesAreReadBack(type) /\ KindIsAField(type) /\ HiddenAreReadBack(type)
  /\ type = "Rollout" => "variations" \in Names(type) /\ Properties[type]["variations"].list

\* What has to be known of the scalars, also of those of the level below.
ScalarsAreNested ==
  \A type, v : type \notin ObjectTypes =>
    /\ IsNested(type, v) <=> IsScalar(type, v)
    /\ MeaningOfNested(type, v) = MeaningOfScalar(type, v)
NullsYieldOneOrNone == \A type, old : OneOrNone(ReadNullObject(type, old))

\* An object is read as one or none.
LEMMA ObjectsYieldOneOrNone ==
  ASSUME NullsYieldOneOrNone, NEW type \in ObjectTypes, NEW old, NEW json
  PROVE  OneOrNone(ReadValue(type, old, json))
<1>1. CASE json[1] = "null"
  <2>1. ReadValue(type, old, json) = ReadNullObject(type, old)
    BY <1>1 DEF ReadValue
  <2> QED BY <2>1 DEF NullsYieldOneOrNone
<1>2. CASE json[1] = "object"
  <2> DEFINE read == ReadProperties(type, old, json[2])[Len(json[2])]
  <2>1. ReadValue(type, old, json) = Ended(type, read)
    BY <1>2 DEF ReadValue, ReadObject
  <2> QED BY <2>1 DEF Ended, OneOrNone
<1>3. CASE json[1] \notin {"null", "object"}
  BY <1>3 DEF ReadValue, OneOrNone
<1> QED BY <1>1, <1>2, <1>3

\* An object of a regular type is read with the type it should have.
LEMMA ObjectsAreTyped ==
  ASSUME YieldsOneOrNoneNested, ReadsTypedNested, ScalarsAreNested, IsText(<<>>),
         "attribute" \notin ObjectTypes,
         NEW type \in ObjectTypes, IsRegular(type),
         \A name \in Names(type) : FitsTheLevel(Properties[type][name]),
         IsObject(type, NewValue(type)),
         NEW old, old = NewValue(type) \/ IsObject(type, old),
         NEW json, IsTaggedValue(type, json), NEW u, ReadValue(type, old, json) = <<u>>
  PROVE  IsObject(type, u)
<1>1. IsObject(type, old) /\ IsRecord(type, old)
  BY DEF IsObject, IsRecord
<1>2. CASE json[1] = "null"
  <2>1. ReadNullObject(type, old) = <<u>>
    BY <1>2 DEF ReadValue
  <2>2. /\ u = [name \in DOMAIN NewValue(type) |-> u[name]]
        /\ \A name \in Names(type) : u[name] \in {old[name], NewValue(type)[name]}
        /\ IsConsistent(type, u)
    BY <1>1, <2>1 DEF IsRegular, NullsAreTyped, IsRecord
  <2>3. \A name \in Fields(type) : IsField(Properties[type][name], u[name])
    BY <1>1, <2>2 DEF IsRegular, IsObject
  <2> QED BY <2>2, <2>3 DEF IsObject
<1>3. CASE json[1] = "object"
  <2> DEFINE properties == json[2]
             begun == BeginObject(type, old)
             read == ReadProperties(type, old, properties)[Len(properties)]
  <2>1. Ended(type, read) = <<u>> /\ IsTaggedObject(type, properties)
    BY <1>3 DEF ReadValue, ReadObject, IsTaggedValue
  <2>2. Len(properties) \in Nat /\ Len(properties) \in 0..Len(properties)
    BY <2>1 DEF IsTaggedObject, IsList
  <2>3. OneOrNone(read)
    BY <2>2, PropertiesYieldOneOrNone
  <2>4. /\ begun = [name \in DOMAIN NewValue(type) |-> begun[name]]
        /\ \A name \in Names(type) : IF name \in AttributeOf(type) THEN begun[name] = <<>>
                                     ELSE begun[name] \in {old[name], NewValue(type)[name]}
    BY <1>1 DEF IsRegular, Begins, IsRecord
  <2> HIDE DEF properties
  <2>5. PICK q : read = <<q>>
    <3> HIDE DEF read
    <3> QED BY <2>1, <2>3 DEF Ended, OneOrNone
  <2>6. u = EndObject(type, q)
    <3> HIDE DEF read
    <3>1. Ended(type, read) = <<EndObject(type, q)>>
      BY <2>5 DEF Ended
    <3> QED BY <2>1, <3>1
  <2>7. DOMAIN begun = DOMAIN NewValue(type)
    <3> HIDE DEF begun
    <3> QED BY <2>4
  <2>8. IsFunction(begun) /\ Names(type) \subseteq DOMAIN begun
    BY <2>4, <2>7 DEF IsFunction, IsRegular, IsRegularProperty
  <2>9. \A name \in Names(type) : IsReadField(Properties[type][name], begun[name])
    <3> TAKE name \in Names(type)
    <3>1. IsField(Properties[type][name], old[name])
          /\ IsField(Properties[type][name], NewValue(type)[name])
      BY <1>1 DEF IsRegular, IsObject
    <3>2. name \in AttributeOf(type) <=> Properties[type][name].type = "attribute"
      BY DEF IsRegular, IsRegularProperty
    <3> HIDE DEF begun
    <3> QED BY <2>4, <3>1, <3>2 DEF IsReadField
  <2>10. /\ IsFunction(q) /\ DOMAIN q = DOMAIN begun
         /\ \A name \in Names(type) : IsReadField(Properties[type][name], q[name])
         /\ \A name \in DOMAIN q \ Names(type) : q[name] = begun[name]
    BY <2>1, <2>5, <2>8, <2>9, PropertiesAreTyped
  <2>11. q = [name \in DOMAIN NewValue(type) |-> q[name]]
    BY <2>7, <2>10 DEF IsFunction
  <2>12. \A name \in AttributeOf(type) : IsText(q[name])
    BY <2>10 DEF IsRegular, IsRegularProperty, IsReadField
  <2>13. /\ \A name \in AttributeOf(type) : IsScalar("attribute", u[name])
         /\ IsConsistent(type, u)
    <3>1. EndsTyped(type)
      BY DEF IsRegular
    <3> QED BY <1>1, <2>6, <2>10, <2>11, <2>12, <3>1 DEF EndsTyped, IsRecord
  <2>14. u = [name \in DOMAIN NewValue(type) |->
                IF name \in AttributeOf(type)
                THEN SetAttrNameOrRef(q[name], KindOf(type, q)) ELSE q[name]]
    BY <2>6, <2>11 DEF IsRegular, Ends
  <2>15. \A name \in Fields(type) : IsField(Properties[type][name], u[name])
    <3> TAKE name \in Fields(type)
    <3>1. /\ name \in Names(type) /\ name \in DOMAIN NewValue(type)
          /\ name \in AttributeOf(type) <=> Properties[type][name].type = "attribute"
      BY DEF IsRegular, IsRegularProperty
    <3>2. CASE name \notin AttributeOf(type)
      <4>1. u[name] = q[name]
        BY <2>14, <3>1, <3>2
      <4> QED BY <2>10, <3>1, <3>2, <4>1 DEF IsReadField
    <3>3. CASE name \in AttributeOf(type)
      <4>1. IsNested("attribute", u[name])
        BY <2>13, <3>3 DEF ScalarsAreNested
      <4>2. ~Properties[type][name].list
        BY <3>1, <3>3 DEF FitsTheLevel
      <4> QED BY <3>1, <3>3, <4>1, <4>2 DEF IsField
    <3> QED BY <3>2, <3>3
  <2>16. u = [name \in DOMAIN NewValue(type) |-> u[name]]
    BY <2>14
  <2> QED BY <2>13, <2>15, <2>16 DEF IsObject
<1>4. CASE json[1] \notin {"null", "object"}
  <2>1. ReadValue(type, old, json) = <<>> /\ <<u>> # <<>>
    BY <1>4 DEF ReadValue
  <2> QED BY <2>1
<1> QED BY <1>2, <1>3, <1>4


\* What has to be known of rollouts, if the level below has them: without variations they are
\* nothing.
EmptyRolloutsMeanNothing ==
  "Rollout" \in NestedTypes =>
    \A r, p : p.type = "Rollout" /\ ~p.list /\ IsNested("Rollout", r) /\ ~IsSet(p, r) =>
      MeaningOfNested("Rollout", r) = <<>>

\* An object of a regular type is read back with the same meaning.
LEMMA ObjectsAreReadBack ==
  ASSUME ReadsBackNested, ReadsTextsBackNested, ScalarsAreNested, EmptyRolloutsMeanNothing,
         "attribute" \notin ObjectTypes, "string" \notin ObjectTypes,
         \A t, v : t \notin ObjectTypes \cup {"attribute"} => MeaningOfScalar(t, v) = v,
         NEW type \in ObjectTypes, IsRegular(type), SchemaIsSound(type),
         \A name \in Names(type) : FitsTheLevel(Properties[type][name]),
         IsObject(type, NewValue(type)),
         \A p : p.type = "Rollout" /\ ~p.list => ~IsSet(p, NewValue("Rollout")),
         NEW v, IsObject(type, v), MayBeWritten(type, v),
         \A a \in AttributesOf(type, v) : IsClear(a)
  PROVE  \E u : /\ ReadValue(type, NewValue(type), WriteValue(type, v)) = <<u>>
                /\ MeaningOf(type, u) = MeaningOf(type, v)
<1> DEFINE old == NewValue(type)
           begun == BeginObject(type, old)
           p(name) == Properties[type][name]
           object == WriteObject(type, v)
<1>1. /\ Names(type) = Fields(type) /\ AttributeOf(type) \subseteq Names(type)
      /\ \A name \in Names(type) : p(name).name = name /\ IsRegularProperty(type, name)
      /\ \A name \in Names(type) : FitsTheLevel(p(name))
  BY DEF IsRegular
<1>2. /\ IsRecord(type, v) /\ IsConsistent(type, v)
      /\ \A name \in Names(type) : IsField(p(name), v[name])
  BY <1>1 DEF IsObject, IsRecord
<1>3. IsRecord(type, old) /\ \A name \in Names(type) : IsField(p(name), old[name])
  BY <1>1 DEF IsObject, IsRecord
<1>4. /\ begun = [name \in DOMAIN old |-> begun[name]]
      /\ \A name \in Names(type) :
           begun[name] = IF name \in AttributeOf(type) THEN <<>> ELSE old[name]
  <2>1. /\ begun = [name \in DOMAIN NewValue(type) |-> begun[name]]
        /\ \A name \in Names(type) : IF name \in AttributeOf(type) THEN begun[name] = <<>>
                                     ELSE begun[name] \in {old[name], NewValue(type)[name]}
    BY <1>3 DEF IsRegular, Begins, IsRecord
  <2> HIDE DEF begun
  <2> QED BY <2>1
<1>5. IsFunction(begun) /\ DOMAIN begun = DOMAIN old /\ Names(type) \subseteq DOMAIN begun
  <2>1. Names(type) \subseteq DOMAIN old
    BY <1>1 DEF IsRegularProperty
  <2> HIDE DEF begun
  <2> QED BY <2>1, <1>4 DEF IsFunction
<1>6. \A name \in Names(type) : CanBeReadOver(p(name), begun[name])
  <2> TAKE name \in Names(type)
  <2>1. FitsTheLevel(p(name)) /\ IsRegularProperty(type, name)
    BY <1>1
  <2>2. begun[name] = IF name \in AttributeOf(type) THEN <<>> ELSE old[name]
    BY <1>4
  <2> HIDE DEF begun
  <2> QED BY <2>1, <2>2 DEF CanBeReadOver, FitsTheLevel, IsRegularProperty
<1>7. ASSUME NEW name \in Names(type), IsWritten(p(name), v), p(name).type # "attribute"
      PROVE  CanBeReadBack(p(name), v[name])
  <2>1. IsField(p(name), v[name])
    BY <1>2
  <2>2. \A a \in AttributesOfField(p(name), v[name]) : IsClear(a)
    BY <1>1 DEF AttributesOf
  <2>3. p(name).always \/ IsSet(p(name), v[name])
    BY <1>1, <1>7 DEF IsWritten
  <2>4. IsRegularProperty(type, name) /\ p(name).list \in BOOLEAN
    BY <1>1 DEF FitsTheLevel
  <2>5. IF p(name).list THEN \A i \in DOMAIN v[name] : MayBeWritten(p(name).type, v[name][i])
                        ELSE MayBeWritten(p(name).type, v[name])
    BY <2>3, <2>4 DEF IsRegularProperty
  <2> QED BY <2>1, <2>2, <2>5 DEF CanBeReadBack
<1>8. \A name \in Names(type) : p(name).type # "attribute" => Source(type, v, name) = v[name]
  BY <1>1 DEF IsRegularProperty
<1>9. PICK q : /\ ReadProperties(type, old, object)[Len(object)] = <<q>>
               /\ IsFunction(q) /\ DOMAIN q = DOMAIN begun
               /\ \A name \in DOMAIN q \ Names(type) : q[name] = begun[name]
               /\ IsReadBack(type, old, v, q)
  BY <1>1, <1>5, <1>6, <1>7, <1>8, PropertiesAreReadBack
<1> DEFINE ended == EndObject(type, q)
<1>10. ReadValue(type, old, WriteValue(type, v)) = <<ended>>
  <2> DEFINE json == WriteValue(type, v)
  <2>1. json[1] = "object" /\ json[2] = object
    BY DEF WriteValue
  <2>2. ReadObject(type, old, object) = <<EndObject(type, q)>>
    BY <1>9 DEF ReadObject, Ended
  <2> HIDE DEF json, object
  <2>3. ReadValue(type, old, json) = ReadObject(type, old, json[2])
    BY <2>1 DEF ReadValue
  <2> QED BY <2>1, <2>2, <2>3 DEF json
<1>11. q = [name \in DOMAIN old |-> q[name]]
  BY <1>5, <1>9 DEF IsFunction
<1>12. ended = [name \in DOMAIN old |-> IF name \in AttributeOf(type)
                                    THEN SetAttrNameOrRef(q[name], KindOf(type, q)) ELSE q[name]]
  BY <1>11 DEF IsRegular, Ends
<1> HIDE DEF ended
<1>13. ASSUME NEW name \in Names(type), p(name).type # "attribute"
       PROVE  MeaningOfField(p(name), q[name]) = MeaningOfField(p(name), v[name])
  <2>1. CASE IsWritten(p(name), v)
    <3> HIDE DEF p
    <3> QED BY <1>8, <1>9, <1>13, <2>1 DEF IsReadBack, p
  <2>2. CASE ~IsWritten(p(name), v)
    <3>1. q[name] = old[name]
      <4>1. name \notin AttributeOf(type)
        BY <1>1, <1>13 DEF IsRegularProperty
      <4>2. q[name] = begun[name]
        BY <1>9, <2>2 DEF IsReadBack
      <4> QED BY <4>1, <4>2, <1>4
    <3>2. ~p(name).always /\ ~IsSet(p(name), v[name])
      BY <1>1, <2>2 DEF IsWritten
    <3>3. FitsTheLevel(p(name)) /\ IsRegularProperty(type, name)
          /\ IsField(p(name), v[name]) /\ IsField(p(name), old[name])
      BY <1>1, <1>2, <1>3
    <3>4. CASE p(name).list
      BY <3>2, <3>3, <3>4 DEF IsRegularProperty
    <3>5. CASE ~p(name).list /\ p(name).type \in ObjectTypes
      <4>1. /\ p(name).type = "Rollout" /\ old[name] = NewValue("Rollout")
            /\ "Rollout" \in NestedTypes
        BY <3>3, <3>5 DEF IsRegularProperty, FitsTheLevel
      <4>2. ~IsSet(p(name), old[name])
        BY <3>5, <4>1
      <4>3. IsNested("Rollout", v[name]) /\ IsNested("Rollout", old[name])
        BY <3>3, <3>5, <4>1 DEF IsField
      <4>4. MeaningOfNested("Rollout", v[name]) = <<>>
            /\ MeaningOfNested("Rollout", old[name]) = <<>>
        BY <3>2, <3>5, <4>1, <4>2, <4>3 DEF EmptyRolloutsMeanNothing
      <4> QED BY <3>1, <3>5, <4>1, <4>4 DEF MeaningOfField
    <3>6. CASE ~p(name).list /\ p(name).type \notin ObjectTypes
      <4>1. IsScalar(p(name).type, v[name])
        BY <3>3, <3>6 DEF IsField, ScalarsAreNested
      <4>2. v[name] = old[name]
        BY <1>13, <3>2, <3>3, <3>6, <4>1 DEF IsRegularProperty
      <4> QED BY <3>1, <4>2
    <3> QED BY <3>4, <3>5, <3>6
  <2> QED BY <2>1, <2>2
<1>14. ASSUME AttributeOf(type) # {} PROVE KindOf(type, q) = KindOf(type, v)
  <2>1. PICK kind \in Names(type) :
          /\ p(kind).type = "string" /\ ~p(kind).list /\ \A r : KindOf(type, r) = r[kind]
    BY <1>14 DEF IsRegular, KindIsAField
  <2>2. MeaningOfField(p(kind), q[kind]) = MeaningOfField(p(kind), v[kind])
    BY <1>13, <2>1
  <2>3. \A x : MeaningOfField(p(kind), x) = x
    <3>1. \A x : MeaningOfNested("string", x) = MeaningOfScalar("string", x)
      BY DEF ScalarsAreNested
    <3>2. \A x : MeaningOfScalar("string", x) = x
      OBVIOUS
    <3> QED BY <2>1, <3>1, <3>2 DEF MeaningOfField
  <2> QED BY <2>1, <2>2, <2>3
<1>15. ASSUME NEW name \in AttributeOf(type)
       PROVE  MeaningOfField(p(name), ended[name]) = MeaningOfField(p(name), v[name])
  <2>1. name \in Names(type) /\ p(name).type = "attribute" /\ ~p(name).list
        /\ name \in DOMAIN old
    BY <1>1, <1>15 DEF IsRegularProperty, FitsTheLevel
  <2>2. IsScalar("attribute", v[name])
    BY <1>2, <2>1 DEF IsField, ScalarsAreNested
  <2>3. IsClear(<<KindOf(type, v), v[name]>>)
    BY DEF AttributesOf
  <2>4. KindOf(type, q) = KindOf(type, v)
    BY <1>14
  <2>5. \/ q[name] = Source(type, v, name)
        \/ q[name] = <<>> /\ ~p(name).always /\ ~IsSet(p(name), v[name])
    <3>1. CASE IsWritten(p(name), v)
      BY <1>9, <2>1, <3>1 DEF IsReadBack
    <3>2. CASE ~IsWritten(p(name), v)
      <4>1. q[name] = begun[name]
        BY <1>9, <2>1, <3>2 DEF IsReadBack
      <4>2. begun[name] = <<>>
        BY <1>4, <2>1
      <4>3. ~p(name).always /\ ~IsSet(p(name), v[name])
        BY <1>1, <2>1, <3>2 DEF IsWritten
      <4> QED BY <4>1, <4>2, <4>3
    <3> QED BY <3>1, <3>2
  <2>6. AttributesAreReadBack(type)
    BY DEF IsRegular
  <2>7. MeaningOfScalar("attribute", SetAttrNameOrRef(q[name], KindOf(type, q)))
        = MeaningOfScalar("attribute", v[name])
    BY <1>2, <2>2, <2>3, <2>4, <2>5, <2>6 DEF AttributesAreReadBack
  <2>8. ended[name] = SetAttrNameOrRef(q[name], KindOf(type, q))
    BY <1>12, <2>1
  <2> QED BY <2>1, <2>7, <2>8 DEF MeaningOfField, ScalarsAreNested
<1>16. ASSUME NEW name \in Names(type)
       PROVE  MeaningOfField(p(name), ended[name]) = MeaningOfField(p(name), v[name])
  <2>1. CASE name \in AttributeOf(type)
    BY <1>15, <2>1
  <2>2. CASE name \notin AttributeOf(type)
    <3>1. name \in DOMAIN old /\ p(name).type # "attribute"
      BY <1>1, <2>2 DEF IsRegularProperty
    <3>2. ended[name] = q[name]
      BY <1>12, <2>2, <3>1
    <3> QED BY <1>13, <3>1, <3>2
  <2> QED BY <2>1, <2>2
<1>17. ASSUME NEW name \in DOMAIN old \ Names(type)
       PROVE  ended[name] = v[name]
  <2>1. ended[name] = q[name]
    BY <1>1, <1>12, <1>17
  <2>2. q[name] = begun[name]
    BY <1>5, <1>9, <1>17
  <2>3. begun[name] = v[name]
    BY <1>2, <1>17 DEF IsRegular, HiddenAreReadBack
  <2> QED BY <2>1, <2>2, <2>3
<1>18. DOMAIN ended = DOMAIN old /\ DOMAIN v = DOMAIN old
  <2>1. v = [name \in DOMAIN old |-> v[name]]
    BY <1>2 DEF IsRecord
  <2> HIDE DEF old
  <2> QED BY <1>12, <2>1
<1>19. type = "Rollout" => (DOMAIN ended["variations"] = {} <=> DOMAIN v["variations"] = {})
  <2> SUFFICES ASSUME type = "Rollout"
               PROVE  DOMAIN ended["variations"] = {} <=> DOMAIN v["variations"] = {}
    OBVIOUS
  <2>1. "variations" \in Names(type) /\ p("variations").list
    BY DEF IsRegular
  <2>2. MeaningOfField(p("variations"), ended["variations"])
        = MeaningOfField(p("variations"), v["variations"])
    BY <1>16, <2>1
  <2>3. \A x : DOMAIN MeaningOfField(p("variations"), x) = DOMAIN x
    BY <2>1 DEF MeaningOfField
  <2> QED BY <2>2, <2>3
<1>20. MeaningOf(type, ended) = MeaningOf(type, v)
  <2> HIDE DEF old
  <2>1. \A name \in DOMAIN old :
          (IF name \in Fields(type) THEN MeaningOfField(p(name), ended[name]) ELSE ended[name])
          = (IF name \in Fields(type) THEN MeaningOfField(p(name), v[name]) ELSE v[name])
    BY <1>1, <1>16, <1>17
  <2>2. MeaningOfObject(type, ended) = MeaningOfObject(type, v)
    BY <1>18, <1>19, <2>1 DEF MeaningOfObject
  <2> QED BY <2>2 DEF MeaningOf
<1> QED BY <1>10, <1>20

(***************************************************************************)
(* So what is known of the level below is known of this level.             *)
(***************************************************************************)
\* What has to be known of the scalars of the given types.
ScalarsAreRead(scalars) ==
  /\ \A type, old, json : OneOrNone(ReadScalar(type, old, json))
  /\ \A type \in scalars \ {"attribute"} : \A old, json, u :
       /\ old = NewValue(type) \/ IsScalar(type, old)
       /\ IsTaggedScalar(type, json) /\ ReadScalar(type, old, json) = <<u>>
       => IsScalar(type, u)
  /\ \A old, json, u :
       IsTaggedScalar("attribute", json) /\ ReadScalar("attribute", old, json) = <<u>> => IsText(u)
  /\ \A type \in scalars \ {"attribute"} : \A old, v :
       IsScalar(type, v) /\ MayBeWritten(type, v) =>
         ReadScalar(type, old, WriteScalar(type, v)) = <<v>>
  /\ \A old, text : ReadScalar("attribute", old, WriteScalar("attribute", text)) = <<text>>
  /\ IsText(<<>>) /\ {"attribute", "string"} \cap ObjectTypes = {} /\ scalars \cap ObjectTypes = {}
  /\ \A type, v : type \notin ObjectTypes \cup {"attribute"} => MeaningOfScalar(type, v) = v
\* What has to be known of an object of a regular type, and of its zero value.
IsSound(type) ==
  /\ type \in ObjectTypes /\ IsRegular(type) /\ SchemaIsSound(type)
  /\ \A name \in Names(type) : FitsTheLevel(Properties[type][name])
  /\ IsConsistent(type, NewValue(type))
  /\ \A name \in Names(type) :
       LET p == Properties[type][name]
       IN  ~p.list /\ p.type \notin ObjectTypes => IsScalar(p.type, NewValue(type)[name])
NestedIsSound ==
  /\ YieldsOneOrNoneNested /\ ReadsTypedNested /\ ReadsBackNested /\ ReadsTextsBackNested
  /\ ScalarsAreNested /\ EmptyRolloutsMeanNothing
  /\ "Rollout" \in NestedTypes => IsNested("Rollout", NewValue("Rollout"))
  /\ \A p : p.type = "Rollout" /\ ~p.list => ~IsSet(p, NewValue("Rollout"))

\* The zero value of an object has the object's type.
LEMMA NewValuesAreTyped ==
  ASSUME NestedIsSound, NEW type, IsSound(type)
  PROVE  IsObject(type, NewValue(type))
<1> DEFINE zero == NewValue(type)
<1>1. zero = [name \in DOMAIN zero |-> zero[name]] /\ IsConsistent(type, zero)
      /\ Fields(type) = Names(type)
  BY DEF IsSound, IsRegular
<1> HIDE DEF zero
<1>2. ASSUME NEW name \in Names(type)
      PROVE  IsField(Properties[type][name], zero[name])
  <2> DEFINE p == Properties[type][name]
  <2>1. IsRegularProperty(type, name) /\ FitsTheLevel(p)
    BY DEF IsSound, IsRegular
  <2>2. CASE p.list
    <3>1. zero[name] = <<>>
      BY <2>1, <2>2 DEF IsRegularProperty, zero
    <3>2. IsList(<<>>) /\ \A i \in DOMAIN <<>> : FALSE
      BY DEF IsList
    <3> HIDE DEF p
    <3> QED BY <2>2, <3>1, <3>2 DEF IsField, p
  <2>3. CASE ~p.list /\ p.type \in ObjectTypes
    <3>1. p.type = "Rollout" /\ zero[name] = NewValue("Rollout") /\ "Rollout" \in NestedTypes
      BY <2>1, <2>3 DEF IsRegularProperty, FitsTheLevel, zero
    <3> HIDE DEF p
    <3> QED BY <2>3, <3>1 DEF IsField, NestedIsSound, p
  <2>4. CASE ~p.list /\ p.type \notin ObjectTypes
    <3>1. IsScalar(p.type, zero[name])
      BY <2>4 DEF IsSound, zero
    <3> HIDE DEF p
    <3> QED BY <2>4, <3>1 DEF IsField, NestedIsSound, ScalarsAreNested, p
  <2> QED BY <2>2, <2>3, <2>4
<1> QED BY <1>1, <1>2 DEF IsObject, zero

\* One value of this level is read or none; it has its type; and what was written is read back.
YieldsOneOrNone == \A type, old, json : OneOrNone(ReadValue(type, old, json))
ReadsTyped(types) ==
  /\ \A type \in types \ {"attribute"} : \A old, json, u :
       /\ old = NewValue(type) \/ IsValue(type, old)
       /\ IsTaggedValue(type, json) /\ ReadValue(type, old, json) = <<u>>
       => IsValue(type, u)
  /\ \A old, json, u :
       IsTaggedValue("attribute", json) /\ ReadValue("attribute", old, json) = <<u>> => IsText(u)
ReadsBack(types) ==
  /\ \A type \in types \ {"attribute"} : \A old, v :
       /\ type \in ObjectTypes => old = NewValue(type)
       /\ IsValue(type, v) /\ MayBeWritten(type, v)
       /\ \A a \in AttributesOf(type, v) : IsClear(a)
       => \E u : /\ ReadValue(type, old, WriteValue(type, v)) = <<u>>
                 /\ MeaningOf(type, u) = MeaningOf(type, v)
  /\ \A old, text : ReadValue("attribute", old, WriteValue("attribute", text)) = <<text>>
ScalarsAreValues ==
  \A type, v : type \notin ObjectTypes =>
    /\ IsValue(type, v) <=> IsScalar(type, v)
    /\ MeaningOf(type, v) = MeaningOfScalar(type, v)

\* It is all known of this level, if it is known of the level below, of the scalars and of the
\* objects that come with this level.
LEMMA LevelsNest ==
  ASSUME NestedIsSound, NullsYieldOneOrNone, NEW scalars, ScalarsAreRead(scalars),
         NEW objects, \A type \in objects : IsSound(type)
  PROVE  /\ YieldsOneOrNone /\ ReadsTyped(scalars \cup objects) /\ ReadsBack(scalars \cup objects)
         /\ ScalarsAreValues
         /\ \A type \in objects : IsValue(type, NewValue(type))
<1>1. YieldsOneOrNone
  <2>1. ASSUME NEW type, NEW old, NEW json PROVE OneOrNone(ReadValue(type, old, json))
    <3>1. CASE type \in ObjectTypes
      BY <3>1, ObjectsYieldOneOrNone
    <3>2. CASE type \notin ObjectTypes
      BY <3>2 DEF ReadValue, ScalarsAreRead
    <3> QED BY <3>1, <3>2
  <2> QED BY <2>1 DEF YieldsOneOrNone
<1>2. ScalarsAreValues
  BY DEF ScalarsAreValues, IsValue, MeaningOf
<1>3. \A type \in objects : type \in ObjectTypes /\ IsObject(type, NewValue(type))
  BY NewValuesAreTyped DEF IsSound
<1>4. ReadsTyped(scalars \cup objects)
  <2>1. ASSUME NEW type \in (scalars \cup objects) \ {"attribute"}, NEW old, NEW json, NEW u,
               old = NewValue(type) \/ IsValue(type, old),
               IsTaggedValue(type, json), ReadValue(type, old, json) = <<u>>
        PROVE  IsValue(type, u)
    <3>1. CASE type \in objects
      <4>1. IsSound(type) /\ type \in ObjectTypes /\ IsObject(type, NewValue(type))
        BY <1>3, <3>1
      <4>2. old = NewValue(type) \/ IsObject(type, old)
        BY <2>1, <4>1 DEF IsValue
      <4>3. IsText(<<>>) /\ "attribute" \notin ObjectTypes
        BY DEF ScalarsAreRead
      <4>4. YieldsOneOrNoneNested /\ ReadsTypedNested /\ ScalarsAreNested
        BY DEF NestedIsSound
      <4>5. IsRegular(type) /\ \A name \in Names(type) : FitsTheLevel(Properties[type][name])
        BY <4>1 DEF IsSound
      <4>6. IsObject(type, u)
        BY <2>1, <4>1, <4>2, <4>3, <4>4, <4>5, ObjectsAreTyped
      <4> QED BY <4>1, <4>6 DEF IsValue
    <3>2. CASE type \in scalars
      <4>1. type \notin ObjectTypes
        BY <3>2 DEF ScalarsAreRead
      <4>2. /\ old = NewValue(type) \/ IsScalar(type, old)
            /\ IsTaggedScalar(type, json) /\ ReadScalar(type, old, json) = <<u>>
        BY <2>1, <4>1 DEF IsValue, IsTaggedValue, ReadValue
      <4> QED BY <2>1, <3>2, <4>1, <4>2 DEF ScalarsAreRead, IsValue
    <3> QED BY <2>1, <3>1, <3>2
  <2>2. ASSUME NEW old, NEW json, NEW u,
               IsTaggedValue("attribute", json), ReadValue("attribute", old, json) = <<u>>
        PROVE  IsText(u)
    BY <2>2 DEF ScalarsAreRead, IsTaggedValue, ReadValue
  <2> QED BY <2>1, <2>2 DEF ReadsTyped
<1>5. ReadsBack(scalars \cup objects)
  <2>1. ASSUME NEW type \in (scalars \cup objects) \ {"attribute"}, NEW old, NEW v,
               type \in ObjectTypes => old = NewValue(type),
               IsValue(type, v), MayBeWritten(type, v),
               \A a \in AttributesOf(type, v) : IsClear(a)
        PROVE  \E u : /\ ReadValue(type, old, WriteValue(type, v)) = <<u>>
                      /\ MeaningOf(type, u) = MeaningOf(type, v)
    <3>1. CASE type \in objects
      <4>1. IsSound(type) /\ type \in ObjectTypes /\ IsObject(type, NewValue(type))
        BY <1>3, <3>1
      <4>2. IsObject(type, v) /\ old = NewValue(type)
        BY <2>1, <4>1 DEF IsValue
      <4>3. /\ "attribute" \notin ObjectTypes /\ "string" \notin ObjectTypes
            /\ \A t, w : t \notin ObjectTypes \cup {"attribute"} => MeaningOfScalar(t, w) = w
        BY DEF ScalarsAreRead
      <4>4. /\ ReadsBackNested /\ ReadsTextsBackNested /\ ScalarsAreNested
            /\ EmptyRolloutsMeanNothing
            /\ \A p : p.type = "Rollout" /\ ~p.list => ~IsSet(p, NewValue("Rollout"))
        BY DEF NestedIsSound
      <4>5. /\ IsRegular(type) /\ SchemaIsSound(type)
            /\ \A name \in Names(type) : FitsTheLevel(Properties[type][name])
        BY <4>1 DEF IsSound
      <4>6. \E u : /\ ReadValue(type, NewValue(type), WriteValue(type, v)) = <<u>>
                   /\ MeaningOf(type, u) = MeaningOf(type, v)
        BY <2>1, <4>1, <4>2, <4>3, <4>4, <4>5, ObjectsAreReadBack
      <4> QED BY <4>2, <4>6
    <3>2. CASE type \in scalars
      <4>1. type \notin ObjectTypes
        BY <3>2 DEF ScalarsAreRead
      <4>2. ReadScalar(type, old, WriteScalar(type, v)) = <<v>>
        BY <2>1, <3>2, <4>1 DEF ScalarsAreRead, IsValue
      <4>3. ReadValue(type, old, WriteValue(type, v)) = <<v>>
        BY <4>1, <4>2 DEF ReadValue, WriteValue
      <4> QED BY <4>3
    <3> QED BY <2>1, <3>1, <3>2
  <2>2. ASSUME NEW old, NEW text
        PROVE  ReadValue("attribute", old, WriteValue("attribute", text)) = <<text>>
    BY DEF ScalarsAreRead, ReadValue, WriteValue
  <2> QED BY <2>1, <2>2 DEF ReadsBack
<1> QED BY <1>1, <1>2, <1>3, <1>4, <1>5 DEF IsValue

(***************************************************************************)
(* What a level leaves out when it writes.                                 *)
(***************************************************************************)
\* What is written of the given types leaves out nothing but what may be.
WritesCompletely(types) ==
  \A type \in types : \A v : Omissions(type, WriteValue(type, v)) \subseteq MayBeOmitted
NestedIsComplete ==
  \A type \in NestedTypes : \A v :
    OmissionsOfNested(type, WriteNested(type, v)) \subseteq MayBeOmitted
\* What has to be known of the properties of a type.
IsCompleteSchema(type) ==
  /\ type \in ObjectTypes /\ SchemaIsSound(type)
  /\ \A name \in Names(type) :
       LET p == Properties[type][name]
       IN  /\ p.name = name /\ FitsTheLevel(p)
           /\ p.always \/ <<type, name>> \in MayBeOmitted

\* A field that is written leaves out nothing but what may be, at any depth.
LEMMA FieldsAreComplete ==
  ASSUME NestedIsComplete, NEW p, FitsTheLevel(p), NEW v
  PROVE  OmissionsOfField(p, WriteProperty(p, v)[2]) \subseteq MayBeOmitted
<1>1. p.type \in NestedTypes
  BY DEF FitsTheLevel
<1>2. \A w : OmissionsOfNested(p.type, WriteNested(p.type, w)) \subseteq MayBeOmitted
  BY <1>1 DEF NestedIsComplete
<1>3. CASE p.list
  <2> DEFINE list == [i \in DOMAIN v |-> WriteNested(p.type, v[i])]
  <2>1. WriteProperty(p, v)[2] = <<"array", list>>
    BY <1>3 DEF WriteProperty
  <2>2. \A i \in DOMAIN list : OmissionsOfNested(p.type, list[i]) \subseteq MayBeOmitted
    BY <1>2
  <2> HIDE DEF list
  <2>3. OmissionsOfField(p, <<"array", list>>)
        = UNION {OmissionsOfNested(p.type, list[i]) : i \in DOMAIN list}
    BY <1>3 DEF OmissionsOfField
  <2> QED BY <2>1, <2>2, <2>3
<1>4. CASE ~p.list
  <2>1. WriteProperty(p, v)[2] = WriteNested(p.type, v)
    BY <1>4 DEF WriteProperty
  <2> QED BY <1>2, <1>4, <2>1 DEF OmissionsOfField
<1> QED BY <1>3, <1>4

\* An object has every property that may not be left out, and its lists are arrays.
LEMMA PropertiesAreThere ==
  ASSUME NEW type, IsCompleteSchema(type), NEW v, NEW name \in Names(type),
         ~IsThere(Properties[type][name], WriteObject(type, v))
  PROVE  <<type, name>> \in MayBeOmitted
<1> DEFINE object == WriteObject(type, v)
           p == Properties[type][name]
<1>1. p.name = name /\ (p.always \/ <<type, name>> \in MayBeOmitted) /\ SchemaIsSound(type)
  BY DEF IsCompleteSchema
<1>2. /\ \A n : n \in NamesIn(object) <=> n \in Names(type) /\ IsWritten(Properties[type][n], v)
      /\ \A i \in DOMAIN object :
           object[i] = WriteProperty(Properties[type][object[i][1]], Source(type, v, object[i][1]))
  BY <1>1, WrittenProperties
<1>3. ~IsThere(p, object)
  OBVIOUS
<1> HIDE DEF object
<1>4. ASSUME p.always PROVE FALSE
  <2>1. name \in NamesIn(object)
    BY <1>2, <1>4 DEF IsWritten
  <2>2. PICK i \in DOMAIN object : object[i][1] = name
    BY <2>1 DEF NamesIn
  <2>3. object[i] = WriteProperty(p, Source(type, v, name))
    BY <1>2, <2>2
  <2>4. p.list => object[i][2][1] = "array"
    BY <2>3 DEF WriteProperty
  <2> QED BY <1>1, <1>3, <2>2, <2>4 DEF IsThere
<1> QED BY <1>1, <1>4

\* So this level leaves out nothing but what may be, if the level below does.
LEMMA LevelsAreComplete ==
  ASSUME NestedIsComplete, NEW scalars, scalars \cap ObjectTypes = {},
         NEW objects, \A type \in objects : IsCompleteSchema(type)
  PROVE  WritesCompletely(scalars \cup objects)
<1>1. ASSUME NEW type \in objects, NEW v
      PROVE  Omissions(type, WriteValue(type, v)) \subseteq MayBeOmitted
  <2> DEFINE object == WriteObject(type, v)
             Missing == {<<type, name>> : name \in
                           {n \in Names(type) : ~IsThere(Properties[type][n], object)}}
             Known == {j \in DOMAIN object : object[j][1] \in Names(type)}
             field(i) == OmissionsOfField(Properties[type][object[i][1]], object[i][2])
  <2>1. IsCompleteSchema(type) /\ type \in ObjectTypes
    BY DEF IsCompleteSchema
  <2>2. \A i \in DOMAIN object :
          object[i] = WriteProperty(Properties[type][object[i][1]], Source(type, v, object[i][1]))
    BY <2>1, WrittenProperties DEF IsCompleteSchema
  <2>3. \A n \in Names(type) :
          ~IsThere(Properties[type][n], object) => <<type, n>> \in MayBeOmitted
    BY <2>1, PropertiesAreThere
  <2>4. WriteValue(type, v) = <<"object", object>>
    BY <2>1 DEF WriteValue
  <2> HIDE DEF object
  <2>5. Omissions(type, WriteValue(type, v)) = OmissionsOfObject(type, object)
    BY <2>1, <2>4 DEF Omissions
  <2>6. OmissionsOfObject(type, object) = Missing \cup UNION {field(i) : i \in Known}
    BY Zenon DEF OmissionsOfObject
  <2>7. Missing \subseteq MayBeOmitted
    BY <2>3
  <2>8. ASSUME NEW i \in Known PROVE field(i) \subseteq MayBeOmitted
    <3>1. FitsTheLevel(Properties[type][object[i][1]])
      BY <2>1 DEF IsCompleteSchema
    <3>2. object[i][2]
          = WriteProperty(Properties[type][object[i][1]], Source(type, v, object[i][1]))[2]
      BY <2>2
    <3> QED BY <3>1, <3>2, FieldsAreComplete
  <2> HIDE DEF Missing, Known, field
  <2>9. UNION {field(i) : i \in Known} \subseteq MayBeOmitted
    BY <2>8
  <2> QED BY <2>5, <2>6, <2>7, <2>9
<1>2. ASSUME NEW type \in scalars, NEW v
      PROVE  Omissions(type, WriteValue(type, v)) \subseteq MayBeOmitted
  BY DEF Omissions
<1> QED BY <1>1, <1>2 DEF WritesCompletely

==============================================================================
