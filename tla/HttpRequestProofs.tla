-------------------------- MODULE HttpRequestProofs --------------------------
(***************************************************************************)
(* Proofs about HttpRequest.tla, for any methods, any number of headers    *)
(* and parameters, and any cuts; and about RedisClient.tla, which main.cpp *)
(* uses in lookUpRedis, the stage after the parser's.                      *)
(*                                                                         *)
(* The lemmas up to BlankLine say where the tokens of a request are, so    *)
(* that what a test of buf[i] finds tells how far the parser is.  HttpInv  *)
(* holds for every request; OneInv follows one that was not cut.           *)
(***************************************************************************)
EXTENDS HttpRequest, FiniteSetTheorems, TLAPS

(* The tokens of a request. *)
Token == Letter \cup (Sign \ {"0"}) \cup Names \cup Values

(* The tokens of method and URL without two, the header lines and the      *)
(* parameters of q.                                                        *)
Sizes(q, e, n, m) ==
    Len(q.method) + Len(q.url) = e + 2 /\ q.headers = n /\ Len(q.params) = m

(* s is a followed by b. *)
Joined(a, b, s) ==
    /\ s \in Seq(Token) /\ Len(s) = Len(a) + Len(b)
    /\ \A k \in 1 .. Len(a) : s[k] = a[k]
    /\ \A k \in 1 .. Len(b) : s[Len(a) + k] = b[k]

(* The operator \o on sequences of tokens. *)
LEMMA Concat ==
    ASSUME NEW a \in Seq(Token), NEW b \in Seq(Token)
    PROVE  Joined(a, b, a \o b)
BY DEF Joined

(* The words the parser compares with. *)
LEMMA Words ==
    /\ Word("GET") = <<"GE", "T">> /\ Word("POST") = <<"PO", "ST">>
    /\ Word("HTTP") = <<"HT", "TP">>
<1>1. Word("GET") = <<"GE", "T">> /\ Word("POST") = <<"PO", "ST">>
  BY Zenon DEF Word
<1>2. Word("HTTP") = <<"HT", "TP">>
  BY Zenon DEF Word
<1> QED
  BY <1>1, <1>2

(* Names and values are none of the tokens that the parser looks for. *)
LEMMA Distinct ==
    ASSUME Fits, NEW v \in Names \cup Values
    PROVE  v \notin Letter /\ v \notin Sign /\ v \in Token
<1>1. (Names \cup Values) \cap (Letter \cup Sign) = {}
  BY DEF Fits
<1> QED
  BY <1>1 DEF Token

(* The request line up to its second space. *)
Front(q) == q.method \o <<"SP">> \o q.url

LEMMA FrontLayout ==
    ASSUME Fits, NEW q \in Request
    PROVE  LET w == Len(q.method)
               l == Len(q.url)
           IN  /\ Front(q) \in Seq(Token) /\ Len(Front(q)) = w + 1 + l
               /\ w \in Nat /\ w > 0 /\ l \in 1 .. 2
               /\ \A k \in 1 .. w : Front(q)[k] = q.method[k] /\ q.method[k] \in Letter
               /\ Front(q)[w + 1] = "SP"
               /\ \A k \in 1 .. l : Front(q)[w + 1 + k] = q.url[k] /\ q.url[k] \in {"SLASH", "x"}
<1> DEFINE a == q.method \o <<"SP">>
<1>1. q.method \in Seq(Letter) /\ q.method # <<>>
  BY DEF Request, Fits
<1>2. PICK w \in Nat : /\ w = Len(q.method) /\ w > 0 /\ q.method \in Seq(Token)
                       /\ \A k \in 1 .. w : q.method[k] \in Letter
  <2>1. \A k \in 1 .. Len(q.method) : q.method[k] \in Letter
    BY <1>1
  <2>2. Len(q.method) \in Nat /\ Len(q.method) > 0
    BY <1>1
  <2>3. Letter \subseteq Token
    BY DEF Token
  <2>4. q.method \in Seq(Token)
    BY <1>1, <2>3
  <2> QED
    BY <2>1, <2>2, <2>4
<1>3. PICK l \in 1 .. 2 : /\ q.url \in Seq(Token) /\ Len(q.url) = l
                          /\ \A k \in 1 .. l : q.url[k] \in {"SLASH", "x"}
  <2>1. q.url = <<"SLASH">> \/ q.url = <<"SLASH", "x">>
    BY DEF Request
  <2>2. CASE q.url = <<"SLASH">>
    BY <2>2 DEF Token, Letter, Sign
  <2>3. CASE q.url = <<"SLASH", "x">>
    BY <2>3 DEF Token, Letter, Sign
  <2> QED
    BY <2>1, <2>2, <2>3
<1>4. <<"SP">> \in Seq(Token) /\ Len(<<"SP">>) = 1 /\ <<"SP">>[1] = "SP"
  BY DEF Token, Sign
<1>5. Joined(q.method, <<"SP">>, a)
  BY <1>2, <1>4, Concat
<1> HIDE DEF a
<1>6. /\ a \in Seq(Token) /\ Len(a) = w + 1
      /\ \A k \in 1 .. w : a[k] = q.method[k]
      /\ a[w + 1] = "SP"
  <2>1. /\ a \in Seq(Token) /\ Len(a) = w + 1
        /\ \A k \in 1 .. w : a[k] = q.method[k]
    BY <1>2, <1>4, <1>5 DEF Joined
  <2>2. \A k \in 1 .. 1 : a[w + k] = <<"SP">>[k]
    BY <1>2, <1>4, <1>5 DEF Joined
  <2> QED
    BY <1>4, <2>1, <2>2
<1>7. Joined(a, q.url, Front(q))
  <2>1. Front(q) = a \o q.url
    BY DEF Front, a
  <2> QED
    BY <1>3, <1>6, <2>1, Concat
<1>8. /\ Front(q) \in Seq(Token) /\ Len(Front(q)) = w + 1 + l
      /\ \A k \in 1 .. w + 1 : Front(q)[k] = a[k]
      /\ \A k \in 1 .. l : Front(q)[w + 1 + k] = q.url[k]
  BY <1>2, <1>3, <1>6, <1>7 DEF Joined
<1>9. /\ \A k \in 1 .. w : Front(q)[k] = q.method[k]
      /\ Front(q)[w + 1] = "SP"
  BY <1>6, <1>8
<1> QED
  BY <1>2, <1>3, <1>8, <1>9

(* Letters of GET and POST are in the method only, and no CR is there. *)
LEMMA FrontMarks ==
    ASSUME Fits, NEW q \in Request, NEW k \in 1 .. Len(Front(q))
    PROVE  /\ Front(q)[k] \in {"GE", "T", "PO", "ST"} =>
                 k <= Len(q.method) /\ Front(q)[k] = q.method[k]
           /\ Front(q)[k] # "CR"
<1>1. PICK w \in Nat, l \in Nat :
         /\ w = Len(q.method) /\ l = Len(q.url) /\ Len(Front(q)) = w + 1 + l
         /\ \A j \in 1 .. w : Front(q)[j] = q.method[j] /\ q.method[j] \in Letter
         /\ Front(q)[w + 1] = "SP"
         /\ \A j \in 1 .. l : Front(q)[w + 1 + j] = q.url[j] /\ q.url[j] \in {"SLASH", "x"}
  <2>1. Len(q.method) \in Nat /\ Len(q.url) \in Nat
    BY FrontLayout
  <2> QED
    BY <2>1, FrontLayout
<1>0. k \in 1 .. w + 1 + l
  BY <1>1
<1>2. CASE k <= w
  <2>1. k \in 1 .. w
    BY <1>0, <1>2
  <2>2. Front(q)[k] = q.method[k] /\ q.method[k] \in Letter
    BY <1>1, <2>1
  <2> QED
    BY <1>1, <1>2, <2>2 DEF Letter
<1>3. CASE k = w + 1
  BY <1>1, <1>3
<1>4. CASE k > w + 1
  <2>1. k - (w + 1) \in 1 .. l /\ w + 1 + (k - (w + 1)) = k
    BY <1>0, <1>4
  <2>2. Front(q)[k] \in {"SLASH", "x"}
    <3>1. PICK j \in 1 .. l : w + 1 + j = k
      BY <2>1
    <3> QED
      BY <1>1, <3>1
  <2> QED
    BY <2>2
<1> QED
  BY <1>0, <1>2, <1>3, <1>4

(* The request line, token by token. *)
LEMMA UptoLayout ==
    ASSUME Fits, NEW q \in Request, NEW e \in Nat, Len(q.method) + Len(q.url) = e + 2
    PROVE  /\ Upto(q) \in Seq(Token) /\ Len(Upto(q)) = 10 + e /\ Len(Front(q)) = 3 + e
           /\ \A k \in 1 .. 3 + e : Upto(q)[k] = Front(q)[k]
           /\ \A k \in 1 .. 7 : Upto(q)[3 + e + k] = Version[k]
<1>1. Front(q) \in Seq(Token) /\ Len(Front(q)) = 3 + e
  <2>1. PICK w, l : w = Len(q.method) /\ l = Len(q.url)
    OBVIOUS
  <2>2. w \in Nat /\ l \in 1 .. 2 /\ Front(q) \in Seq(Token)
    BY <2>1, FrontLayout
  <2>4. Len(Front(q)) = w + 1 + l
    BY <2>1, FrontLayout, Zenon
  <2>3. w + l = e + 2
    BY <2>1
  <2> QED
    BY <2>2, <2>3, <2>4
<1>2. Version \in Seq(Token) /\ Len(Version) = 7
  BY DEF Version, Token, Letter, Sign
<1>3. Joined(Front(q), Version, Upto(q))
  <2>1. Upto(q) = Front(q) \o Version
    BY DEF Upto, Front
  <2> QED
    BY <1>1, <1>2, <2>1, Concat
<1> QED
  BY <1>1, <1>2, <1>3 DEF Joined

(* The header lines, of three tokens each. *)
LEMMA LinesLayout ==
    ASSUME NEW n \in Nat, NEW q, q.headers = n
    PROVE  /\ HeaderLines(q) \in Seq(Token) /\ Len(HeaderLines(q)) = 3 * n
           /\ \A k \in 1 .. 3 * n : /\ k % 3 = 1 => HeaderLines(q)[k] = "x"
                                    /\ k % 3 = 2 => HeaderLines(q)[k] = "CR"
                                    /\ k % 3 = 0 => HeaderLines(q)[k] = "LF"
<1>1. \A k \in 1 .. 3 * n : (k - 1) % 3 \in 0 .. 2
  OBVIOUS
<1>2. Header[1] = "x" /\ Header[2] = "CR" /\ Header[3] = "LF"
  BY DEF Header
<1>3. \A j \in 1 .. 3 : Header[j] \in Token
  BY <1>2 DEF Token, Letter, Sign
<1>4. HeaderLines(q) = [k \in 1 .. 3 * n |-> Header[((k - 1) % 3) + 1]]
  BY DEF HeaderLines
<1>5. \A k \in 1 .. 3 * n : Header[((k - 1) % 3) + 1] \in Token
  BY <1>1, <1>3
<1>6. \A k \in 1 .. 3 * n : /\ k % 3 = 1 => (k - 1) % 3 = 0
                            /\ k % 3 = 2 => (k - 1) % 3 = 1
                            /\ k % 3 = 0 => (k - 1) % 3 = 2
  OBVIOUS
<1>7. 3 * n \in Nat
  OBVIOUS
<1> QED
  BY <1>2, <1>4, <1>5, <1>6, <1>7

(* The parameters, of four tokens each. *)
LEMMA ParamsLayout ==
    ASSUME Fits, NEW n \in Nat, NEW q, q.params \in Seq(Names \X Values), Len(q.params) = n
    PROVE  LET p == Params(q)
           IN  /\ p \in Seq(Token) /\ Len(p) = 4 * n
               /\ \A k \in 1 .. 4 * n :
                     /\ k = 1 => p[k] = "x"
                     /\ k > 1 /\ k % 4 = 1 => p[k] = "AND"
                     /\ k % 4 = 2 => p[k] = q.params[(k \div 4) + 1][1] /\ p[k] \in Names
                     /\ k % 4 = 3 => p[k] = "EQ"
                     /\ k % 4 = 0 => p[k] = q.params[k \div 4][2] /\ p[k] \in Values
<1> DEFINE F(k) == CASE k = 1 -> "x" [] k > 1 /\ k % 4 = 1 -> "AND"
                     [] k % 4 = 2 -> q.params[(k \div 4) + 1][1]
                     [] k % 4 = 3 -> "EQ" [] OTHER -> q.params[k \div 4][2]
<1>1. \A j \in 1 .. n : q.params[j][1] \in Names /\ q.params[j][2] \in Values
  OBVIOUS
<1>2. Params(q) = [k \in 1 .. 4 * n |-> F(k)]
  BY Zenon DEF Params
<1>3. ASSUME NEW k \in 1 .. 4 * n
      PROVE  /\ k = 1 => F(k) = "x"
             /\ k > 1 /\ k % 4 = 1 => F(k) = "AND"
             /\ k % 4 = 2 => F(k) = q.params[(k \div 4) + 1][1]
             /\ k % 4 = 3 => F(k) = "EQ"
             /\ k % 4 = 0 => F(k) = q.params[k \div 4][2]
  <2>1. /\ k = 1 => ~ (k > 1 /\ k % 4 = 1) /\ k % 4 # 2 /\ k % 4 # 3 /\ k % 4 # 0
        /\ k > 1 /\ k % 4 = 1 => k # 1 /\ k % 4 # 2 /\ k % 4 # 3 /\ k % 4 # 0
        /\ k % 4 = 2 => k # 1 /\ ~ (k > 1 /\ k % 4 = 1) /\ k % 4 # 3
        /\ k % 4 = 3 => k # 1 /\ ~ (k > 1 /\ k % 4 = 1) /\ k % 4 # 2
        /\ k % 4 = 0 => k # 1 /\ ~ (k > 1 /\ k % 4 = 1) /\ k % 4 # 2 /\ k % 4 # 3
    OBVIOUS
  <2> QED
    BY <2>1, Zenon
<1>4. \A k \in 1 .. 4 * n : k % 4 \in {0, 2, 3} \/ k = 1 \/ (k > 1 /\ k % 4 = 1)
  OBVIOUS
<1>5. \A k \in 1 .. 4 * n : /\ k % 4 = 2 => (k \div 4) + 1 \in 1 .. n
                            /\ k % 4 = 0 => k \div 4 \in 1 .. n
  OBVIOUS
<1> HIDE DEF F
<1>6. \A k \in 1 .. 4 * n : /\ k % 4 = 2 => F(k) \in Names
                            /\ k % 4 = 0 => F(k) \in Values
  BY <1>1, <1>3, <1>5
<1>7. \A k \in 1 .. 4 * n : F(k) \in Token
  BY <1>3, <1>4, <1>6 DEF Token, Letter, Sign
<1> QED
  BY <1>2, <1>3, <1>6, <1>7

(* Every request has these three sizes. *)
LEMMA SizesOf ==
    ASSUME Fits, NEW q \in Request
    PROVE  /\ \E e \in Nat, n \in Nat, m \in Nat : Sizes(q, e, n, m)
           /\ q.params \in Seq(Names \X Values)
<1>1. q.headers \in Nat /\ q.params \in Seq(Names \X Values)
  BY DEF Request, Fits
<1>2. Len(q.params) \in Nat
  BY <1>1
<1>3. PICK e \in Nat : Len(q.method) + Len(q.url) = e + 2
  <2>1. PICK w, l : w = Len(q.method) /\ l = Len(q.url)
    OBVIOUS
  <2>2. w \in Nat /\ w > 0 /\ l \in 1 .. 2
    BY <2>1, FrontLayout
  <2>3. w + l - 2 \in Nat /\ w + l = (w + l - 2) + 2
    BY <2>2
  <2> QED
    BY <2>1, <2>3
<1> QED
  BY <1>1, <1>2, <1>3 DEF Sizes

(* T is laid out as a request q with these sizes, whose header ends at f. *)
Laid(T, q, e, n, m, f) ==
    /\ T \in Seq(Token) /\ Len(T) = f + 2 + 4 * m
    /\ \A k \in 1 .. 3 + e : T[k] = Front(q)[k]
    /\ \A k \in 1 .. 7 : T[3 + e + k] = Version[k]
    /\ \A k \in 1 .. 3 * n : T[10 + e + k] = HeaderLines(q)[k]
    /\ T[f + 1] = "CR" /\ T[f + 2] = "LF"
    /\ \A k \in 1 .. 4 * m : T[f + 2 + k] = Params(q)[k]

(* The tokens of a whole request are laid out like that. *)
LEMMA Layout ==
    ASSUME Fits, NEW q \in Request,
           NEW e \in Nat, NEW n \in Nat, NEW m \in Nat, Sizes(q, e, n, m)
    PROVE  Laid(Tokens(q), q, e, n, m, 10 + e + 3 * n)
<1> DEFINE u == Upto(q)
           h == HeaderLines(q)
           p == Params(q)
           a == u \o h
           c == a \o Blank
           T == Tokens(q)
           l == 10 + e
           f == 10 + e + 3 * n
<1>1. h \in Seq(Token) /\ Len(h) = 3 * n
  BY LinesLayout DEF Sizes
<1>2. p \in Seq(Token) /\ Len(p) = 4 * m
  BY SizesOf, ParamsLayout DEF Sizes
<1>3. /\ u \in Seq(Token) /\ Len(u) = l
      /\ \A k \in 1 .. 3 + e : u[k] = Front(q)[k]
      /\ \A k \in 1 .. 7 : u[3 + e + k] = Version[k]
  BY UptoLayout DEF Sizes
<1>5. Blank \in Seq(Token) /\ Len(Blank) = 2 /\ Blank[1] = "CR" /\ Blank[2] = "LF"
  BY DEF Blank, Token, Sign
<1>6. T = c \o p
  BY DEF Tokens
<1> HIDE DEF u, h, p, T
<1>9. /\ u \in Seq(Token) /\ Len(u) = l /\ h \in Seq(Token) /\ Len(h) = 3 * n
      /\ p \in Seq(Token) /\ Len(p) = 4 * m
  BY <1>1, <1>2, <1>3
<1>10. Joined(u, h, a)
  BY <1>9, Concat
<1> HIDE DEF a
<1>11. /\ a \in Seq(Token) /\ Len(a) = f
       /\ \A k \in 1 .. l : a[k] = u[k]
       /\ \A k \in 1 .. 3 * n : a[l + k] = h[k]
  BY <1>9, <1>10 DEF Joined
<1>12. Joined(a, Blank, c)
  BY <1>5, <1>11, Concat
<1> HIDE DEF c
<1>13. /\ c \in Seq(Token) /\ Len(c) = f + 2 /\ \A k \in 1 .. f : c[k] = a[k]
       /\ c[f + 1] = "CR" /\ c[f + 2] = "LF"
  BY <1>5, <1>11, <1>12 DEF Joined
<1>14. Joined(c, p, T)
  BY <1>6, <1>9, <1>13, Concat
<1>15. /\ T \in Seq(Token) /\ Len(T) = f + 2 + 4 * m
       /\ \A k \in 1 .. f + 2 : T[k] = c[k]
       /\ \A k \in 1 .. 4 * m : T[f + 2 + k] = p[k]
  BY <1>9, <1>13, <1>14 DEF Joined
<1>16. \A k \in 1 .. l : T[k] = u[k]
  <2>1. \A k \in 1 .. l : k \in 1 .. f /\ k \in 1 .. f + 2
    OBVIOUS
  <2> QED
    BY <2>1, <1>11, <1>13, <1>15
<1>17. \A k \in 1 .. 3 * n : T[l + k] = h[k]
  <2>1. \A k \in 1 .. 3 * n : l + k \in 1 .. f /\ l + k \in 1 .. f + 2
    OBVIOUS
  <2> QED
    BY <2>1, <1>11, <1>13, <1>15
<1>18. T[f + 1] = "CR" /\ T[f + 2] = "LF"
  BY <1>13, <1>15
<1>19. /\ \A k \in 1 .. 3 + e : T[k] = Front(q)[k]
       /\ \A k \in 1 .. 7 : T[3 + e + k] = Version[k]
  <2>1. /\ \A k \in 1 .. 3 + e : k \in 1 .. l
        /\ \A k \in 1 .. 7 : 3 + e + k \in 1 .. l
    OBVIOUS
  <2> QED
    BY <1>3, <1>16, <2>1
<1> QED
  BY <1>15, <1>17, <1>18, <1>19 DEF h, p, T, Laid


(* Which part of the request a place belongs to. *)
LEMMA Place ==
    ASSUME NEW e \in Nat, NEW n \in Nat, NEW m \in Nat,
           NEW k \in 1 .. 10 + e + 3 * n + 2 + 4 * m
    PROVE  \/ k \in 1 .. 3 + e
           \/ \E j \in 1 .. 7 : k = 3 + e + j
           \/ \E j \in 1 .. 3 * n : k = 10 + e + j
           \/ k = 10 + e + 3 * n + 1 \/ k = 10 + e + 3 * n + 2
           \/ \E j \in 1 .. 4 * m : k = 10 + e + 3 * n + 2 + j
<1>3. CASE k > 3 + e /\ k <= 10 + e
  <2>1. k - (3 + e) \in 1 .. 7 /\ k = 3 + e + (k - (3 + e))
    BY <1>3
  <2> QED
    BY <2>1
<1>4. CASE k > 10 + e /\ k <= 10 + e + 3 * n
  <2>1. k - (10 + e) \in 1 .. 3 * n /\ k = 10 + e + (k - (10 + e))
    BY <1>4
  <2> QED
    BY <2>1
<1>5. CASE k > 10 + e + 3 * n + 2
  <2>1. /\ k - (10 + e + 3 * n + 2) \in 1 .. 4 * m
        /\ k = 10 + e + 3 * n + 2 + (k - (10 + e + 3 * n + 2))
    BY <1>5
  <2> QED
    BY <2>1
<1> QED
  BY <1>3, <1>4, <1>5

(* The tokens of GET and POST are found in the method only, and CR at the  *)
(* ends of lines only.                                                     *)
LEMMA Marks ==
    ASSUME Fits, NEW q \in Request,
           NEW e \in Nat, NEW n \in Nat, NEW m \in Nat, Sizes(q, e, n, m),
           NEW k \in 1 .. 10 + e + 3 * n + 2 + 4 * m
    PROVE  /\ Tokens(q)[k] \in {"GE", "T", "PO", "ST"} =>
                 k <= Len(q.method) /\ Tokens(q)[k] = q.method[k]
           /\ Tokens(q)[k] = "CR" =>
                 \/ k = 9 + e \/ k = 10 + e + 3 * n + 1
                 \/ \E j \in 1 .. 3 * n : j % 3 = 2 /\ k = 10 + e + j
<1>1. PICK f \in Nat : f = 10 + e + 3 * n /\ Laid(Tokens(q), q, e, n, m, f)
  BY Layout
<1>2. CASE k \in 1 .. 3 + e
  <2>1. Tokens(q)[k] = Front(q)[k]
    BY <1>1, <1>2 DEF Laid
  <2>2. Len(Front(q)) = 3 + e
    BY UptoLayout DEF Sizes
  <2> QED
    BY <1>2, <2>1, <2>2, FrontMarks
<1>4. CASE \E j \in 1 .. 7 : k = 3 + e + j
  <2>1. PICK j \in 1 .. 7 : k = 3 + e + j
    BY <1>4
  <2>2. Tokens(q)[k] = Version[j]
    BY <1>1, <2>1 DEF Laid
  <2>3. Version[j] \in {"SP", "HT", "TP", "SLASH", "x", "LF"} \/ (Version[j] = "CR" /\ j = 6)
    <3>1. j = 1 \/ j = 2 \/ j = 3 \/ j = 4 \/ j = 5 \/ j = 6 \/ j = 7
      OBVIOUS
    <3> QED
      BY <3>1 DEF Version
  <2> QED
    BY <2>1, <2>2, <2>3
<1>5. CASE \E j \in 1 .. 3 * n : k = 10 + e + j
  <2>1. PICK j \in 1 .. 3 * n : k = 10 + e + j
    BY <1>5
  <2>2. Tokens(q)[k] = HeaderLines(q)[j]
    BY <1>1, <2>1 DEF Laid
  <2>3. j % 3 = 0 \/ j % 3 = 1 \/ j % 3 = 2
    OBVIOUS
  <2>4. HeaderLines(q)[j] \in {"x", "LF"} \/ (HeaderLines(q)[j] = "CR" /\ j % 3 = 2)
    BY <2>3, LinesLayout DEF Sizes
  <2> QED
    BY <2>1, <2>2, <2>4
<1>6. CASE k = 10 + e + 3 * n + 1 \/ k = 10 + e + 3 * n + 2
  <2>1. Tokens(q)[f + 1] = "CR" /\ Tokens(q)[f + 2] = "LF"
    BY <1>1 DEF Laid
  <2> QED
    BY <1>1, <1>6, <2>1
<1>7. CASE \E j \in 1 .. 4 * m : k = 10 + e + 3 * n + 2 + j
  <2>1. PICK j \in 1 .. 4 * m : k = 10 + e + 3 * n + 2 + j
    BY <1>7
  <2>2. Tokens(q)[k] = Params(q)[j]
    BY <1>1, <2>1 DEF Laid
  <2>3. j = 1 \/ j % 4 = 2 \/ (j > 1 /\ j % 4 = 1) \/ j % 4 = 3 \/ j % 4 = 0
    OBVIOUS
  <2>4. Params(q)[j] \in {"x", "AND", "EQ"} \/ Params(q)[j] \in Names \cup Values
    BY <2>3, SizesOf, ParamsLayout DEF Sizes
  <2>5. Params(q)[j] \notin {"GE", "T", "PO", "ST", "CR"}
    BY <2>4, Distinct DEF Letter, Sign
  <2> QED
    BY <2>2, <2>5
<1> QED
  BY <1>2, <1>4, <1>5, <1>6, <1>7, Place

(* Two ends of line follow each other only at the end of the header. *)
LEMMA BlankLine ==
    ASSUME Fits, NEW q \in Request,
           NEW e \in Nat, NEW n \in Nat, NEW m \in Nat, Sizes(q, e, n, m),
           NEW k \in 1 .. 10 + e + 3 * n + 4 * m,
           Tokens(q)[k] = "CR", Tokens(q)[k + 2] = "CR"
    PROVE  k = 9 + e + 3 * n
<1>1. k = 9 + e \/ k = 10 + e + 3 * n + 1 \/ \E j \in 1 .. 3 * n : j % 3 = 2 /\ k = 10 + e + j
  BY Marks
<1>2. \/ k + 2 = 9 + e \/ k + 2 = 10 + e + 3 * n + 1
      \/ \E j \in 1 .. 3 * n : j % 3 = 2 /\ k + 2 = 10 + e + j
  BY Marks
<1>3. \A i, j \in 1 .. 3 * n : i % 3 = 2 /\ j % 3 = 2 => i + 2 # j
  OBVIOUS
<1>4. \A j \in 1 .. 3 * n : j % 3 = 2 => j # 1 /\ j # 3 * n
  OBVIOUS
<1> QED
  BY <1>1, <1>2, <1>3, <1>4

-----------------------------------------------------------------------------
(* One iteration. *)
Fields == {"rhs", "method", "proto", "url", "content", "nread", "i", "begin", "peeked", "ub"}
Early == {"START", "METHORD"}
Late == {"CONTENT", "FINISH"}

IsParser(s) ==
    /\ DOMAIN s = Fields /\ s.rhs \in Status
    /\ s.nread \in Nat /\ s.i \in Nat /\ s.begin \in Nat
    /\ s.peeked \in BOOLEAN /\ s.ub \in BOOLEAN

(* The four characters the parser takes for the end of the header. *)
FourEnds(b, k) == b[k] = "CR" /\ b[k + 1] = "LF" /\ b[k + 2] = "CR" /\ b[k + 3] = "LF"

(* What every iteration does, whatever the status. *)
Moves(s, b, p) ==
    /\ IsParser(p) /\ p.nread = s.nread /\ p.i \in s.i .. s.i + 1
    /\ p.begin = s.begin \/ p.begin <= s.i + 3
    /\ s.peeked => p.peeked
    /\ \/ p.method = s.method
       \/ /\ s.rhs \in Early
          /\ b[s.i] = "SP"
          /\ \/ p.method = "GET" /\ b[s.begin] = "GE" /\ b[s.begin + 1] = "T"
             \/ p.method = "POST" /\ b[s.begin] = "PO" /\ b[s.begin + 1] = "ST"
    /\ p.rhs \in Early => s.rhs \in Early /\ p.begin = s.begin
    /\ p.rhs \in Late =>
          s.rhs \in Late \/ (FourEnds(b, s.i) /\ (p.peeked \/ s.i + 3 < s.nread))

(* The switch of the loop, status by status. *)
LEMMA Dispatched ==
    ASSUME NEW s, NEW b
    PROVE  /\ s.rhs \in Early => Iterate(s, b) = METHORD(s, b)
           /\ s.rhs = "URL" => Iterate(s, b) = URL(s, b)
           /\ s.rhs = "PROTO" => Iterate(s, b) = PROTO(s, b)
           /\ s.rhs = "VERSION" => Iterate(s, b) = VERSION(s, b)
           /\ s.rhs = "REQUEST_HEAD" => Iterate(s, b) = REQUEST_HEAD(s, b)
           /\ s.rhs = "CONTENT" => Iterate(s, b) = CONTENT(s, b)
           /\ s.rhs = "FINISH" => Iterate(s, b) = s
BY Zenon DEF Iterate, Early

(* What METHORD makes of the word it finds. *)
LEMMA MethodIs ==
    ASSUME NEW b, NEW begin, NEW old
    PROVE  /\ b[begin] = "GE" /\ b[begin + 1] = "T" => Method(b, begin, old) = "GET"
           /\ b[begin] = "PO" /\ b[begin + 1] = "ST" => Method(b, begin, old) = "POST"
           /\ \/ Method(b, begin, old) = "GET" /\ b[begin] = "GE" /\ b[begin + 1] = "T"
              \/ Method(b, begin, old) = "POST" /\ b[begin] = "PO" /\ b[begin + 1] = "ST"
              \/ Method(b, begin, old) = old
<1>1. /\ Starts(b, begin, "GET") <=> b[begin] = "GE" /\ b[begin + 1] = "T"
      /\ Starts(b, begin, "POST") <=> b[begin] = "PO" /\ b[begin + 1] = "ST"
  BY Words DEF Starts
<1>2. /\ Starts(b, begin, "GET") /\ ~ Starts(b, begin, "POST") =>
            Method(b, begin, old) = "GET"
      /\ Starts(b, begin, "POST") /\ ~ Starts(b, begin, "GET") =>
            Method(b, begin, old) = "POST"
      /\ ~ Starts(b, begin, "POST") /\ ~ Starts(b, begin, "GET") =>
            Method(b, begin, old) = old
  BY Zenon DEF Method
<1> QED
  BY <1>1, <1>2

(* The parser behind one, two and three of the four characters. *)
HeadP(s, b) == [Peek(s, b, s.i + 1) EXCEPT !.i = s.i + 1]
HeadQ(s, b) == [Peek(HeadP(s, b), b, s.i + 2) EXCEPT !.begin = s.i + 2]
HeadR(s, b) == [Peek(HeadQ(s, b), b, s.i + 2 + 1) EXCEPT !.begin = s.i + 2 + 1]

(* The cases of REQUEST_HEAD, by the characters from i on. *)
LEMMA HeadCases ==
    ASSUME NEW s, NEW b, s.i \in Nat
    PROVE  /\ b[s.i] # "CR" => REQUEST_HEAD(s, b) = s
           /\ b[s.i] = "CR" /\ b[s.i + 1] # "LF" => REQUEST_HEAD(s, b) = HeadP(s, b)
           /\ b[s.i] = "CR" /\ b[s.i + 1] = "LF" /\ b[s.i + 2] # "CR" =>
                 REQUEST_HEAD(s, b) = HeadQ(s, b)
           /\ b[s.i] = "CR" /\ b[s.i + 1] = "LF" /\ b[s.i + 2] = "CR" /\ b[s.i + 3] # "LF" =>
                 REQUEST_HEAD(s, b) = HeadR(s, b)
           /\ FourEnds(b, s.i) =>
                 REQUEST_HEAD(s, b)
                    = [HeadR(s, b) EXCEPT !.rhs = Ends(s.i + 2 + 1, s.nread)]
<1>1. /\ IsEol(b, s.i) <=> b[s.i] = "CR" /\ b[s.i + 1] = "LF"
      /\ IsBlank(b, s.i + 2, s.nread) <=> b[s.i + 2] = "CR" /\ b[s.i + 2 + 1] = "LF"
  BY DEF IsEol, IsBlank
<1>2. s.i + 2 + 1 = s.i + 3
  OBVIOUS
<1>3. /\ b[s.i] # "CR" => REQUEST_HEAD(s, b) = s
      /\ b[s.i] = "CR" /\ ~ IsEol(b, s.i) => REQUEST_HEAD(s, b) = HeadP(s, b)
  BY <1>1, Zenon DEF REQUEST_HEAD, HeadP
<1>4. b[s.i] = "CR" /\ IsEol(b, s.i) /\ ~ IsBlank(b, s.i + 2, s.nread) =>
         REQUEST_HEAD(s, b) = IF b[s.i + 2] = "CR" THEN HeadR(s, b) ELSE HeadQ(s, b)
  BY <1>1, Zenon DEF REQUEST_HEAD, HeadP, HeadQ, HeadR
<1>5. b[s.i] = "CR" /\ IsEol(b, s.i) /\ IsBlank(b, s.i + 2, s.nread) =>
         REQUEST_HEAD(s, b) = [HeadR(s, b) EXCEPT !.rhs = Ends(s.i + 2 + 1, s.nread)]
  BY <1>1, Zenon DEF REQUEST_HEAD, HeadP, HeadQ, HeadR
<1> QED
  BY <1>1, <1>2, <1>3, <1>4, <1>5, Zenon DEF FourEnds

(* What these cases change: i, begin, and whether a byte behind nread was  *)
(* looked at.                                                              *)
LEMMA HeadFields ==
    ASSUME NEW s, NEW b, IsParser(s)
    PROVE  LET p == HeadP(s, b)
               q == HeadQ(s, b)
               r == HeadR(s, b)
           IN  /\ DOMAIN p = Fields /\ DOMAIN q = Fields /\ DOMAIN r = Fields
               /\ \A f \in Fields \ {"peeked", "i", "begin"} :
                     p[f] = s[f] /\ q[f] = s[f] /\ r[f] = s[f]
               /\ p.i = s.i + 1 /\ q.i = s.i + 1 /\ r.i = s.i + 1
               /\ p.begin = s.begin /\ q.begin = s.i + 2 /\ r.begin = s.i + 3
               /\ p.peeked <=> s.peeked \/ (s.i + 1 >= s.nread /\ b[s.i + 1] # "0")
               /\ q.peeked <=> p.peeked \/ (s.i + 2 >= s.nread /\ b[s.i + 2] # "0")
               /\ r.peeked <=> q.peeked \/ (s.i + 3 >= s.nread /\ b[s.i + 3] # "0")
               /\ p.peeked \in BOOLEAN /\ q.peeked \in BOOLEAN /\ r.peeked \in BOOLEAN
<1>1. LET p == HeadP(s, b)
      IN  /\ DOMAIN p = Fields
          /\ \A f \in Fields \ {"peeked", "i", "begin"} : p[f] = s[f]
          /\ p.i = s.i + 1 /\ p.begin = s.begin
          /\ p.peeked = (s.peeked \/ (s.i + 1 >= s.nread /\ b[s.i + 1] # "0"))
  BY DEF HeadP, Peek, IsParser, Fields
<1>2. LET p == HeadP(s, b)
          q == HeadQ(s, b)
      IN  /\ DOMAIN q = Fields
          /\ \A f \in Fields \ {"peeked", "i", "begin"} : q[f] = p[f]
          /\ q.i = s.i + 1 /\ q.begin = s.i + 2
          /\ q.peeked = (p.peeked \/ (s.i + 2 >= p.nread /\ b[s.i + 2] # "0"))
  BY <1>1 DEF HeadQ, Peek, IsParser, Fields
<1>3. LET q == HeadQ(s, b)
          r == HeadR(s, b)
      IN  /\ DOMAIN r = Fields
          /\ \A f \in Fields \ {"peeked", "i", "begin"} : r[f] = q[f]
          /\ r.i = s.i + 1 /\ r.begin = s.i + 2 + 1
          /\ r.peeked = (q.peeked \/ (s.i + 2 + 1 >= q.nread /\ b[s.i + 2 + 1] # "0"))
  BY <1>1, <1>2 DEF HeadR, Peek, IsParser, Fields
<1>4. HeadP(s, b).nread = s.nread /\ HeadQ(s, b).nread = s.nread
  BY <1>1, <1>2 DEF Fields
<1>5. s.i + 2 + 1 = s.i + 3
  BY DEF IsParser
<1>6. \A f \in Fields \ {"peeked", "i", "begin"} :
         HeadP(s, b)[f] = s[f] /\ HeadQ(s, b)[f] = s[f] /\ HeadR(s, b)[f] = s[f]
  BY <1>1, <1>2, <1>3, Zenon
<1>7. LET p == HeadP(s, b)
          q == HeadQ(s, b)
          r == HeadR(s, b)
      IN  /\ p.peeked <=> s.peeked \/ (s.i + 1 >= s.nread /\ b[s.i + 1] # "0")
          /\ q.peeked <=> p.peeked \/ (s.i + 2 >= s.nread /\ b[s.i + 2] # "0")
          /\ r.peeked <=> q.peeked \/ (s.i + 3 >= s.nread /\ b[s.i + 3] # "0")
  BY <1>1, <1>2, <1>3, <1>4, <1>5, Zenon
<1>8. /\ HeadP(s, b).peeked \in BOOLEAN /\ HeadQ(s, b).peeked \in BOOLEAN
      /\ HeadR(s, b).peeked \in BOOLEAN
  BY <1>1, <1>2, <1>3, Zenon
<1> QED
  BY <1>1, <1>2, <1>3, <1>5, <1>6, <1>7, <1>8, Zenon

(* g is s but for the fields that get_params changes. *)
ParamsOnly(s, g) ==
    \E v : \E u \in BOOLEAN, c \in BOOLEAN :
       g = [s EXCEPT !.ub = u, !.peeked = s.peeked \/ c, !.content = v]

(* get_params changes three fields. *)
LEMMA ParamsFields ==
    ASSUME NEW s, NEW b, NEW from
    PROVE  ParamsOnly(s, GetParams(s, b, from))
<1> DEFINE end == First({e \in Slots : e >= from /\ b[e] = "0"})
           starts == {from} \cup {k + 1 : k \in {a \in from .. end - 1 : b[a] = "AND"}}
           To(k) == First({e \in k .. end : e = end \/ b[e] = "AND"})
           Equals(k) == {e \in k .. To(k) - 1 : b[e] = "EQ"}
           pairs == {k \in starts : Equals(k) # {}}
           Name(k) == Piece(b, k, First(Equals(k)))
           New(k) == \A j \in pairs : j < k => Name(j) # Name(k)
           u == s.nread - from > ContentSize \/ pairs # starts
           c == end > s.nread
           v == {<<Name(k), Piece(b, First(Equals(k)) + 1, To(k))>> :
                    k \in {k \in pairs : New(k)}}
<1>1. GetParams(s, b, from) = [s EXCEPT !.ub = u, !.peeked = s.peeked \/ c, !.content = v]
  BY Zenon DEF GetParams
<1>2. u \in BOOLEAN /\ c \in BOOLEAN
  OBVIOUS
<1> HIDE DEF u, c, v
<1> QED
  BY <1>1, <1>2 DEF ParamsOnly

(* Every iteration is such a move. *)
LEMMA AlwaysMoves ==
    ASSUME NEW s, NEW b, IsParser(s)
    PROVE  Moves(s, b, Iterate(s, b))
<1> SUFFICES ASSUME NEW p, p = Iterate(s, b)  PROVE Moves(s, b, p)
  OBVIOUS
<1>1. CASE s.rhs \in Early
  <2>1. p = METHORD(s, b)
    BY <1>1, Dispatched
  <2>2. CASE b[s.i] # "SP"
    <3>1. p = [s EXCEPT !.rhs = "METHORD"]
      BY <2>1, <2>2 DEF METHORD
    <3> QED
      BY <1>1, <3>1 DEF Moves, IsParser, Fields, Early, Late, Status
  <2>3. CASE b[s.i] = "SP"
    <3>1. PICK new : new = Method(b, s.begin, s.method)
      OBVIOUS
    <3>2. p = [s EXCEPT !.rhs = "URL", !.begin = s.i + 1, !.method = new]
      BY <2>1, <2>3, <3>1 DEF METHORD
    <3>3. \/ new = "GET" /\ b[s.begin] = "GE" /\ b[s.begin + 1] = "T"
          \/ new = "POST" /\ b[s.begin] = "PO" /\ b[s.begin + 1] = "ST"
          \/ new = s.method
      BY <3>1, MethodIs
    <3> QED
      BY <1>1, <2>3, <3>2, <3>3 DEF Moves, IsParser, Fields, Early, Late, Status
  <2> QED
    BY <2>2, <2>3
<1>2. CASE s.rhs = "URL"
  <2>1. p = URL(s, b)
    BY <1>2, Dispatched
  <2>2. PICK new : new = Piece(b, s.begin, s.i)
    OBVIOUS
  <2>3. p = s \/ p = [s EXCEPT !.rhs = "PROTO", !.begin = s.i + 1, !.url = new]
    BY <2>1, <2>2, Zenon DEF URL
  <2>4. CASE p = s
    BY <1>2, <2>4 DEF Moves, IsParser, Fields, Early, Late, Status
  <2>5. CASE p = [s EXCEPT !.rhs = "PROTO", !.begin = s.i + 1, !.url = new]
    BY <1>2, <2>5 DEF Moves, IsParser, Fields, Early, Late, Status
  <2> QED
    BY <2>3, <2>4, <2>5
<1>3. CASE s.rhs = "PROTO"
  <2>1. p = PROTO(s, b)
    BY <1>3, Dispatched
  <2>2. PICK new : new = Proto(b, s.begin, s.i, s.proto)
    OBVIOUS
  <2>3. p = s \/ p = [s EXCEPT !.rhs = "VERSION", !.begin = s.i + 1, !.proto = new]
    BY <2>1, <2>2, Zenon DEF PROTO
  <2>4. CASE p = s
    BY <1>3, <2>4 DEF Moves, IsParser, Fields, Early, Late, Status
  <2>5. CASE p = [s EXCEPT !.rhs = "VERSION", !.begin = s.i + 1, !.proto = new]
    BY <1>3, <2>5 DEF Moves, IsParser, Fields, Early, Late, Status
  <2> QED
    BY <2>3, <2>4, <2>5
<1>4. CASE s.rhs = "VERSION"
  <2>1. p = VERSION(s, b)
    BY <1>4, Dispatched
  <2>2. \/ p = s \/ p = HeadP(s, b)
        \/ p = [HeadP(s, b) EXCEPT !.rhs = "REQUEST_HEAD", !.begin = s.i + 2]
    BY <2>1, Zenon DEF VERSION, HeadP
  <2>3. PICK h : h = HeadP(s, b) /\ DOMAIN h = Fields /\ h.rhs = s.rhs /\ h.method = s.method
                 /\ h.nread = s.nread /\ h.ub = s.ub /\ h.i = s.i + 1 /\ h.begin = s.begin
                 /\ h.peeked \in BOOLEAN /\ (s.peeked => h.peeked)
    BY HeadFields DEF Fields
  <2>4. CASE p = s
    BY <1>4, <2>4 DEF Moves, IsParser, Fields, Early, Late, Status
  <2>5. CASE p = h
    BY <1>4, <2>3, <2>5 DEF Moves, IsParser, Fields, Early, Late, Status
  <2>6. CASE p = [h EXCEPT !.rhs = "REQUEST_HEAD", !.begin = s.i + 2]
    <3>1. /\ DOMAIN p = Fields /\ p.rhs = "REQUEST_HEAD" /\ p.method = s.method
          /\ p.nread = s.nread /\ p.ub = s.ub /\ p.i = s.i + 1 /\ p.begin = s.i + 2
          /\ p.peeked = h.peeked
      BY <2>3, <2>6 DEF Fields
    <3> QED
      BY <1>4, <2>3, <3>1 DEF Moves, IsParser, Early, Late, Status
  <2> QED
    BY <2>2, <2>3, <2>4, <2>5, <2>6
<1>5. CASE s.rhs = "REQUEST_HEAD"
  <2>1. p = REQUEST_HEAD(s, b) /\ s.i \in Nat
    BY <1>5, Dispatched DEF IsParser
  <2>2. \/ p = s \/ p = HeadP(s, b) \/ p = HeadQ(s, b) \/ p = HeadR(s, b)
        \/ FourEnds(b, s.i) /\ p = [HeadR(s, b) EXCEPT !.rhs = Ends(s.i + 2 + 1, s.nread)]
    BY <2>1, HeadCases, Zenon DEF FourEnds
  <2>3. PICK r : /\ r = HeadR(s, b) /\ DOMAIN r = Fields /\ r.rhs = s.rhs /\ r.method = s.method
                 /\ r.nread = s.nread /\ r.ub = s.ub /\ r.i = s.i + 1 /\ r.begin = s.i + 3
                 /\ r.peeked \in BOOLEAN /\ (s.peeked => r.peeked)
                 /\ (s.i + 3 >= s.nread /\ b[s.i + 3] # "0" => r.peeked)
    BY HeadFields DEF Fields
  <2>4. CASE p = s
    BY <1>5, <2>4 DEF Moves, IsParser, Fields, Early, Late, Status
  <2>5. CASE p = HeadP(s, b) \/ p = HeadQ(s, b)
    <3>1. /\ DOMAIN p = Fields /\ p.rhs = s.rhs /\ p.method = s.method
          /\ p.nread = s.nread /\ p.ub = s.ub /\ p.i = s.i + 1
          /\ p.begin = s.begin \/ p.begin = s.i + 2
          /\ p.peeked \in BOOLEAN /\ (s.peeked => p.peeked)
      BY <2>5, HeadFields DEF Fields
    <3> QED
      BY <1>5, <3>1 DEF Moves, IsParser, Fields, Early, Late, Status
  <2>6. CASE p = HeadR(s, b)
    BY <1>5, <2>3, <2>6 DEF Moves, IsParser, Fields, Early, Late, Status
  <2>7. CASE FourEnds(b, s.i) /\ p = [HeadR(s, b) EXCEPT !.rhs = Ends(s.i + 2 + 1, s.nread)]
    <3>1. PICK st \in Late : st = Ends(s.i + 2 + 1, s.nread)
      BY DEF Ends, Late
    <3>2. b[s.i + 3] # "0"
      BY <2>7 DEF FourEnds
    <3>3. p = [r EXCEPT !.rhs = st]
      BY <2>3, <2>7, <3>1
    <3>4. /\ DOMAIN p = Fields /\ p.rhs = st /\ p.method = s.method
          /\ p.nread = s.nread /\ p.ub = s.ub /\ p.i = s.i + 1 /\ p.begin = s.i + 3
          /\ p.peeked = r.peeked
      BY <2>3, <3>3 DEF Fields
    <3> QED
      BY <1>5, <2>3, <2>7, <3>2, <3>4 DEF Moves, IsParser, Early, Late, Status
  <2> QED
    BY <2>2, <2>4, <2>5, <2>6, <2>7
<1>6. CASE s.rhs = "CONTENT"
  <2>1. p = CONTENT(s, b)
    BY <1>6, Dispatched
  <2>2. PICK g : g = GetParams(s, b, s.i + 1) /\ ParamsOnly(s, g)
    BY ParamsFields
  <2>3. p = [s EXCEPT !.rhs = "FINISH"] \/ p = [g EXCEPT !.rhs = "FINISH"]
    BY <2>1, <2>2, Zenon DEF CONTENT
  <2>4. PICK v : \E u \in BOOLEAN, c \in BOOLEAN :
            g = [s EXCEPT !.ub = u, !.peeked = s.peeked \/ c, !.content = v]
    BY <2>2, Zenon DEF ParamsOnly
  <2>5. PICK u \in BOOLEAN, c \in BOOLEAN :
            g = [s EXCEPT !.ub = u, !.peeked = s.peeked \/ c, !.content = v]
    BY <2>4, Zenon
  <2>6. /\ DOMAIN p = Fields /\ p.rhs = "FINISH" /\ p.method = s.method
        /\ p.nread = s.nread /\ p.ub \in BOOLEAN /\ p.i = s.i /\ p.begin = s.begin
        /\ p.peeked \in BOOLEAN /\ (s.peeked => p.peeked)
    BY <2>3, <2>5 DEF IsParser, Fields
  <2> QED
    BY <1>6, <2>6 DEF Moves, IsParser, Early, Late, Status
<1>7. CASE s.rhs = "FINISH"
  <2>1. p = s
    BY <1>7, Dispatched
  <2> QED
    BY <1>7, <2>1 DEF Moves, IsParser, Fields, Early, Late, Status
<1> QED
  BY <1>1, <1>2, <1>3, <1>4, <1>5, <1>6, <1>7 DEF IsParser, Status, Early

-----------------------------------------------------------------------------
(* The first nread places of the buffer are what was read last.  A method  *)
(* is looked for with begin at 0, in this read, which starts at the start  *)
(* of the request or at a cut; the empty line, if nothing behind nread was *)
(* looked at, is in this read too.                                         *)
HttpInv ==
    /\ req \in Request /\ pos \in Nat /\ pos <= Len0(req)
    /\ IsParser(parser) /\ parser.nread <= pos
    /\ parser.i <= parser.nread + 1 /\ parser.begin <= parser.nread + 2
    /\ \A k \in Nat : k < parser.nread => buf[k] = Tokens(req)[pos - parser.nread + k + 1]
    /\ parser.rhs \in Early /\ parser.i < parser.nread => parser.begin = 0
    /\ pos - parser.nread \in {0} \cup cuts /\ pos \in {0, Len0(req)} \cup cuts
    /\ parser.method \in {"unset", "GET", "POST"} /\ MethodIsFound
    /\ NotEarly
    /\ cuts \subseteq 1 .. Len0(req) - 1

(* The length of a request. *)
LEMMA LenIs ==
    ASSUME Fits, NEW q \in Request,
           NEW e \in Nat, NEW n \in Nat, NEW m \in Nat, Sizes(q, e, n, m)
    PROVE  Len0(q) = 10 + e + 3 * n + 2 + 4 * m
<1>1. Laid(Tokens(q), q, e, n, m, 10 + e + 3 * n)
  BY Layout
<1> QED
  BY <1>1 DEF Laid, Len0

(* The length of a request is a number, and the buffer is larger. *)
LEMMA LenIsNat ==
    ASSUME Fits, NEW q \in Request
    PROVE  Len0(q) \in Nat /\ Len0(q) + 2 < BUFSIZE /\ BUFSIZE \in Nat
<1>1. PICK e \in Nat, n \in Nat, m \in Nat : Sizes(q, e, n, m)
  BY SizesOf
<1>2. Len0(q) = 10 + e + 3 * n + 2 + 4 * m
  BY <1>1, LenIs
<1> QED
  BY <1>2 DEF Fits

(* A new connection satisfies the invariant. *)
LEMMA InitHttpInv == ASSUME Fits, Init PROVE HttpInv
<1>1. req \in Request /\ pos = 0 /\ parser = NewRequest /\ cuts = {}
  BY DEF Init
<1>2. IsParser(parser) /\ parser.nread = 0 /\ parser.i = 0 /\ parser.begin = 0
      /\ parser.method = "unset" /\ parser.rhs = "START"
  BY <1>1 DEF NewRequest, IsParser, Fields, Status
<1>3. Len0(req) \in Nat
  BY <1>1, LenIsNat
<1> QED
  BY <1>1, <1>2, <1>3 DEF HttpInv, NotEarly, MethodIsFound

(* A read replaces the first nread places, and the call starts with begin  *)
(* at 0.                                                                   *)
LEMMA FeedHttpInv ==
    ASSUME Fits, HttpInv, NEW n \in 1 .. Len0(req), NEW fresh \in BOOLEAN, Feed(n, fresh)
    PROVE  HttpInv'
<1>1. Len0(req) \in Nat /\ Len0(req) + 2 < BUFSIZE /\ BUFSIZE \in Nat /\ n \in Nat
  BY LenIsNat DEF HttpInv
<1>2. /\ req' = req /\ pos' = pos + n /\ pos + n <= Len0(req) /\ parser' = Enter(parser, n)
      /\ cuts' = cuts \cup ({pos'} \ {Len0(req)})
  BY DEF Feed
<1>3. /\ IsParser(parser') /\ parser'.nread = n /\ parser'.i = 0 /\ parser'.begin = 0
      /\ parser'.method = parser.method /\ parser'.rhs = parser.rhs
      /\ parser'.peeked = parser.peeked
  BY <1>1, <1>2 DEF Enter, HttpInv, IsParser, Fields
<1>4. \A k \in Nat : k < n => buf'[k] = Tokens(req)[pos + k + 1]
  <2>1. PICK b : buf' = Filled(b, n)
    BY DEF Feed
  <2>2. \A k \in Nat : k < n => k \in Slots
    BY <1>1 DEF Slots
  <2> QED
    BY <2>1, <2>2 DEF Filled
<1>5. \A k \in Nat : pos' - parser'.nread + k + 1 = pos + k + 1
  BY <1>1, <1>2, <1>3 DEF HttpInv
<1>6. cuts' \subseteq 1 .. Len0(req) - 1
  <2>1. \A x \in cuts' : x \in cuts \/ (x = pos' /\ x # Len0(req))
    BY <1>2
  <2>2. pos' \in Nat /\ 1 <= pos' /\ pos' <= Len0(req)
    BY <1>1, <1>2 DEF HttpInv
  <2>3. cuts \subseteq 1 .. Len0(req) - 1
    BY DEF HttpInv
  <2>4. pos' # Len0(req) => pos' \in 1 .. Len0(req) - 1
    BY <1>1, <2>2
  <2> QED
    BY <2>1, <2>3, <2>4, Zenon
<1>7. NotEarly'
  <2>1. PICK e \in Nat, h \in Nat, m \in Nat : Sizes(req, e, h, m)
    BY SizesOf DEF HttpInv
  <2>2. Len(Upto(req)) = 10 + e
    BY <2>1, UptoLayout DEF HttpInv, Sizes
  <2>3. pos' >= pos /\ pos \in Nat /\ pos' \in Nat
    BY <1>1, <1>2 DEF HttpInv
  <2>4. req.headers = h
    BY <2>1 DEF Sizes
  <2> QED
    BY <1>2, <1>3, <2>2, <2>3, <2>4 DEF HttpInv, NotEarly
<1>8. Len0(req') = Len0(req) /\ Tokens(req') = Tokens(req)
  BY <1>2
<1>9. pos' - parser'.nread \in {0} \cup cuts'
  <2>1. pos' - parser'.nread = pos
    BY <1>1, <1>2, <1>3 DEF HttpInv
  <2>2. pos = 0 \/ pos \in cuts
    BY <1>1, <1>2 DEF HttpInv
  <2> QED
    BY <1>2, <2>1, <2>2
<1>10. MethodIsFound' /\ pos' \in {0, Len0(req)} \cup cuts'
  BY <1>2, <1>3 DEF HttpInv, MethodIsFound
<1> QED
  BY <1>1, <1>2, <1>3, <1>4, <1>5, <1>6, <1>7, <1>8, <1>9, <1>10 DEF HttpInv

(* An iteration of either copy: they differ in what is left when they return. *)
Leave(s) == IF code = "http_server" THEN Returned(s) ELSE s
Loop ==
    /\ Running(parser) /\ parser' = Leave(Bumped(Iterate(parser, buf)))
    /\ UNCHANGED <<code, req, pos, buf, cuts>>

(* Both copies of the parser are such loops. *)
LEMMA Copies ==
    ASSUME read_http_status_machine \/ readHttpRequestStatusMachine PROVE Loop
BY DEF Loop, Leave, read_http_status_machine, readHttpRequestStatusMachine

(* An iteration that enters CONTENT or FINISH has found the four           *)
(* characters, which are at the empty line.                                *)
LEMMA LoopHttpInv ==
    ASSUME Fits, HttpInv, Loop
    PROVE  HttpInv'
<1>1. PICK e \in Nat, n \in Nat, m \in Nat : Sizes(req, e, n, m)
  BY SizesOf DEF HttpInv
<1>2. Len(Upto(req)) = 10 + e /\ Len0(req) = 10 + e + 3 * n + 2 + 4 * m /\ req.headers = n
  <2>1. req \in Request
    BY DEF HttpInv
  <2>2. Laid(Tokens(req), req, e, n, m, 10 + e + 3 * n)
    BY <1>1, <2>1, Layout
  <2>3. Len(Upto(req)) = 10 + e /\ req.headers = n
    BY <1>1, <2>1, UptoLayout DEF Sizes
  <2> QED
    BY <2>2, <2>3 DEF Laid, Len0
<1>3. /\ req' = req /\ pos' = pos /\ buf' = buf /\ cuts' = cuts
      /\ Running(parser)
  BY DEF Loop
<1>4. PICK p : p = Iterate(parser, buf) /\ Moves(parser, buf, p)
  BY AlwaysMoves DEF HttpInv
<1>5. parser' = Leave([p EXCEPT !.i = p.i + 1])
  BY <1>4 DEF Loop, Bumped
<1>6. /\ IsParser(parser') /\ parser'.nread = p.nread /\ parser'.i = p.i + 1
      /\ parser'.begin = p.begin /\ parser'.method = p.method /\ parser'.peeked = p.peeked
      /\ parser'.rhs = p.rhs \/ (parser'.rhs = "START" /\ parser'.i >= parser'.nread)
  BY <1>4, <1>5 DEF Leave, Returned, Moves, IsParser, Fields, Status
<1>7. parser.i < parser.nread /\ parser.nread \in Nat /\ parser.i \in Nat /\ parser.begin \in Nat
  BY <1>3 DEF HttpInv, IsParser, Running
<1>8. /\ parser'.i <= parser'.nread + 1 /\ parser'.begin <= parser'.nread + 2
      /\ parser'.nread = parser.nread
  BY <1>4, <1>6, <1>7 DEF Moves, IsParser, HttpInv
<1>9. parser'.rhs \in Early /\ parser'.i < parser'.nread => parser'.begin = 0
  BY <1>4, <1>6, <1>7 DEF Moves, IsParser, HttpInv
<1>10. parser'.method \in {"unset", "GET", "POST"} /\ MethodIsFound'
  <2>1. CASE p.method = parser.method
    BY <1>3, <1>6, <2>1 DEF HttpInv, MethodIsFound
  <2>2. CASE p.method # parser.method
    <3>1. /\ parser.rhs \in Early /\ buf[parser.i] = "SP" /\ parser.begin = 0
          /\ \/ p.method = "GET" /\ buf[0] = "GE" /\ buf[0 + 1] = "T"
             \/ p.method = "POST" /\ buf[0] = "PO" /\ buf[0 + 1] = "ST"
      BY <1>4, <1>7, <2>2 DEF Moves, HttpInv
    <3>2. PICK x, y : x = buf[0] /\ y = buf[1]
      OBVIOUS
    <3>3. \/ p.method = "GET" /\ x = "GE" /\ y = "T"
          \/ p.method = "POST" /\ x = "PO" /\ y = "ST"
      BY <3>1, <3>2
    <3>4. parser.nread > 2
      <4>1. parser.i # 0 /\ parser.i # 1
        BY <3>1, <3>2, <3>3
      <4> QED
        BY <1>7, <4>1
    <3>5. PICK k \in Nat : k = pos - parser.nread /\ k \in {0} \cup cuts
      BY <1>7 DEF HttpInv
    <3>6. k + 1 \in 1 .. 10 + e + 3 * n + 2 + 4 * m /\ k + 2 \in 1 .. 10 + e + 3 * n + 2 + 4 * m
      <4>1. pos \in Nat /\ pos <= 10 + e + 3 * n + 2 + 4 * m
        BY <1>2 DEF HttpInv
      <4> QED
        BY <1>7, <3>4, <3>5, <4>1
    <3>7. x = Tokens(req)[k + 1] /\ y = Tokens(req)[k + 2]
      <4>1. /\ 0 \in Nat /\ 0 < parser.nread /\ 1 \in Nat /\ 1 < parser.nread
            /\ k + 0 + 1 = k + 1 /\ k + 1 + 1 = k + 2
        BY <1>7, <3>4
      <4>2. \A j \in Nat : j < parser.nread => buf[j] = Tokens(req)[k + j + 1]
        BY <3>5 DEF HttpInv
      <4> QED
        BY <3>2, <4>1, <4>2
    <3>8. x = req.method[k + 1] /\ y = req.method[k + 2] /\ k + 2 <= Len(req.method)
      <4>1. req \in Request
        BY DEF HttpInv
      <4>2. x \in {"GE", "T", "PO", "ST"} /\ y \in {"GE", "T", "PO", "ST"}
        BY <3>3
      <4> QED
        BY <1>1, <3>6, <3>7, <4>1, <4>2, Marks
    <3>9. <<req.method[k + 1], req.method[k + 2]>> = Word(p.method)
      BY <3>3, <3>8, Words
    <3>10. /\ k \in {0} \cup cuts' /\ k + 2 <= Len(req'.method)
           /\ <<req'.method[k + 1], req'.method[k + 2]>> = Word(parser'.method)
      BY <1>3, <1>6, <3>5, <3>8, <3>9
    <3>11. MethodIsFound'
      BY <3>10 DEF MethodIsFound
    <3> QED
      BY <1>6, <3>3, <3>11
  <2> QED
    BY <2>1, <2>2
<1>11. NotEarly'
  <2> SUFFICES ASSUME parser'.rhs \in Late, ~ parser'.peeked
               PROVE  pos >= 10 + e + 3 * n + 2
    BY <1>2, <1>3 DEF NotEarly, Late
  <2>1. p.rhs \in Late /\ ~ p.peeked /\ ~ parser.peeked
    BY <1>4, <1>6 DEF Moves, Late, IsParser, HttpInv
  <2>2. CASE parser.rhs \in Late
    BY <1>2, <2>1, <2>2 DEF HttpInv, NotEarly, Late
  <2>3. CASE FourEnds(buf, parser.i) /\ parser.i + 3 < parser.nread
    <3>1. PICK k \in Nat : k = pos - parser.nread + parser.i + 1
      BY <1>7 DEF HttpInv
    <3>2. /\ k \in 1 .. 10 + e + 3 * n + 4 * m /\ pos >= k + 3
          /\ pos - parser.nread + (parser.i + 2) + 1 = k + 2
      <4>1. /\ pos \in Nat /\ parser.nread <= pos /\ parser.i + 3 < parser.nread
            /\ pos <= 10 + e + 3 * n + 2 + 4 * m
        BY <1>2, <2>3 DEF HttpInv
      <4> QED
        BY <1>7, <3>1, <4>1
    <3>3. /\ buf[parser.i] = Tokens(req)[k]
          /\ buf[parser.i + 2] = Tokens(req)[k + 2]
      <4>1. parser.i + 2 \in Nat /\ parser.i + 2 < parser.nread
        BY <1>7, <2>3
      <4> QED
        BY <1>7, <3>1, <3>2, <4>1 DEF HttpInv
    <3>4. k = 9 + e + 3 * n
      BY <1>1, <2>3, <3>2, <3>3, BlankLine DEF HttpInv, FourEnds
    <3> QED
      BY <3>2, <3>4 DEF HttpInv
  <2> QED
    BY <1>4, <2>1, <2>2, <2>3 DEF Moves
<1> QED
  BY <1>3, <1>6, <1>8, <1>9, <1>10, <1>11 DEF HttpInv

(* Every step keeps the invariant. *)
LEMMA NextHttpInv == ASSUME Fits, HttpInv, [Next]_vars PROVE HttpInv'
<1>1. CASE read_http_status_machine \/ readHttpRequestStatusMachine
  BY <1>1, Copies, LoopHttpInv
<1>2. ASSUME NEW n \in 1 .. Len0(req), NEW fresh \in BOOLEAN, Feed(n, fresh)
      PROVE  HttpInv'
  BY <1>2, FeedHttpInv
<1>3. CASE UNCHANGED vars
  BY <1>3 DEF vars, HttpInv, NotEarly, MethodIsFound
<1> QED
  BY <1>1, <1>2, <1>3 DEF Next


(* get_params on the parameters of a request that was read in one piece:   *)
(* behind g the buffer holds the m parameters ps and a zero.               *)
Quads(b, g, ps, m) ==
    /\ b[g] = "LF" /\ b[g + 4 * m + 1] = "0"
    /\ \A j \in 0 .. m - 1 :
          /\ b[g + 4 * j + 1] = IF j = 0 THEN "x" ELSE "AND"
          /\ b[g + 4 * j + 2] = ps[j + 1][1] /\ b[g + 4 * j + 3] = "EQ"
          /\ b[g + 4 * j + 4] = ps[j + 1][2]

(* Every place among the parameters is in one of the groups of four. *)
LEMMA InQuad ==
    ASSUME NEW g \in Nat, NEW m \in Nat, NEW k \in g + 1 .. g + 4 * m
    PROVE  \E j \in 0 .. m - 1 : \/ k = g + 4 * j + 1 \/ k = g + 4 * j + 2
                                 \/ k = g + 4 * j + 3 \/ k = g + 4 * j + 4
<1>1. (k - g - 1) \div 4 \in 0 .. m - 1
  OBVIOUS
<1>2. LET j == (k - g - 1) \div 4
      IN  \/ k = g + 4 * j + 1 \/ k = g + 4 * j + 2
          \/ k = g + 4 * j + 3 \/ k = g + 4 * j + 4
  OBVIOUS
<1> QED
  BY <1>1, <1>2

(* The least element of a set of integers. *)
LEMMA FirstIs ==
    ASSUME NEW S \in SUBSET Int, NEW k \in S, \A j \in S : k <= j
    PROVE  First(S) = k
<1>1. \E x \in S : \A j \in S : x <= j
  OBVIOUS
<1>2. First(S) \in S /\ \A j \in S : First(S) <= j
  BY <1>1, Zenon DEF First
<1>3. First(S) \in Int /\ k \in Int /\ First(S) <= k /\ k <= First(S)
  BY <1>2, Zenon
<1> QED
  BY <1>3

(* A piece of one token. *)
LEMMA OneToken ==
    ASSUME NEW b, NEW x \in Nat
    PROVE  Piece(b, x, x + 1) = <<b[x]>>
<1>1. x + 1 - x = 1 /\ \A k \in 1 .. 1 : x + k - 1 = x
  OBVIOUS
<1>2. PICK v : v = b[x]
  OBVIOUS
<1>3. Piece(b, x, x + 1) = [k \in 1 .. 1 |-> v]
  BY <1>1, <1>2 DEF Piece
<1>4. [k \in 1 .. 1 |-> v] = <<v>>
  OBVIOUS
<1> QED
  BY <1>2, <1>3, <1>4

(* A piece of three tokens. *)
LEMMA ThreeTokens ==
    ASSUME NEW b, NEW x \in Nat
    PROVE  Piece(b, x, x + 3) = <<b[x], b[x + 1], b[x + 2]>>
<1>1. PICK u, v, w : u = b[x] /\ v = b[x + 1] /\ w = b[x + 2]
  OBVIOUS
<1>2. x + 3 - x = 3 /\ x + 1 - 1 = x /\ x + 2 - 1 = x + 1 /\ x + 3 - 1 = x + 2
  OBVIOUS
<1>3. Piece(b, x, x + 3) = [k \in 1 .. 3 |-> b[x + k - 1]]
  BY <1>2 DEF Piece
<1>4. b[x + 1 - 1] = u /\ b[x + 2 - 1] = v /\ b[x + 3 - 1] = w
  BY <1>1, <1>2
<1>5. [k \in 1 .. 3 |-> b[x + k - 1]] = <<u, v, w>>
  BY <1>4
<1> QED
  BY <1>1, <1>3, <1>5

(* The parser with the m parameters ps, where get_params stops at end. *)
FirstOnes(ps, m) == {<<Key(ps, j), <<ps[j][2]>>>> : j \in {j \in 1 .. m : Counts(ps, j)}}
WithParams(s, ps, m, end) ==
    [s EXCEPT !.ub = FALSE, !.peeked = s.peeked \/ end > s.nread, !.content = FirstOnes(ps, m)]

(* No name and no value of ps is a token that get_params looks for. *)
Plain(ps, m) ==
    \A j \in 0 .. m - 1 : /\ ps[j + 1][1] \notin {"0", "AND", "EQ"}
                          /\ ps[j + 1][2] \notin {"0", "AND", "EQ"}

LEMMA ParamsPlain ==
    ASSUME Fits, NEW ps \in Seq(Names \X Values), NEW m, m = Len(ps)
    PROVE  Plain(ps, m)
<1>1. \A j \in 0 .. m - 1 : ps[j + 1] \in Names \X Values
  OBVIOUS
<1>2. \A v \in Names \cup Values : v \notin {"0", "AND", "EQ"}
  BY Distinct DEF Sign
<1>3. \A x \in Names \X Values : x[1] \in Names \cup Values /\ x[2] \in Names \cup Values
  OBVIOUS
<1> QED
  BY <1>1, <1>2, <1>3, Zenon DEF Plain

LEMMA QuadTokens ==
    ASSUME NEW b, NEW g \in Nat, NEW ps, NEW m \in Nat, Quads(b, g, ps, m), Plain(ps, m),
           NEW j \in 0 .. m - 1
    PROVE  /\ b[g + 4 * j + 1] \in {"x", "AND"} /\ (b[g + 4 * j + 1] = "AND" <=> j # 0)
           /\ b[g + 4 * j + 2] \notin {"0", "AND", "EQ"} /\ b[g + 4 * j + 3] = "EQ"
           /\ b[g + 4 * j + 4] \notin {"0", "AND", "EQ"}
<1>1. /\ b[g + 4 * j + 1] = IF j = 0 THEN "x" ELSE "AND"
      /\ b[g + 4 * j + 2] = ps[j + 1][1] /\ b[g + 4 * j + 3] = "EQ"
      /\ b[g + 4 * j + 4] = ps[j + 1][2]
  BY DEF Quads
<1>2. ps[j + 1][1] \notin {"0", "AND", "EQ"} /\ ps[j + 1][2] \notin {"0", "AND", "EQ"}
  BY DEF Plain
<1> QED
  BY <1>1, <1>2

(* get_params finds each parameter's name and value, no piece without EQ,  *)
(* and stops at the NUL behind the last one.                               *)
LEMMA ParamsRead ==
    ASSUME NEW s, NEW b, NEW g \in Nat, NEW m \in Nat, m > 0,
           NEW ps, Plain(ps, m), Quads(b, g, ps, m),
           NEW z \in Slots, z = g + 4 * m + 1, Slots \subseteq Int,
           ~ (s.nread - g > ContentSize)
    PROVE  GetParams(s, b, g) = WithParams(s, ps, m, z)
<1> DEFINE end == First({e \in Slots : e >= g /\ b[e] = "0"})
           starts == {g} \cup {k + 1 : k \in {a \in g .. end - 1 : b[a] = "AND"}}
           To(k) == First({e \in k .. end : e = end \/ b[e] = "AND"})
           Equals(k) == {e \in k .. To(k) - 1 : b[e] = "EQ"}
           Name(k) == Piece(b, k, First(Equals(k)))
           St(j) == IF j = 0 THEN g ELSE g + 4 * j + 2
<1>1. \A k \in g .. g + 4 * m : b[k] # "0"
  <2> SUFFICES ASSUME NEW k \in g .. g + 4 * m PROVE b[k] # "0"
    OBVIOUS
  <2>1. CASE k = g
    BY <2>1 DEF Quads
  <2>2. CASE k # g
    <3>0. k \in g + 1 .. g + 4 * m
      BY <2>2
    <3>1. PICK j \in 0 .. m - 1 : \/ k = g + 4 * j + 1 \/ k = g + 4 * j + 2
                                  \/ k = g + 4 * j + 3 \/ k = g + 4 * j + 4
      BY <3>0, InQuad
    <3>2. /\ b[g + 4 * j + 1] \in {"x", "AND"} /\ (b[g + 4 * j + 1] = "AND" <=> j # 0)
          /\ b[g + 4 * j + 2] \notin {"0", "AND", "EQ"} /\ b[g + 4 * j + 3] = "EQ"
          /\ b[g + 4 * j + 4] \notin {"0", "AND", "EQ"}
      BY QuadTokens
    <3> QED
      BY <3>1, <3>2
  <2> QED
    BY <2>1, <2>2
<1>2. end = g + 4 * m + 1
  <2> DEFINE S == {e \in Slots : e >= g /\ b[e] = "0"}
  <2>0. g + 4 * m + 1 >= g /\ b[g + 4 * m + 1] = "0"
    BY DEF Quads
  <2>1. g + 4 * m + 1 \in S /\ S \in SUBSET Int
    BY <2>0
  <2>2. \A e \in S : g + 4 * m + 1 <= e
    BY <1>1
  <2> HIDE DEF S
  <2>3. First(S) = g + 4 * m + 1
    BY <2>1, <2>2, FirstIs
  <2> QED
    BY <2>3 DEF S
<1> HIDE DEF end
<1>3. \A k \in g .. g + 4 * m : b[k] = "AND" <=> \E j \in 1 .. m - 1 : k = g + 4 * j + 1
  <2> SUFFICES ASSUME NEW k \in g .. g + 4 * m
               PROVE  b[k] = "AND" <=> \E j \in 1 .. m - 1 : k = g + 4 * j + 1
    OBVIOUS
  <2>1. CASE k = g
    BY <2>1 DEF Quads
  <2>2. CASE k # g
    <3>0. k \in g + 1 .. g + 4 * m
      BY <2>2
    <3>1. PICK j \in 0 .. m - 1 : \/ k = g + 4 * j + 1 \/ k = g + 4 * j + 2
                                  \/ k = g + 4 * j + 3 \/ k = g + 4 * j + 4
      BY <3>0, InQuad
    <3>2. /\ b[g + 4 * j + 1] \in {"x", "AND"} /\ (b[g + 4 * j + 1] = "AND" <=> j # 0)
          /\ b[g + 4 * j + 2] \notin {"0", "AND", "EQ"} /\ b[g + 4 * j + 3] = "EQ"
          /\ b[g + 4 * j + 4] \notin {"0", "AND", "EQ"}
      BY QuadTokens
    <3> QED
      BY <3>1, <3>2
  <2> QED
    BY <2>1, <2>2
<1>4. \A k \in g .. g + 4 * m : b[k] = "EQ" <=> \E j \in 0 .. m - 1 : k = g + 4 * j + 3
  <2> SUFFICES ASSUME NEW k \in g .. g + 4 * m
               PROVE  b[k] = "EQ" <=> \E j \in 0 .. m - 1 : k = g + 4 * j + 3
    OBVIOUS
  <2>1. CASE k = g
    BY <2>1 DEF Quads
  <2>2. CASE k # g
    <3>0. k \in g + 1 .. g + 4 * m
      BY <2>2
    <3>1. PICK j \in 0 .. m - 1 : \/ k = g + 4 * j + 1 \/ k = g + 4 * j + 2
                                  \/ k = g + 4 * j + 3 \/ k = g + 4 * j + 4
      BY <3>0, InQuad
    <3>2. /\ b[g + 4 * j + 1] \in {"x", "AND"} /\ (b[g + 4 * j + 1] = "AND" <=> j # 0)
          /\ b[g + 4 * j + 2] \notin {"0", "AND", "EQ"} /\ b[g + 4 * j + 3] = "EQ"
          /\ b[g + 4 * j + 4] \notin {"0", "AND", "EQ"}
      BY QuadTokens
    <3> QED
      BY <3>1, <3>2
  <2> QED
    BY <2>1, <2>2
<1>5. ASSUME NEW j \in 0 .. m - 1
      PROVE  /\ St(j) \in starts /\ To(St(j)) = g + 4 * j + 5
             /\ Equals(St(j)) = {g + 4 * j + 3} /\ First(Equals(St(j))) = g + 4 * j + 3
             /\ Piece(b, First(Equals(St(j))) + 1, To(St(j))) = <<ps[j + 1][2]>>
             /\ Name(St(j)) = Key(ps, j + 1)
  <2>1. St(j) \in starts
    <3>1. CASE j = 0
      BY <3>1
    <3>2. CASE j # 0
      <4>1. g + 4 * j + 1 \in g .. end - 1 /\ b[g + 4 * j + 1] = "AND"
        BY <1>2, <3>2 DEF Quads
      <4>2. St(j) = g + 4 * j + 1 + 1
        BY <3>2
      <4> QED
        BY <4>1, <4>2
    <3> QED
      BY <3>1, <3>2
  <2>2. To(St(j)) = g + 4 * j + 5
    <3> DEFINE S == {e \in St(j) .. end : e = end \/ b[e] = "AND"}
    <3>1. g + 4 * j + 5 \in S /\ S \in SUBSET Int
      <4>1. g + 4 * j + 5 \in St(j) .. end
        BY <1>2
      <4>2. CASE j = m - 1
        BY <1>2, <4>1, <4>2
      <4>3. CASE j # m - 1
        <5>1. j + 1 \in 1 .. m - 1 /\ g + 4 * j + 5 = g + 4 * (j + 1) + 1 /\ g + 4 * j + 5 \in g .. g + 4 * m
          BY <4>3
        <5> QED
          BY <1>3, <4>1, <5>1
      <4> QED
        BY <4>2, <4>3
    <3>2. ASSUME NEW e \in S PROVE g + 4 * j + 5 <= e
      <4>1. CASE e = end
        BY <1>2, <4>1
      <4>2. CASE e # end
        <5>1. e \in g .. g + 4 * m /\ b[e] = "AND" /\ e >= St(j)
          BY <1>2, <3>2, <4>2
        <5>2. PICK i \in 1 .. m - 1 : e = g + 4 * i + 1
          BY <1>3, <5>1
        <5> QED
          BY <5>1, <5>2
      <4> QED
        BY <4>1, <4>2
    <3> HIDE DEF S
    <3>3. First(S) = g + 4 * j + 5
      BY <3>1, <3>2, FirstIs
    <3> QED
      BY <3>3 DEF S
  <2> HIDE DEF To
  <2>3. Equals(St(j)) = {g + 4 * j + 3}
    <3>1. g + 4 * j + 3 \in St(j) .. To(St(j)) - 1 /\ b[g + 4 * j + 3] = "EQ"
      BY <2>2 DEF Quads
    <3>2. ASSUME NEW e \in St(j) .. To(St(j)) - 1, b[e] = "EQ" PROVE e = g + 4 * j + 3
      <4>1. e \in g .. g + 4 * m
        BY <2>2, <3>2
      <4>2. PICK i \in 0 .. m - 1 : e = g + 4 * i + 3
        BY <1>4, <3>2, <4>1
      <4> QED
        BY <2>2, <3>2, <4>2
    <3> QED
      BY <3>1, <3>2
  <2>4. First(Equals(St(j))) = g + 4 * j + 3
    <3>1. PICK x \in Int : x = g + 4 * j + 3
      OBVIOUS
    <3>2. {x} \in SUBSET Int /\ x \in {x} /\ \A i \in {x} : x <= i
      BY <3>1
    <3>3. First({x}) = x
      BY <3>2, FirstIs
    <3> QED
      BY <2>3, <3>1, <3>3
  <2>5. Piece(b, First(Equals(St(j))) + 1, To(St(j))) = <<ps[j + 1][2]>>
    <3>1. PICK x \in Nat : x = g + 4 * j + 4 /\ b[x] = ps[j + 1][2]
      BY DEF Quads
    <3>2. First(Equals(St(j))) + 1 = x /\ To(St(j)) = x + 1
      BY <2>2, <2>4, <3>1
    <3>3. Piece(b, x, x + 1) = <<b[x]>>
      BY OneToken
    <3> QED
      BY <3>1, <3>2, <3>3
  <2>6. Name(St(j)) = Key(ps, j + 1)
    <3>1. CASE j = 0
      <4>1. St(j) = g /\ g + 4 * j + 3 = g + 3 /\ j + 1 = 1
        BY <3>1
      <4>2. b[g] = "LF" /\ b[g + 1] = "x" /\ b[g + 2] = ps[1][1]
        <5>1. /\ b[g] = "LF" /\ b[g + 4 * 0 + 1] = (IF 0 = 0 THEN "x" ELSE "AND")
              /\ b[g + 4 * 0 + 2] = ps[0 + 1][1]
          BY <3>1 DEF Quads
        <5>2. g + 4 * 0 + 1 = g + 1 /\ g + 4 * 0 + 2 = g + 2 /\ 0 + 1 = 1
          OBVIOUS
        <5> QED
          BY <5>1, <5>2
      <4>3. Piece(b, g, g + 3) = <<"LF", "x", ps[1][1]>>
        BY <4>2, ThreeTokens
      <4>4. Name(St(j)) = Piece(b, g, g + 3)
        BY <2>4, <4>1
      <4> QED
        BY <4>1, <4>3, <4>4 DEF Key
    <3>2. CASE j # 0
      <4>1. PICK x \in Nat : x = g + 4 * j + 2 /\ b[x] = ps[j + 1][1]
        BY DEF Quads
      <4>2. St(j) = x /\ g + 4 * j + 3 = x + 1 /\ j + 1 # 1
        BY <3>2, <4>1
      <4>3. Piece(b, x, x + 1) = <<b[x]>>
        BY OneToken
      <4>4. Name(St(j)) = Piece(b, x, x + 1)
        BY <2>4, <4>2
      <4> QED
        BY <4>1, <4>2, <4>3, <4>4 DEF Key
    <3> QED
      BY <3>1, <3>2
  <2> QED
    BY <2>1, <2>2, <2>3, <2>4, <2>5, <2>6
<1>6. ASSUME NEW k \in starts PROVE \E j \in 0 .. m - 1 : k = St(j)
  <2>1. CASE k = g
    BY <2>1
  <2>2. CASE k # g
    <3>1. PICK a \in g .. end - 1 : b[a] = "AND" /\ k = a + 1
      BY <1>6, <2>2
    <3>2. PICK j \in 1 .. m - 1 : a = g + 4 * j + 1
      BY <1>2, <1>3, <3>1
    <3>3. j \in 0 .. m - 1 /\ k = St(j)
      BY <3>1, <3>2
    <3> QED
      BY <3>3
  <2> QED
    BY <2>1, <2>2
<1> DEFINE pairs == {k \in starts : Equals(k) # {}}
           New(k) == \A j \in pairs : j < k => Name(j) # Name(k)
           u == s.nread - g > ContentSize \/ pairs # starts
           v == {<<Name(k), Piece(b, First(Equals(k)) + 1, To(k))>> :
                    k \in {k \in pairs : New(k)}}
<1>7. GetParams(s, b, g) = [s EXCEPT !.ub = u, !.peeked = s.peeked \/ end > s.nread,
                                          !.content = v]
  BY Zenon DEF GetParams, end
<1>11. \A i, j \in 0 .. m - 1 : St(i) < St(j) <=> i < j
  OBVIOUS
<1> HIDE DEF starts, Equals, To, St, Name
<1>8. pairs = starts /\ u = FALSE
  <2>1. \A k \in starts : Equals(k) # {}
    BY <1>5, <1>6
  <2>2. pairs = starts
    BY <2>1
  <2> QED
    BY <2>2
<1> HIDE DEF pairs
<1>12. ASSUME NEW j \in 0 .. m - 1 PROVE New(St(j)) <=> Counts(ps, j + 1)
  <2>1. ASSUME New(St(j)), NEW i \in 1 .. j PROVE Key(ps, i) # Key(ps, j + 1)
    <3>1. PICK h \in 0 .. m - 1 : i = h + 1 /\ h < j
      OBVIOUS
    <3>2. St(h) \in pairs /\ St(h) < St(j) /\ Name(St(h)) = Key(ps, i) /\ Name(St(j)) = Key(ps, j + 1)
      BY <1>5, <1>8, <1>11, <3>1
    <3> QED
      BY <2>1, <3>2
  <2>2. ASSUME Counts(ps, j + 1), NEW k \in pairs, k < St(j) PROVE Name(k) # Name(St(j))
    <3>1. PICK h \in 0 .. m - 1 : k = St(h)
      BY <1>6, <1>8
    <3>2. h + 1 \in 1 .. j + 1 - 1
      BY <1>11, <2>2, <3>1
    <3>3. Name(k) = Key(ps, h + 1) /\ Name(St(j)) = Key(ps, j + 1)
      BY <1>5, <3>1
    <3> QED
      BY <2>2, <3>2, <3>3 DEF Counts
  <2>3. j + 1 - 1 = j
    OBVIOUS
  <2> QED
    BY <2>1, <2>2, <2>3 DEF Counts
<1> HIDE DEF New
<1>9. v = FirstOnes(ps, m)
  <2>1. ASSUME NEW x \in v
        PROVE  \E j \in 1 .. m : Counts(ps, j) /\ x = <<Key(ps, j), <<ps[j][2]>>>>
    <3>1. PICK k \in pairs : New(k) /\ x = <<Name(k), Piece(b, First(Equals(k)) + 1, To(k))>>
      BY <2>1
    <3>2. PICK j \in 0 .. m - 1 : k = St(j)
      BY <1>6, <1>8
    <3>3. x = <<Key(ps, j + 1), <<ps[j + 1][2]>>>> /\ Counts(ps, j + 1) /\ j + 1 \in 1 .. m
      BY <1>5, <1>12, <3>1, <3>2
    <3> QED
      BY <3>3
  <2>2. ASSUME NEW j \in 1 .. m, Counts(ps, j) PROVE <<Key(ps, j), <<ps[j][2]>>>> \in v
    <3>1. PICK i \in 0 .. m - 1 : j = i + 1
      OBVIOUS
    <3>2. /\ St(i) \in pairs /\ New(St(i)) /\ Name(St(i)) = Key(ps, j)
          /\ Piece(b, First(Equals(St(i))) + 1, To(St(i))) = <<ps[j][2]>>
      BY <1>5, <1>8, <1>12, <2>2, <3>1
    <3> QED
      BY <3>2
  <2> HIDE DEF v
  <2> QED
    BY <2>1, <2>2 DEF FirstOnes
<1> HIDE DEF u, v, end
<1>10. end = z
  BY <1>2
<1> QED
  BY <1>7, <1>8, <1>9, <1>10, Zenon DEF WithParams

-----------------------------------------------------------------------------
(* The parser knows the method of q. *)
Known(q) == q.method \in {Word("GET"), Word("POST")}

(* The buffer after a read of the whole of such a q. *)
InBuffer(b, q, e, n, m) ==
    /\ b[0] = q.method[1] /\ b[1] = q.method[2] /\ b[2] = "SP"
    /\ \A k \in 1 .. e : b[2 + k] = q.url[k] /\ q.url[k] \in {"SLASH", "x"}
    /\ b[3 + e] = "SP" /\ b[4 + e] = "HT" /\ b[5 + e] = "TP" /\ b[6 + e] = "SLASH"
    /\ b[7 + e] = "x" /\ b[8 + e] = "CR" /\ b[9 + e] = "LF"
    /\ \A j \in 0 .. n - 1 :
          b[10 + e + 3 * j] = "x" /\ b[11 + e + 3 * j] = "CR" /\ b[12 + e + 3 * j] = "LF"
    /\ b[10 + e + 3 * n] = "CR" /\ Quads(b, 11 + e + 3 * n, q.params, m)

LEMMA KnownLayout ==
    ASSUME Fits, NEW q \in Request, Known(q), NEW e \in Nat, Len(q.url) = e
    PROVE  /\ e \in 1 .. 2 /\ Len(q.method) = 2
           /\ Front(q)[1] = q.method[1] /\ Front(q)[2] = q.method[2] /\ Front(q)[3] = "SP"
           /\ \A k \in 1 .. e : Front(q)[3 + k] = q.url[k] /\ q.url[k] \in {"SLASH", "x"}
<1>1. Len(q.method) = 2
  BY Words DEF Known
<1>2. /\ e \in 1 .. 2 /\ \A k \in 1 .. 2 : Front(q)[k] = q.method[k]
      /\ Front(q)[2 + 1] = "SP"
  BY <1>1, FrontLayout
<1>3. \A k \in 1 .. e : Front(q)[2 + 1 + k] = q.url[k] /\ q.url[k] \in {"SLASH", "x"}
  <2>1. \A k \in 1 .. Len(q.url) : /\ Front(q)[Len(q.method) + 1 + k] = q.url[k]
                                   /\ q.url[k] \in {"SLASH", "x"}
    BY FrontLayout, Zenon
  <2> QED
    BY <1>1, <2>1, Zenon
<1>4. 2 + 1 = 3
  OBVIOUS
<1> QED
  BY <1>1, <1>2, <1>3, <1>4

(* So it is after a read of the whole request into a cleared buffer. *)
LEMMA Buffered ==
    ASSUME Fits, NEW q \in Request, Known(q), NEW b,
           NEW e \in Nat, NEW n \in Nat, NEW m \in Nat, Sizes(q, e, n, m), Len(q.url) = e,
           \A k \in Nat : k < Len0(q) => b[k] = Tokens(q)[k + 1],
           b[Len0(q)] = "0"
    PROVE  InBuffer(b, q, e, n, m)
<1>1. PICK f \in Nat : f = 10 + e + 3 * n /\ Laid(Tokens(q), q, e, n, m, f)
  BY Layout
<1>2. Len0(q) = f + 2 + 4 * m
  BY <1>1 DEF Laid, Len0
<1>3. PICK T : T = Tokens(q)
  OBVIOUS
<1>4. /\ \A k \in Nat : k < f + 2 + 4 * m => b[k] = T[k + 1]
      /\ Laid(T, q, e, n, m, f)
  BY <1>1, <1>2, <1>3
<1>5. /\ b[0] = q.method[1] /\ b[1] = q.method[2] /\ b[2] = "SP"
      /\ \A k \in 1 .. e : b[2 + k] = q.url[k] /\ q.url[k] \in {"SLASH", "x"}
  <2>1. b[0] = T[1] /\ b[1] = T[2] /\ b[2] = T[3]
    BY <1>1, <1>4
  <2>2. ASSUME NEW k \in 1 .. e  PROVE b[2 + k] = T[3 + k]
    <3>1. 2 + k \in Nat /\ 2 + k < f + 2 + 4 * m /\ 2 + k + 1 = 3 + k
      BY <1>1
    <3> QED
      BY <1>4, <3>1
  <2>3. /\ T[1] = q.method[1] /\ T[2] = q.method[2] /\ T[3] = "SP"
        /\ \A k \in 1 .. e : T[3 + k] = q.url[k] /\ q.url[k] \in {"SLASH", "x"}
    <3>1. \A k \in 1 .. 3 + e : T[k] = Front(q)[k]
      BY <1>4 DEF Laid
    <3>2. \A k \in 1 .. e : 3 + k \in 1 .. 3 + e
      OBVIOUS
    <3>3. T[1] = Front(q)[1] /\ T[2] = Front(q)[2] /\ T[3] = Front(q)[3]
      BY <3>1
    <3>4. \A k \in 1 .. e : T[3 + k] = Front(q)[3 + k]
      BY <3>1, <3>2
    <3> QED
      BY <3>3, <3>4, KnownLayout
  <2> QED
    BY <2>1, <2>2, <2>3, Zenon
<1>6. ASSUME NEW k \in 1 .. 7  PROVE b[2 + e + k] = Version[k]
  <2>1. 2 + e + k \in Nat /\ 2 + e + k < f + 2 + 4 * m /\ 2 + e + k + 1 = 3 + e + k
    BY <1>1
  <2>2. b[2 + e + k] = T[3 + e + k]
    BY <1>4, <2>1
  <2>3. T[3 + e + k] = Version[k]
    BY <1>4 DEF Laid
  <2> QED
    BY <2>2, <2>3
<1>7. /\ b[3 + e] = "SP" /\ b[4 + e] = "HT" /\ b[5 + e] = "TP" /\ b[6 + e] = "SLASH"
      /\ b[7 + e] = "x" /\ b[8 + e] = "CR" /\ b[9 + e] = "LF"
  <2>1. /\ b[2 + e + 1] = "SP" /\ b[2 + e + 2] = "HT" /\ b[2 + e + 3] = "TP"
        /\ b[2 + e + 4] = "SLASH" /\ b[2 + e + 5] = "x" /\ b[2 + e + 6] = "CR" /\ b[2 + e + 7] = "LF"
    BY <1>6 DEF Version
  <2> QED
    BY <2>1
<1>8. ASSUME NEW k \in 1 .. 3 * n  PROVE b[9 + e + k] = HeaderLines(q)[k]
  <2>1. 9 + e + k \in Nat /\ 9 + e + k < f + 2 + 4 * m /\ 9 + e + k + 1 = 10 + e + k
    BY <1>1
  <2>2. b[9 + e + k] = T[10 + e + k]
    BY <1>4, <2>1
  <2>3. T[10 + e + k] = HeaderLines(q)[k]
    BY <1>4 DEF Laid
  <2> QED
    BY <2>2, <2>3
<1>9. ASSUME NEW j \in 0 .. n - 1
      PROVE  b[10 + e + 3 * j] = "x" /\ b[11 + e + 3 * j] = "CR" /\ b[12 + e + 3 * j] = "LF"
  <2>1. /\ 3 * j + 1 \in 1 .. 3 * n /\ (3 * j + 1) % 3 = 1 /\ 9 + e + (3 * j + 1) = 10 + e + 3 * j
        /\ 3 * j + 2 \in 1 .. 3 * n /\ (3 * j + 2) % 3 = 2 /\ 9 + e + (3 * j + 2) = 11 + e + 3 * j
        /\ 3 * j + 3 \in 1 .. 3 * n /\ (3 * j + 3) % 3 = 0 /\ 9 + e + (3 * j + 3) = 12 + e + 3 * j
    OBVIOUS
  <2>2. \A k \in 1 .. 3 * n : /\ k % 3 = 1 => HeaderLines(q)[k] = "x"
                              /\ k % 3 = 2 => HeaderLines(q)[k] = "CR"
                              /\ k % 3 = 0 => HeaderLines(q)[k] = "LF"
    BY LinesLayout DEF Sizes
  <2>3. /\ HeaderLines(q)[3 * j + 1] = "x" /\ HeaderLines(q)[3 * j + 2] = "CR"
        /\ HeaderLines(q)[3 * j + 3] = "LF"
    BY <2>1, <2>2
  <2>4. b[9 + e + (3 * j + 1)] = "x" /\ b[9 + e + (3 * j + 2)] = "CR" /\ b[9 + e + (3 * j + 3)] = "LF"
    BY <1>8, <2>1, <2>3, Zenon
  <2> QED
    BY <2>1, <2>4
<1>10. b[f] = "CR" /\ b[f + 1] = "LF" /\ b[f + 2 + 4 * m] = "0"
  <2>1. f \in Nat /\ f < f + 2 + 4 * m /\ f + 1 \in Nat /\ f + 1 < f + 2 + 4 * m /\ f + 1 + 1 = f + 2
    BY <1>1
  <2>2. b[f] = T[f + 1] /\ b[f + 1] = T[f + 2]
    BY <1>4, <2>1
  <2>3. T[f + 1] = "CR" /\ T[f + 2] = "LF"
    BY <1>4 DEF Laid
  <2> QED
    BY <1>2, <2>2, <2>3
<1>11. ASSUME NEW k \in 1 .. 4 * m  PROVE b[f + 1 + k] = Params(q)[k]
  <2>1. f + 1 + k \in Nat /\ f + 1 + k < f + 2 + 4 * m /\ f + 1 + k + 1 = f + 2 + k
    OBVIOUS
  <2>2. b[f + 1 + k] = T[f + 2 + k]
    BY <1>4, <2>1
  <2>3. T[f + 2 + k] = Params(q)[k]
    BY <1>4 DEF Laid
  <2> QED
    BY <2>2, <2>3
<1>12. Quads(b, f + 1, q.params, m)
  <2>1. ASSUME NEW j \in 0 .. m - 1
        PROVE  /\ b[f + 1 + 4 * j + 1] = IF j = 0 THEN "x" ELSE "AND"
               /\ b[f + 1 + 4 * j + 2] = q.params[j + 1][1] /\ b[f + 1 + 4 * j + 3] = "EQ"
               /\ b[f + 1 + 4 * j + 4] = q.params[j + 1][2]
    <3>1. /\ 4 * j + 1 \in 1 .. 4 * m /\ (4 * j + 1) % 4 = 1 /\ f + 1 + (4 * j + 1) = f + 1 + 4 * j + 1
          /\ 4 * j + 2 \in 1 .. 4 * m /\ (4 * j + 2) % 4 = 2 /\ f + 1 + (4 * j + 2) = f + 1 + 4 * j + 2
          /\ 4 * j + 3 \in 1 .. 4 * m /\ (4 * j + 3) % 4 = 3 /\ f + 1 + (4 * j + 3) = f + 1 + 4 * j + 3
          /\ 4 * j + 4 \in 1 .. 4 * m /\ (4 * j + 4) % 4 = 0 /\ f + 1 + (4 * j + 4) = f + 1 + 4 * j + 4
      OBVIOUS
    <3>2. /\ (4 * j + 4) \div 4 = j + 1 /\ ((4 * j + 2) \div 4) + 1 = j + 1
          /\ (j # 0 => 4 * j + 1 > 1) /\ (j = 0 => 4 * j + 1 = 1)
      OBVIOUS
    <3>3. \A k \in 1 .. 4 * m : /\ k = 1 => Params(q)[k] = "x"
                                /\ k > 1 /\ k % 4 = 1 => Params(q)[k] = "AND"
                                /\ k % 4 = 2 => Params(q)[k] = q.params[(k \div 4) + 1][1]
                                /\ k % 4 = 3 => Params(q)[k] = "EQ"
                                /\ k % 4 = 0 => Params(q)[k] = q.params[k \div 4][2]
      <4>1. q.params \in Seq(Names \X Values) /\ Len(q.params) = m
        BY SizesOf DEF Sizes
      <4>2. Fits /\ m \in Nat
        OBVIOUS
      <4>3. \A k \in 1 .. 4 * m :
               /\ k = 1 => Params(q)[k] = "x"
               /\ k > 1 /\ k % 4 = 1 => Params(q)[k] = "AND"
               /\ k % 4 = 2 => Params(q)[k] = q.params[(k \div 4) + 1][1] /\ Params(q)[k] \in Names
               /\ k % 4 = 3 => Params(q)[k] = "EQ"
               /\ k % 4 = 0 => Params(q)[k] = q.params[k \div 4][2] /\ Params(q)[k] \in Values
        BY <4>1, <4>2, ParamsLayout
      <4> QED
        BY <4>3, Zenon
    <3>4. /\ Params(q)[4 * j + 1] = IF j = 0 THEN "x" ELSE "AND"
          /\ Params(q)[4 * j + 2] = q.params[j + 1][1] /\ Params(q)[4 * j + 3] = "EQ"
          /\ Params(q)[4 * j + 4] = q.params[j + 1][2]
      <4>1. Params(q)[4 * j + 1] = (IF j = 0 THEN "x" ELSE "AND") /\ Params(q)[4 * j + 3] = "EQ"
        BY <3>1, <3>2, <3>3
      <4>2. Params(q)[4 * j + 2] = q.params[((4 * j + 2) \div 4) + 1][1]
        BY <3>1, <3>3, Zenon
      <4>3. Params(q)[4 * j + 4] = q.params[(4 * j + 4) \div 4][2]
        BY <3>1, <3>3, Zenon
      <4> QED
        BY <3>2, <4>1, <4>2, <4>3, Zenon
    <3> QED
      BY <1>11, <3>1, <3>4
  <2>2. f + 1 + 4 * m + 1 = f + 2 + 4 * m
    BY <1>1
  <2> QED
    BY <1>10, <2>1, <2>2 DEF Quads
<1>13. 10 + e + 3 * n = f /\ 11 + e + 3 * n = f + 1
  BY <1>1
<1> QED
  BY <1>5, <1>7, <1>9, <1>10, <1>12, <1>13 DEF InBuffer
-----------------------------------------------------------------------------
(* A request in one piece: where the parser is in the buffer, and what it  *)
(* has read so far, in each status.                                        *)
IsMethod(w, q) == w \in {"GET", "POST"} /\ Word(w) = q.method
Read(s, q) ==
    /\ IsMethod(s.method, q) /\ s.url = q.url /\ s.proto = "HTTP"
    /\ s.content = Stored(q.params)
AtMethod(s) == s.rhs \in Early /\ s.begin = 0 /\ s.i \in 0 .. 2 /\ s.content = {}
AtUrl(s, q, e) ==
    s.rhs = "URL" /\ s.begin = 3 /\ s.i \in 3 .. 3 + e /\ s.content = {} /\ IsMethod(s.method, q)
AtProto(s, q, e) ==
    /\ s.rhs = "PROTO" /\ s.begin = 4 + e /\ s.i \in 4 + e .. 6 + e
    /\ s.content = {} /\ IsMethod(s.method, q) /\ s.url = q.url
PastProto(s, q) ==
    s.content = {} /\ IsMethod(s.method, q) /\ s.url = q.url /\ s.proto = "HTTP"
AtVersion(s, q, e) == s.rhs = "VERSION" /\ s.i \in 7 + e .. 8 + e /\ PastProto(s, q)
AtHeader(s, q, e, n) ==
    /\ s.rhs = "REQUEST_HEAD" /\ PastProto(s, q)
    /\ \E j \in 0 .. n - 1 : s.i = 10 + e + 3 * j \/ s.i = 11 + e + 3 * j
AtContent(s, q, e, n, m) ==
    s.rhs = "CONTENT" /\ s.i = 10 + e + 3 * n /\ m > 0 /\ PastProto(s, q)
AtEnd(s, q) == s.rhs = "FINISH" /\ Read(s, q)
Phase(s, q, e, n, m) ==
    /\ s.ub = FALSE
    /\ \/ AtMethod(s) \/ AtUrl(s, q, e) \/ AtProto(s, q, e) \/ AtVersion(s, q, e)
       \/ AtHeader(s, q, e, n) \/ AtContent(s, q, e, n, m) \/ AtEnd(s, q)


(* METHORD moves on to URL with the request's method. *)
LEMMA MethodPhase ==
    ASSUME NEW q, Known(q), NEW e \in 1 .. 2, NEW n \in Nat, NEW m \in Nat,
           NEW b, InBuffer(b, q, e, n, m), NEW s, IsParser(s), s.ub = FALSE, AtMethod(s)
    PROVE  Phase(Bumped(Iterate(s, b)), q, e, n, m)
<1>1. Iterate(s, b) = METHORD(s, b)
  BY Dispatched DEF AtMethod
<1>2. /\ q.method = Word("GET") => b[0] = "GE" /\ b[1] = "T"
      /\ q.method = Word("POST") => b[0] = "PO" /\ b[1] = "ST"
      /\ b[2] = "SP"
  BY Words DEF InBuffer, Known
<1>3. CASE s.i \in 0 .. 1
  <2>1. b[s.i] # "SP"
    BY <1>2, <1>3 DEF Known
  <2>2. Iterate(s, b) = [s EXCEPT !.rhs = "METHORD"]
    BY <1>1, <2>1 DEF METHORD
  <2>3. AtMethod(Bumped(Iterate(s, b))) /\ Bumped(Iterate(s, b)).ub = FALSE
    BY <1>3, <2>2 DEF Bumped, AtMethod, IsParser, Fields, Early
  <2> QED
    BY <2>3 DEF Phase
<1>4. CASE s.i = 2
  <2>1. IsMethod(Method(b, s.begin, s.method), q)
    <3>1. s.begin = 0 /\ 0 + 1 = 1
      BY DEF AtMethod
    <3>2. /\ q.method = Word("GET") => Method(b, 0, s.method) = "GET"
          /\ q.method = Word("POST") => Method(b, 0, s.method) = "POST"
      BY <1>2, <3>1, MethodIs
    <3> QED
      BY <3>1, <3>2 DEF Known, IsMethod
  <2>2. Iterate(s, b) = [s EXCEPT !.rhs = "URL", !.begin = s.i + 1,
                                       !.method = Method(b, s.begin, s.method)]
    BY <1>1, <1>2, <1>4 DEF METHORD
  <2>3. AtUrl(Bumped(Iterate(s, b)), q, e) /\ Bumped(Iterate(s, b)).ub = FALSE
    BY <1>4, <2>1, <2>2 DEF Bumped, AtMethod, AtUrl, IsParser, Fields
  <2> QED
    BY <2>3 DEF Phase
<1> QED
  BY <1>3, <1>4 DEF AtMethod

(* URL moves on to PROTO with the request's url. *)
LEMMA UrlPhase ==
    ASSUME NEW q \in Request, NEW e \in 1 .. 2, NEW n \in Nat, NEW m \in Nat, Len(q.url) = e,
           NEW b, InBuffer(b, q, e, n, m), NEW s, IsParser(s), s.ub = FALSE, AtUrl(s, q, e)
    PROVE  Phase(Bumped(Iterate(s, b)), q, e, n, m)
<1>1. Iterate(s, b) = URL(s, b)
  BY Dispatched DEF AtUrl
<1>2. (\A k \in 1 .. e : b[2 + k] = q.url[k] /\ q.url[k] \in {"SLASH", "x"}) /\ b[3 + e] = "SP"
  BY DEF InBuffer
<1>3. CASE s.i \in 3 .. 2 + e
  <2>1. b[s.i] # "SP"
    <3>1. s.i - 2 \in 1 .. e /\ 2 + (s.i - 2) = s.i
      BY <1>3
    <3> QED
      BY <1>2, <3>1
  <2>2. Iterate(s, b) = s
    BY <1>1, <2>1 DEF URL
  <2>3. AtUrl(Bumped(Iterate(s, b)), q, e) /\ Bumped(Iterate(s, b)).ub = FALSE
    BY <1>3, <2>2 DEF Bumped, AtUrl, IsParser, Fields
  <2> QED
    BY <2>3 DEF Phase
<1>4. CASE s.i = 3 + e
  <2>1. Piece(b, s.begin, s.i) = q.url
    <3>1. q.url \in {<<"SLASH">>, <<"SLASH", "x">>} /\ Len(q.url) = e
      BY DEF Request
    <3>2. q.url = [k \in 1 .. e |-> q.url[k]]
      BY <3>1
    <3>3. s.begin = 3 /\ s.i - s.begin = e
      BY <1>4 DEF AtUrl
    <3>4. \A k \in 1 .. e : b[3 + k - 1] = q.url[k]
      <4>1. \A k \in 1 .. e : 3 + k - 1 = 2 + k
        OBVIOUS
      <4> QED
        BY <1>2, <4>1
    <3>5. Piece(b, s.begin, s.i) = [k \in 1 .. e |-> q.url[k]]
      BY <3>3, <3>4 DEF Piece
    <3> QED
      BY <3>2, <3>5
  <2>2. Iterate(s, b) = [s EXCEPT !.rhs = "PROTO", !.begin = s.i + 1,
                                       !.url = Piece(b, s.begin, s.i)]
    BY <1>1, <1>2, <1>4 DEF URL
  <2>3. AtProto(Bumped(Iterate(s, b)), q, e) /\ Bumped(Iterate(s, b)).ub = FALSE
    BY <1>4, <2>1, <2>2 DEF Bumped, AtUrl, AtProto, IsParser, Fields
  <2> QED
    BY <2>3 DEF Phase
<1> QED
  BY <1>3, <1>4 DEF AtUrl

(* PROTO takes two tokens for HTTP and three for HTTPS. *)
LEMMA ProtoIs ==
    ASSUME NEW b, NEW x \in Nat, NEW to, to = x + 2, NEW old, b[x] = "HT", b[x + 1] = "TP"
    PROVE  Proto(b, x, to, old) = "HTTP"
<1>1. Starts(b, x, "HTTP")
  BY Words DEF Starts
<1>2. to - x = 2 /\ ~ (to - x = 3)
  OBVIOUS
<1> QED
  BY <1>1, <1>2, Zenon DEF Proto

(* PROTO moves on to VERSION with HTTP. *)
LEMMA ProtoPhase ==
    ASSUME NEW q, NEW e \in 1 .. 2, NEW n \in Nat, NEW m \in Nat,
           NEW b, InBuffer(b, q, e, n, m), NEW s, IsParser(s), s.ub = FALSE, AtProto(s, q, e)
    PROVE  Phase(Bumped(Iterate(s, b)), q, e, n, m)
<1>1. Iterate(s, b) = PROTO(s, b)
  BY Dispatched DEF AtProto
<1>2. b[4 + e] = "HT" /\ b[5 + e] = "TP" /\ b[6 + e] = "SLASH"
  BY DEF InBuffer
<1>3. CASE s.i \in 4 + e .. 5 + e
  <2>1. b[s.i] # "SLASH"
    BY <1>2, <1>3
  <2>2. Iterate(s, b) = s
    BY <1>1, <2>1 DEF PROTO
  <2>3. AtProto(Bumped(Iterate(s, b)), q, e) /\ Bumped(Iterate(s, b)).ub = FALSE
    BY <1>3, <2>2 DEF Bumped, AtProto, IsParser, Fields
  <2> QED
    BY <2>3 DEF Phase
<1>4. CASE s.i = 6 + e
  <2>1. Proto(b, s.begin, s.i, s.proto) = "HTTP"
    <3>1. 4 + e \in Nat /\ 4 + e + 1 = 5 + e /\ s.begin = 4 + e /\ s.i = 4 + e + 2
      BY <1>4 DEF AtProto
    <3> QED
      BY <1>2, <3>1, ProtoIs
  <2>2. Iterate(s, b) = [s EXCEPT !.rhs = "VERSION", !.begin = s.i + 1,
                                       !.proto = Proto(b, s.begin, s.i, s.proto)]
    BY <1>1, <1>2, <1>4 DEF PROTO
  <2>3. AtVersion(Bumped(Iterate(s, b)), q, e) /\ Bumped(Iterate(s, b)).ub = FALSE
    BY <1>4, <2>1, <2>2 DEF Bumped, AtProto, AtVersion, PastProto, IsParser, Fields
  <2> QED
    BY <2>3 DEF Phase
<1> QED
  BY <1>3, <1>4 DEF AtProto

(* VERSION moves on to the first header line. *)
LEMMA VersionPhase ==
    ASSUME NEW q, NEW e \in 1 .. 2, NEW n \in Nat, n > 0, NEW m \in Nat,
           NEW b, InBuffer(b, q, e, n, m), NEW s, IsParser(s), s.ub = FALSE, AtVersion(s, q, e)
    PROVE  Phase(Bumped(Iterate(s, b)), q, e, n, m)
<1>1. Iterate(s, b) = VERSION(s, b)
  BY Dispatched DEF AtVersion
<1>2. b[7 + e] = "x" /\ b[8 + e] = "CR" /\ b[9 + e] = "LF"
  BY DEF InBuffer
<1>3. CASE s.i = 7 + e
  <2>1. Iterate(s, b) = s
    BY <1>1, <1>2, <1>3 DEF VERSION
  <2>2. AtVersion(Bumped(Iterate(s, b)), q, e) /\ Bumped(Iterate(s, b)).ub = FALSE
    BY <1>3, <2>1 DEF Bumped, AtVersion, PastProto, IsParser, Fields
  <2> QED
    BY <2>2 DEF Phase
<1>4. CASE s.i = 8 + e
  <2>1. IsEol(b, s.i) /\ b[s.i] = "CR"
    <3>1. 8 + e + 1 = 9 + e
      OBVIOUS
    <3> QED
      BY <1>2, <1>4, <3>1 DEF IsEol
  <2>2. Iterate(s, b) = [[Peek(s, b, s.i + 1) EXCEPT !.i = s.i + 1]
                                 EXCEPT !.rhs = "REQUEST_HEAD", !.begin = s.i + 2]
    BY <1>1, <2>1 DEF VERSION
  <2>3. LET t == Bumped(Iterate(s, b))
        IN  /\ t.rhs = "REQUEST_HEAD" /\ t.ub = FALSE /\ PastProto(t, q) /\ t.i = 10 + e
    BY <1>4, <2>2 DEF Bumped, Peek, AtVersion, PastProto, IsParser, Fields
  <2>4. 0 \in 0 .. n - 1 /\ 10 + e = 10 + e + 3 * 0
    OBVIOUS
  <2>5. AtHeader(Bumped(Iterate(s, b)), q, e, n)
    BY <2>3, <2>4, Zenon DEF AtHeader
  <2> QED
    BY <2>3, <2>5, Zenon DEF Phase
<1> QED
  BY <1>3, <1>4 DEF AtVersion

(* REQUEST_HEAD moves on to the next line, and at the last one to FINISH   *)
(* or, with parameters behind it, to CONTENT.                              *)
LEMMA HeaderPhase ==
    ASSUME NEW q, NEW e \in 1 .. 2, NEW n \in Nat, NEW m \in Nat,
           m = 0 => Stored(q.params) = {},
           NEW b, InBuffer(b, q, e, n, m), NEW s, IsParser(s), s.ub = FALSE,
           s.nread = 10 + e + 3 * n + 2 + 4 * m, AtHeader(s, q, e, n)
    PROVE  Phase(Bumped(Iterate(s, b)), q, e, n, m)
<1>1. Iterate(s, b) = REQUEST_HEAD(s, b)
  BY Dispatched DEF AtHeader
<1>2. PICK j \in 0 .. n - 1 : s.i = 10 + e + 3 * j \/ s.i = 11 + e + 3 * j
  BY DEF AtHeader
<1>3. /\ \A k \in 0 .. n - 1 :
            b[10 + e + 3 * k] = "x" /\ b[11 + e + 3 * k] = "CR" /\ b[12 + e + 3 * k] = "LF"
      /\ b[10 + e + 3 * n] = "CR" /\ b[11 + e + 3 * n] = "LF"
  BY DEF InBuffer, Quads
<1>4. s.i \in Nat /\ s.rhs = "REQUEST_HEAD" /\ PastProto(s, q)
  BY DEF IsParser, AtHeader
<1> DEFINE t == Bumped(Iterate(s, b))
<1>5. CASE s.i = 10 + e + 3 * j
  <2>1. Iterate(s, b) = s
    BY <1>1, <1>3, <1>4, <1>5, HeadCases
  <2>2. t.rhs = "REQUEST_HEAD" /\ t.ub = FALSE /\ PastProto(t, q) /\ t.i = 11 + e + 3 * j
    BY <1>4, <1>5, <2>1 DEF Bumped, PastProto, IsParser, Fields
  <2> QED
    BY <2>2, Zenon DEF Phase, AtHeader
<1>6. CASE s.i = 11 + e + 3 * j /\ j + 1 < n
  <2>1. s.i + 1 = 12 + e + 3 * j /\ j + 1 \in 0 .. n - 1 /\ s.i + 2 = 10 + e + 3 * (j + 1)
    BY <1>6
  <2>2. b[s.i] = "CR" /\ b[s.i + 1] = "LF" /\ b[s.i + 2] # "CR"
    BY <1>3, <1>6, <2>1
  <2>3. Iterate(s, b) = HeadQ(s, b)
    BY <1>1, <1>4, <2>2, HeadCases
  <2>4. PICK p : p = Iterate(s, b)
    OBVIOUS
  <2>5. /\ DOMAIN p = Fields /\ \A f \in Fields \ {"peeked", "i", "begin"} : p[f] = s[f]
        /\ p.i = s.i + 1
    BY <2>3, <2>4, HeadFields
  <2>6. t = [p EXCEPT !.i = p.i + 1]
    BY <2>4 DEF Bumped
  <2>7. t.rhs = "REQUEST_HEAD" /\ t.ub = FALSE /\ PastProto(t, q) /\ t.i = s.i + 2
    BY <1>4, <2>5, <2>6 DEF PastProto, Fields
  <2> QED
    BY <2>1, <2>7, Zenon DEF Phase, AtHeader
<1>7. CASE s.i = 11 + e + 3 * j /\ j + 1 = n
  <2>1. s.i + 1 = 12 + e + 3 * j /\ s.i + 2 = 10 + e + 3 * n /\ s.i + 3 = 11 + e + 3 * n
    BY <1>7
  <2>2. FourEnds(b, s.i)
    BY <1>3, <1>7, <2>1 DEF FourEnds
  <2>3. Iterate(s, b) = [HeadR(s, b) EXCEPT !.rhs = Ends(s.i + 2 + 1, s.nread)]
    BY <1>1, <1>4, <2>2, HeadCases
  <2>4. Ends(s.i + 2 + 1, s.nread) = IF m = 0 THEN "FINISH" ELSE "CONTENT"
    <3>1. /\ s.i + 2 + 1 = 11 + e + 3 * n
          /\ m = 0 <=> 11 + e + 3 * n \in {s.nread - 1, s.nread}
      BY <2>1
    <3> QED
      BY <3>1 DEF Ends
  <2>5. PICK p : p = HeadR(s, b)
    OBVIOUS
  <2>6. /\ DOMAIN p = Fields /\ \A f \in Fields \ {"peeked", "i", "begin"} : p[f] = s[f]
        /\ p.i = s.i + 1
    BY <2>5, HeadFields
  <2>7. PICK r : r = IF m = 0 THEN "FINISH" ELSE "CONTENT"
    OBVIOUS
  <2>8. t = [[p EXCEPT !.rhs = r] EXCEPT !.i = p.i + 1]
    <3>1. Iterate(s, b) = [p EXCEPT !.rhs = r]
      BY <2>3, <2>4, <2>5, <2>7
    <3> QED
      BY <2>6, <3>1 DEF Bumped, Fields
  <2>9. /\ t.rhs = r /\ t.ub = p.ub /\ t.content = p.content /\ t.method = p.method
        /\ t.url = p.url /\ t.proto = p.proto /\ t.i = p.i + 1
    BY <2>6, <2>8 DEF Fields
  <2>10. /\ p.ub = s.ub /\ p.content = s.content /\ p.method = s.method
         /\ p.url = s.url /\ p.proto = s.proto
    BY <2>6 DEF Fields
  <2>11. t.rhs = r /\ t.ub = FALSE /\ PastProto(t, q) /\ t.i = s.i + 2
    BY <1>4, <2>6, <2>9, <2>10 DEF PastProto
  <2>12. CASE m = 0
    <3>1. Stored(q.params) = {}
      BY <2>12
    <3>2. Read(t, q)
      BY <2>7, <2>11, <3>1 DEF Read, PastProto
    <3> QED
      BY <2>7, <2>11, <2>12, <3>2 DEF Phase, AtEnd
  <2>13. CASE m > 0
    BY <2>1, <2>7, <2>11, <2>13 DEF Phase, AtContent
  <2> QED
    BY <2>12, <2>13
<1> QED
  BY <1>2, <1>5, <1>6, <1>7

(* CONTENT reads the parameters and finishes. *)
LEMMA ContentPhase ==
    ASSUME NEW q, NEW e \in 1 .. 2, NEW n \in Nat, NEW m \in Nat, Len(q.params) = m,
           NEW b, InBuffer(b, q, e, n, m), NEW s, IsParser(s), s.ub = FALSE,
           10 + e + 3 * n + 2 + 4 * m \in Slots, Slots \subseteq Int,
           s.nread = 10 + e + 3 * n + 2 + 4 * m, ContentSize \in Nat, 4 * m < ContentSize,
           Plain(q.params, m), AtContent(s, q, e, n, m)
    PROVE  Phase(Bumped(Iterate(s, b)), q, e, n, m)
<1>1. Iterate(s, b) = CONTENT(s, b)
  BY Dispatched DEF AtContent
<1>2. PICK g \in Nat, z \in Slots : g = 11 + e + 3 * n /\ z = g + 4 * m + 1
  <2>1. 11 + e + 3 * n \in Nat /\ 10 + e + 3 * n + 2 + 4 * m = 11 + e + 3 * n + 4 * m + 1
    OBVIOUS
  <2> QED
    BY <2>1
<1>3. /\ s.i + 1 = g /\ m > 0 /\ b[s.i] = "CR" /\ Quads(b, g, q.params, m) /\ PastProto(s, q)
  <2>1. s.i = 10 + e + 3 * n /\ m > 0 /\ PastProto(s, q) /\ b[10 + e + 3 * n] = "CR"
    BY DEF AtContent, InBuffer
  <2>2. Quads(b, g, q.params, m)
    BY <1>2 DEF InBuffer
  <2>3. 10 + e + 3 * n + 1 = g
    BY <1>2
  <2> QED
    BY <2>1, <2>2, <2>3
<1>4. PICK V : V = Stored(q.params) /\ V = FirstOnes(q.params, m)
  BY DEF Stored, FirstOnes
<1>5. PICK c : c = (s.peeked \/ z > s.nread)
  OBVIOUS
<1>6. GetParams(s, b, g) = [s EXCEPT !.ub = FALSE, !.peeked = c, !.content = V]
  <2>1. GetParams(s, b, g) = WithParams(s, q.params, m, z)
    <3>1. ~ (s.nread - g > ContentSize)
      BY <1>2
    <3>2. PICK ps : ps = q.params
      OBVIOUS
    <3>3. Plain(ps, m) /\ Quads(b, g, ps, m)
      BY <1>3, <3>2
    <3>4. GetParams(s, b, g) = WithParams(s, ps, m, z)
      BY <1>2, <1>3, <3>1, <3>3, ParamsRead
    <3> QED
      BY <3>2, <3>4
  <2> QED
    BY <1>4, <1>5, <2>1, Zenon DEF WithParams
<1>7. Iterate(s, b) = [GetParams(s, b, g) EXCEPT !.rhs = "FINISH"]
  BY <1>1, <1>3 DEF CONTENT
<1> DEFINE t == Bumped(Iterate(s, b))
<1>8. /\ t.rhs = "FINISH" /\ t.ub = FALSE /\ t.content = V
      /\ IsMethod(t.method, q) /\ t.url = q.url /\ t.proto = "HTTP"
  BY <1>3, <1>6, <1>7 DEF Bumped, PastProto, IsParser, Fields
<1> QED
  BY <1>4, <1>8, Zenon DEF Phase, AtEnd, Read

(* FINISH stays. *)
LEMMA EndPhase ==
    ASSUME NEW q, NEW e, NEW n, NEW m, NEW b, NEW s, IsParser(s), s.ub = FALSE, AtEnd(s, q)
    PROVE  Phase(Bumped(Iterate(s, b)), q, e, n, m)
<1>1. Iterate(s, b) = s
  BY Dispatched DEF AtEnd
<1>2. Bumped(s).ub = FALSE /\ AtEnd(Bumped(s), q)
  BY DEF Bumped, AtEnd, Read, IsParser, Fields
<1> QED
  BY <1>1, <1>2 DEF Phase

-----------------------------------------------------------------------------
(* Nothing was cut: either nothing was read yet, or the whole request was, *)
(* in one piece and into a cleared buffer.  Then the parser is in one of   *)
(* its phases; the copy in http_server.cpp forgets its status at the end,  *)
(* but not the fields.                                                     *)
Whole == cuts = {} /\ pos = Len0(req)
OneInv ==
    /\ cuts = {} => pos = 0 \/ pos = Len0(req)
    /\ pos = 0 => buf = Zeros /\ parser = NewRequest
    /\ Whole => /\ parser.nread = Len0(req) /\ buf[Len0(req)] = "0"
                /\ Parsable =>
                      \/ Phase(parser, req, Len(req.url), req.headers, Len(req.params))
                      \/ /\ code = "http_server" /\ parser.i >= parser.nread
                         /\ parser.ub = FALSE /\ Read(parser, req)

(* A request the parser is made for: the sizes of its parts. *)
LEMMA ParsableSizes ==
    ASSUME Fits, req \in Request, Parsable,
           NEW e \in Nat, NEW n \in Nat, NEW m \in Nat, Sizes(req, e, n, m)
    PROVE  /\ Len(req.url) = e /\ e \in 1 .. 2 /\ req.headers = n /\ Len(req.params) = m
           /\ n > 0 /\ Known(req) /\ 4 * m < ContentSize
<1>1. Known(req) /\ req.headers = n /\ n > 0 /\ Len(req.params) = m
  BY DEF Parsable, Known, Sizes
<1>2. Len(req.method) = 2
  BY <1>1, Words DEF Known
<1>3. Len(req.url) \in 1 .. 2
  BY FrontLayout
<1>4. 2 + Len(req.url) = e + 2
  BY <1>2 DEF Sizes
<1>5. Len(req.url) = e
  BY <1>3, <1>4
<1>6. Len(Params(req)) = 4 * m
  BY <1>1, SizesOf, ParamsLayout
<1>7. 4 * m < ContentSize
  BY <1>6 DEF Parsable
<1> QED
  BY <1>1, <1>3, <1>5, <1>7

(* The first read starts the phases, or cuts. *)
LEMMA FeedOneInv ==
    ASSUME Fits, HttpInv, OneInv,
           NEW n \in 1 .. Len0(req), NEW fresh \in BOOLEAN, Feed(n, fresh)
    PROVE  OneInv'
<1>1. Len0(req) \in Nat /\ Len0(req) + 2 < BUFSIZE /\ BUFSIZE \in Nat /\ n \in Nat
  BY LenIsNat DEF HttpInv
<1>2. /\ req' = req /\ pos' = pos + n /\ pos + n <= Len0(req) /\ parser' = Enter(parser, n)
      /\ cuts' = cuts \cup ({pos'} \ {Len0(req)}) /\ code' = code
      /\ buf' = Filled(IF fresh THEN Zeros ELSE buf, n)
  BY DEF Feed
<1>3. pos \in Nat /\ pos' # 0
  BY <1>1, <1>2 DEF HttpInv
<1>4. Len0(req)' = Len0(req)
  BY <1>2
<1>5. ASSUME cuts' = {}  PROVE pos = 0 /\ n = Len0(req)
  <2>1. cuts = {} /\ pos' = Len0(req)
    BY <1>2, <1>5
  <2>2. pos = 0 \/ pos = Len0(req)
    BY <2>1 DEF OneInv
  <2> QED
    BY <1>1, <1>2, <1>3, <2>1, <2>2
<1>6. ASSUME cuts' = {}
      PROVE  /\ parser'.nread = Len0(req) /\ buf'[Len0(req)] = "0"
             /\ AtMethod(parser') /\ parser'.ub = FALSE
  <2>1. parser = NewRequest /\ buf = Zeros /\ n = Len0(req)
    BY <1>5, <1>6 DEF OneInv
  <2>2. parser'.nread = n /\ AtMethod(parser') /\ parser'.ub = FALSE
    BY <1>2, <2>1 DEF Enter, NewRequest, AtMethod, Early
  <2>3. n \in Slots /\ ~ (n < n)
    BY <1>1, <2>1 DEF Slots
  <2>4. buf' = Filled(Zeros, n)
    BY <1>2, <2>1
  <2>5. buf'[n] = "0"
    BY <2>3, <2>4 DEF Filled, Zeros
  <2> QED
    BY <2>1, <2>2, <2>5
<1>7. cuts' = {} => pos' = Len0(req)
  BY <1>1, <1>2, <1>5
<1> QED
  BY <1>2, <1>3, <1>4, <1>6, <1>7 DEF OneInv, Whole, Phase

(* An iteration goes from phase to phase; the copy in http_server.cpp      *)
(* leaves the last one for START.                                          *)
LEMMA LoopOneInv ==
    ASSUME Fits, HttpInv, OneInv, Loop
    PROVE  OneInv'
<1>1. /\ Running(parser) /\ code' = code /\ req' = req /\ pos' = pos /\ buf' = buf /\ cuts' = cuts
      /\ parser' = Leave(Bumped(Iterate(parser, buf)))
  BY DEF Loop
<1>2. req \in Request /\ IsParser(parser) /\ pos \in Nat /\ parser.nread <= pos
  BY DEF HttpInv
<1>3. Len0(req) \in Nat /\ Len0(req) + 2 < BUFSIZE /\ BUFSIZE \in Nat
  BY <1>2, LenIsNat
<1>4. parser.i < parser.nread /\ parser.ub = FALSE
  BY <1>1, <1>2 DEF Running, IsParser
<1>5. pos # 0
  BY <1>2, <1>4 DEF IsParser
<1>6. Len0(req)' = Len0(req) /\ (Whole' <=> Whole) /\ (Parsable' <=> Parsable)
  BY <1>1 DEF Whole, Parsable
<1> DEFINE t == Bumped(Iterate(parser, buf))
<1>7. IsParser(t) /\ t.nread = parser.nread
  <2>1. PICK p : p = Iterate(parser, buf)
    OBVIOUS
  <2>2. IsParser(p) /\ p.nread = parser.nread
    BY <1>2, <2>1, AlwaysMoves DEF Moves
  <2>3. t = [p EXCEPT !.i = p.i + 1]
    BY <2>1 DEF Bumped
  <2> QED
    BY <2>2, <2>3 DEF IsParser, Fields
<1>8. parser'.nread = parser.nread
  BY <1>1, <1>7 DEF Leave, Returned, IsParser, Fields
<1>9. ASSUME Whole, Parsable
      PROVE  \/ Phase(parser', req, Len(req.url), req.headers, Len(req.params))
             \/ /\ code = "http_server" /\ parser'.i >= parser'.nread
                /\ parser'.ub = FALSE /\ Read(parser', req)
  <2>1. PICK e \in Nat, n \in Nat, m \in Nat : Sizes(req, e, n, m)
    BY <1>2, SizesOf
  <2>2. /\ Len(req.url) = e /\ e \in 1 .. 2 /\ req.headers = n /\ Len(req.params) = m /\ n > 0
        /\ Known(req) /\ 4 * m < ContentSize
    BY <1>2, <1>9, <2>1, ParsableSizes
  <2>3. PICK L \in Nat : L = Len0(req) /\ L = 10 + e + 3 * n + 2 + 4 * m
    <3>1. Len0(req) = 10 + e + 3 * n + 2 + 4 * m
      BY <1>2, <2>1, LenIs
    <3> QED
      BY <3>1
  <2>4. parser.nread = L /\ pos = L /\ buf[L] = "0"
    BY <1>9, <2>3 DEF OneInv, Whole
  <2>5. InBuffer(buf, req, e, n, m)
    <3>1. \A k \in Nat : k < L => buf[k] = Tokens(req)[k + 1]
      <4>1. \A k \in Nat : k < parser.nread => buf[k] = Tokens(req)[pos - parser.nread + k + 1]
        BY DEF HttpInv
      <4>2. \A k \in Nat : pos - parser.nread + k + 1 = k + 1
        BY <2>4
      <4> QED
        BY <2>4, <4>1, <4>2
    <3> QED
      BY <1>2, <2>1, <2>2, <2>3, <2>4, <3>1, Buffered
  <2>6. Phase(parser, req, e, n, m)
    BY <1>4, <1>9, <2>2, <1>2 DEF OneInv, IsParser
  <2>7. L \in Slots /\ Slots \subseteq Int
    BY <1>3, <2>3 DEF Slots
  <2>8. Phase(t, req, e, n, m)
    <3>1. CASE AtMethod(parser)
      BY <1>2, <1>4, <2>2, <2>5, <3>1, MethodPhase
    <3>2. CASE AtUrl(parser, req, e)
      BY <1>2, <1>4, <2>2, <2>5, <3>2, UrlPhase
    <3>3. CASE AtProto(parser, req, e)
      BY <1>2, <1>4, <2>2, <2>5, <3>3, ProtoPhase
    <3>4. CASE AtVersion(parser, req, e)
      BY <1>2, <1>4, <2>2, <2>5, <3>4, VersionPhase
    <3>5. CASE AtHeader(parser, req, e, n)
      <4>1. m = 0 => Stored(req.params) = {}
        BY <2>2 DEF Stored
      <4> QED
        BY <1>2, <1>4, <2>2, <2>3, <2>4, <2>5, <3>5, <4>1, HeaderPhase
    <3>6. CASE AtContent(parser, req, e, n, m)
      <4>1. Plain(req.params, m)
        BY <1>2, <2>2, SizesOf, ParamsPlain
      <4>2. ContentSize \in Nat
        BY DEF Fits
      <4> QED
        BY <1>2, <1>4, <2>2, <2>3, <2>4, <2>5, <2>7, <3>6, <4>1, <4>2, ContentPhase
    <3>7. CASE AtEnd(parser, req)
      BY <1>2, <1>4, <3>7, EndPhase
    <3> QED
      BY <2>6, <3>1, <3>2, <3>3, <3>4, <3>5, <3>6, <3>7 DEF Phase
  <2>9. CASE code = "http_server" /\ t.i >= t.nread
    <3>1. t.i \in Nat /\ t.i >= L
      BY <1>7, <2>4, <2>9 DEF IsParser
    <3>2. AtEnd(t, req) /\ t.ub = FALSE
      <4>1. /\ ~ AtMethod(t) /\ ~ AtUrl(t, req, e) /\ ~ AtProto(t, req, e) /\ ~ AtVersion(t, req, e)
            /\ ~ AtContent(t, req, e, n, m)
        BY <2>3, <3>1 DEF AtMethod, AtUrl, AtProto, AtVersion, AtContent
      <4>2. ~ AtHeader(t, req, e, n)
        BY <2>3, <3>1 DEF AtHeader
      <4> QED
        BY <2>8, <4>1, <4>2 DEF Phase
    <3>3. parser' = [t EXCEPT !.rhs = "START"]
      BY <1>1, <2>9 DEF Leave, Returned
    <3>4. parser'.i >= parser'.nread /\ parser'.ub = FALSE /\ Read(parser', req)
      BY <1>7, <2>9, <3>2, <3>3 DEF AtEnd, Read, IsParser, Fields
    <3> QED
      BY <2>9, <3>4
  <2>10. CASE ~ (code = "http_server" /\ t.i >= t.nread)
    <3>1. parser' = t
      BY <1>1, <2>10 DEF Leave, Returned
    <3> QED
      BY <2>2, <2>8, <3>1
  <2> QED
    BY <2>9, <2>10
<1> QED
  BY <1>1, <1>5, <1>6, <1>8, <1>9 DEF OneInv, Whole

(* Every step keeps it. *)
LEMMA NextOneInv ==
    ASSUME Fits, HttpInv, OneInv, [Next]_vars PROVE OneInv'
<1>1. CASE read_http_status_machine \/ readHttpRequestStatusMachine
  BY <1>1, Copies, LoopOneInv
<1>2. ASSUME NEW n \in 1 .. Len0(req), NEW fresh \in BOOLEAN, Feed(n, fresh)
      PROVE  OneInv'
  BY <1>2, FeedOneInv
<1>3. CASE UNCHANGED vars
  BY <1>3 DEF vars, OneInv, Whole, Parsable
<1> QED
  BY <1>1, <1>2, <1>3 DEF Next

(* Behind nread only the last phase is left. *)
LEMMA WholeIsRead == ASSUME Fits, HttpInv, OneInv PROVE OnePiece
<1> SUFFICES ASSUME Complete, cuts = {}, Parsable
             PROVE  Agrees(parser) /\ (code = "http_request" => parser.rhs = "FINISH")
  BY DEF OnePiece
<1>1. req \in Request /\ IsParser(parser)
  BY DEF HttpInv
<1>2. PICK e \in Nat, n \in Nat, m \in Nat : Sizes(req, e, n, m)
  BY <1>1, SizesOf
<1>3. Len(req.url) = e /\ req.headers = n /\ Len(req.params) = m
  BY <1>1, <1>2, ParsableSizes
<1>4. PICK L \in Nat : L = Len0(req) /\ L = 10 + e + 3 * n + 2 + 4 * m
  <2>1. Len0(req) = 10 + e + 3 * n + 2 + 4 * m
    BY <1>1, <1>2, LenIs
  <2> QED
    BY <2>1
<1>5. Whole
  BY DEF Whole, Complete
<1>6. /\ parser.nread = L
      /\ \/ Phase(parser, req, e, n, m)
         \/ code = "http_server" /\ parser.ub = FALSE /\ Read(parser, req)
  BY <1>3, <1>4, <1>5 DEF OneInv
<1>7. parser.ub = FALSE
  BY <1>6 DEF Phase
<1>8. parser.i >= L /\ parser.i \in Nat
  BY <1>1, <1>6, <1>7 DEF Complete, Running, IsParser
<1>9. CASE Phase(parser, req, e, n, m)
  <2>1. /\ ~ AtMethod(parser) /\ ~ AtUrl(parser, req, e) /\ ~ AtProto(parser, req, e)
        /\ ~ AtVersion(parser, req, e) /\ ~ AtContent(parser, req, e, n, m)
    BY <1>4, <1>8 DEF AtMethod, AtUrl, AtProto, AtVersion, AtContent
  <2>2. ~ AtHeader(parser, req, e, n)
    BY <1>4, <1>8 DEF AtHeader
  <2>3. AtEnd(parser, req)
    BY <1>9, <2>1, <2>2 DEF Phase
  <2> QED
    BY <1>7, <2>3 DEF AtEnd, Read, IsMethod, Agrees
<1>10. CASE code = "http_server" /\ parser.ub = FALSE /\ Read(parser, req)
  BY <1>10 DEF Read, IsMethod, Agrees
<1> QED
  BY <1>6, <1>9, <1>10

(* Nothing was read yet. *)
LEMMA InitOneInv == ASSUME Fits, Init PROVE OneInv
<1>1. pos = 0 /\ buf = Zeros /\ parser = NewRequest /\ cuts = {} /\ req \in Request
  BY DEF Init
<1>2. Len0(req) # 0
  <2>1. PICK e \in Nat, n \in Nat, m \in Nat : Sizes(req, e, n, m)
    BY <1>1, SizesOf
  <2>2. Len0(req) = 10 + e + 3 * n + 2 + 4 * m
    BY <1>1, <2>1, LenIs
  <2> QED
    BY <2>2
<1> QED
  BY <1>1, <1>2 DEF OneInv, Whole

(* The parser's fields and the places it looks at keep their types, for    *)
(* requests of any length that fit into the buffer: i and begin stay       *)
(* inside _buf, although the loop looks up to three places past i without  *)
(* asking for nread.                                                       *)
THEOREM HttpTypeCorrect == Spec => []TypeOK
<1>1. HttpInv => TypeOK
  <2> SUFFICES ASSUME HttpInv PROVE TypeOK
    OBVIOUS
  <2>1. Len0(req) \in Nat /\ Len0(req) + 2 < BUFSIZE /\ BUFSIZE \in Nat
    BY LenIsNat, HttpAssumption DEF HttpInv
  <2>2. /\ req \in Request /\ pos \in Nat /\ pos <= Len0(req) /\ IsParser(parser)
        /\ parser.nread <= pos /\ parser.i <= parser.nread + 1 /\ parser.begin <= parser.nread + 2
        /\ parser.method \in {"unset", "GET", "POST"} /\ cuts \subseteq 1 .. Len0(req) - 1
    BY DEF HttpInv
  <2> QED
    BY <2>1, <2>2 DEF IsParser, TypeOK, Slots
<1>2. Init => HttpInv
  BY InitHttpInv, HttpAssumption
<1>3. HttpInv /\ [Next]_vars => HttpInv'
  BY NextHttpInv, HttpAssumption
<1> QED
  BY <1>1, <1>2, <1>3, PTL DEF Spec

(* No request is answered early: however it is cut, the parser does not    *)
(* say CONTENT or FINISH before the empty line was read, unless it looked  *)
(* at bytes that an earlier read left behind nread.                        *)
THEOREM HttpNotEarly == Spec => []NotEarly
<1>1. HttpInv => NotEarly
  BY DEF HttpInv
<1>2. Init => HttpInv
  BY InitHttpInv, HttpAssumption
<1>3. HttpInv /\ [Next]_vars => HttpInv'
  BY NextHttpInv, HttpAssumption
<1> QED
  BY <1>1, <1>2, <1>3, PTL DEF Spec

(* The parser says GET or POST only if that word is in the client's method *)
(* at its start, or where a read was cut, for any methods and any cuts:    *)
(* METHORD looks at the start of a read, the request has the words nowhere *)
(* but in its method, and the space it has found is behind both tokens of  *)
(* the word, so these are no bytes of an earlier read.                     *)
THEOREM HttpMethodIsFound == Spec => []MethodIsFound
<1>1. HttpInv => MethodIsFound
  BY DEF HttpInv
<1>2. Init => HttpInv
  BY InitHttpInv, HttpAssumption
<1>3. HttpInv /\ [Next]_vars => HttpInv'
  BY NextHttpInv, HttpAssumption
<1> QED
  BY <1>1, <1>2, <1>3, PTL DEF Spec

(* A request of any number of headers that arrives in one piece, whose     *)
(* parameters fit into t_content, is read by both copies of the parser:    *)
(* method, url, protocol, and every parameter's value under its name, the  *)
(* first of those with the same name; the name of the first one has the    *)
(* line feed in front.  No NULL pointer is used, t_content is not written  *)
(* past its end, and http_request's copy ends with FINISH.                 *)
THEOREM HttpOnePiece == Spec => []OnePiece
<1>1. Init => HttpInv /\ OneInv
  BY InitHttpInv, InitOneInv, HttpAssumption
<1>2. HttpInv /\ OneInv /\ [Next]_vars => HttpInv' /\ OneInv'
  BY NextHttpInv, NextOneInv, HttpAssumption
<1>3. HttpInv /\ OneInv => OnePiece
  BY WholeIsRead, HttpAssumption
<1> QED
  BY <1>1, <1>2, <1>3, PTL DEF Spec

-----------------------------------------------------------------------------
(***************************************************************************)
(* RedisClient.tla, for any holders and any number of calls.               *)
(*                                                                         *)
(* HeldIsAlive needs that the count is the number of holders (CountExact): *)
(* only then is refcount = 1 the last holder, and another count not the    *)
(* last.  FreedOnce needs that a live object has a freed context only      *)
(* after a failed connect (Dangling).                                      *)
(***************************************************************************)
CONSTANTS Holder, MaxContexts, MaxReplies
VARIABLES alive, refcount, c, ptr, holders, context, reply, failed, shared, reset, ub
redis == INSTANCE RedisClient

CountExact ==
    /\ IsFiniteSet(holders)
    /\ ~ reset /\ alive => refcount = Cardinality(holders)
    /\ ~ reset /\ ~ alive => holders = {} /\ shared
    /\ ~ reset /\ alive => (shared <=> holders # {})
Dangling == alive /\ redis!IsFreed(c) => failed

RedisInv == redis!TypeOK /\ CountExact /\ Dangling /\ redis!FreedOnce

-----------------------------------------------------------------------------
LEMMA InitRedisInv == redis!Init => RedisInv
<1> SUFFICES ASSUME redis!Init PROVE RedisInv
  OBVIOUS
<1>1. redis!TypeOK
  BY DEF redis!Init, redis!TypeOK, redis!NULL
<1>2. CountExact
  BY FS_EmptySet DEF redis!Init, CountExact
<1>3. Dangling /\ redis!FreedOnce
  BY DEF redis!Init, Dangling, redis!FreedOnce, redis!IsFreed
<1> QED
  BY <1>1, <1>2, <1>3 DEF RedisInv

LEMMA IncrRedisInv == ASSUME RedisInv, NEW h \in Holder, redis!incrRefCount(h) PROVE RedisInv'
<1>1. redis!TypeOK'
  BY DEF RedisInv, redis!TypeOK, redis!incrRefCount, redis!hiredis
<1>2. CountExact'
  BY FS_AddElement DEF RedisInv, redis!TypeOK, CountExact, redis!incrRefCount, redis!InUse
<1>3. Dangling' /\ redis!FreedOnce'
  BY DEF RedisInv, Dangling, redis!FreedOnce, redis!IsFreed, redis!incrRefCount, redis!hiredis
<1> QED
  BY <1>1, <1>2, <1>3 DEF RedisInv

LEMMA DecrRedisInv == ASSUME RedisInv, NEW h \in Holder, ~ ub, redis!decrRefCount(h) PROVE RedisInv'
<1>1. /\ holders' = holders \ {h} /\ h \in holders /\ alive
      /\ IsFiniteSet(holders') /\ Cardinality(holders') = Cardinality(holders) - 1
      /\ Cardinality(holders) \in Nat /\ Cardinality(holders') \in Nat
  BY FS_RemoveElement, FS_CardinalityType DEF RedisInv, CountExact, redis!decrRefCount
<1>2. CASE redis!Last(refcount) /\ alive' = FALSE /\ redis!Destroy /\ UNCHANGED refcount
  <2>1. redis!TypeOK'
    <3>1. context' \in [redis!Context -> {"unused", "open", "freed"}]
      BY <1>2 DEF RedisInv, redis!TypeOK, redis!Destroy, redis!redisFree, redis!NULL
    <3>2. reply' \in [redis!Reply -> {"unused", "made", "freed"}]
      BY <1>2 DEF RedisInv, redis!TypeOK, redis!Destroy, redis!NULL
    <3> QED
      BY <1>1, <1>2, <3>1, <3>2 DEF RedisInv, redis!TypeOK, redis!decrRefCount, redis!Destroy, redis!IsFreed
  <2>2. CountExact'
    <3>1. ~ reset => holders' = {} /\ shared
      BY <1>1, <1>2, FS_EmptySet DEF RedisInv, CountExact, redis!Last
    <3> QED
      BY <1>1, <1>2, <3>1 DEF CountExact, redis!decrRefCount
  <2>3. Dangling'
    BY <1>2 DEF Dangling
  <2>4. redis!FreedOnce'
    BY <1>1, <1>2 DEF RedisInv, Dangling, redis!FreedOnce, redis!Destroy, redis!decrRefCount
  <2> QED
    BY <2>1, <2>2, <2>3, <2>4 DEF RedisInv
<1>3. CASE /\ ~ redis!Last(refcount) /\ refcount' = redis!Decr(refcount)
           /\ UNCHANGED <<alive, context, reply, ub>>
  <2>1. redis!TypeOK'
    BY <1>1, <1>3 DEF RedisInv, redis!TypeOK, redis!decrRefCount, redis!Decr
  <2>2. CountExact'
    <3>1. ~ reset => refcount = Cardinality(holders) /\ refcount > 0
      BY <1>1 DEF RedisInv, CountExact
    <3>2. ~ reset => refcount' = Cardinality(holders')
      BY <1>1, <1>3, <3>1 DEF redis!Decr
    <3>3. ~ reset => holders' # {} /\ shared
      BY <1>1, <1>3, <3>1, FS_EmptySet DEF RedisInv, CountExact, redis!Last
    <3> QED
      BY <1>1, <1>3, <3>2, <3>3 DEF CountExact, redis!decrRefCount
  <2>3. Dangling' /\ redis!FreedOnce'
    BY <1>3 DEF RedisInv, Dangling, redis!FreedOnce, redis!IsFreed, redis!decrRefCount
  <2> QED
    BY <2>1, <2>2, <2>3 DEF RedisInv
<1> QED
  BY <1>2, <1>3 DEF redis!decrRefCount

LEMMA RefCountRedisInv == ASSUME RedisInv, ~ ub, redis!RefCount PROVE RedisInv'
<1>1. ASSUME redis!resetRefcount PROVE RedisInv'
  BY <1>1 DEF RedisInv, redis!TypeOK, CountExact, Dangling, redis!FreedOnce, redis!IsFreed, redis!resetRefcount,
              redis!hiredis
<1>2. ASSUME redis!UseDeleted PROVE RedisInv'
  BY <1>2 DEF RedisInv, redis!TypeOK, CountExact, Dangling, redis!FreedOnce, redis!UseDeleted, redis!hiredis
<1> QED
  BY <1>1, <1>2, IncrRedisInv, DecrRedisInv DEF redis!RefCount

LEMMA ClientRedisInv == ASSUME RedisInv, ~ ub, redis!Client PROVE RedisInv'
<1>1. ASSUME redis!ConnectNull PROVE RedisInv'
  BY <1>1 DEF RedisInv, redis!TypeOK, CountExact, Dangling, redis!FreedOnce, redis!IsFreed, redis!ConnectNull
<1>2. ASSUME NEW i \in redis!Context, redis!Connect(i) PROVE RedisInv'
  BY <1>2 DEF RedisInv, redis!TypeOK, CountExact, Dangling, redis!FreedOnce, redis!IsFreed, redis!Connect
<1>3. ASSUME NEW i \in redis!Context, redis!ConnectError(i) PROVE RedisInv'
  <2>1. context' \in [redis!Context -> {"unused", "open", "freed"}]
    BY <1>3 DEF RedisInv, redis!TypeOK, redis!ConnectError, redis!redisFree, redis!NULL, redis!Context
  <2> QED
    BY <1>3, <2>1 DEF RedisInv, redis!TypeOK, CountExact, Dangling, redis!FreedOnce, redis!IsFreed,
                      redis!ConnectError
<1>4. ASSUME NEW r \in redis!Reply, redis!Command(r) PROVE RedisInv'
  <2>1. redis!TypeOK'
    BY <1>4 DEF RedisInv, redis!TypeOK, redis!Command, redis!IsFreed
  <2>2. CountExact' /\ Dangling' /\ redis!FreedOnce'
    BY <1>4 DEF RedisInv, CountExact, Dangling, redis!FreedOnce, redis!IsFreed, redis!Command, redis!InUse
  <2> QED
    BY <2>1, <2>2 DEF RedisInv
<1> QED
  BY <1>1, <1>2, <1>3, <1>4 DEF redis!Client

LEMMA RedisInductive == redis!Spec => []RedisInv
<1>1. RedisInv /\ [redis!Next]_(redis!vars) => RedisInv'
  <2>1. RedisInv /\ UNCHANGED redis!vars => RedisInv'
    BY DEF RedisInv, redis!TypeOK, CountExact, Dangling, redis!FreedOnce, redis!IsFreed, redis!vars
  <2> QED
    BY <2>1, RefCountRedisInv, ClientRedisInv DEF redis!Next
<1> QED
  BY <1>1, InitRedisInv, PTL DEF redis!Spec

(* A reference counted client is there until somebody takes a reference    *)
(* and for whoever holds one, and it is deleted in the step in which the   *)
(* last one is given back (seda_object.cpp:10-24), for any number of       *)
(* holders, as long as nobody calls resetRefcount.                         *)
THEOREM HeldStaysAlive == redis!Spec => []redis!HeldIsAlive
<1>1. RedisInv => redis!HeldIsAlive
  BY FS_EmptySet DEF RedisInv, CountExact, redis!HeldIsAlive
<1> QED
  BY <1>1, RedisInductive, PTL

(* The count never goes below zero, and context and reply are only ever    *)
(* members that redisConnect and redisCommand have filled.                 *)
THEOREM RedisTypeCorrect == redis!Spec => []redis!TypeOK
BY RedisInductive, PTL DEF RedisInv

(* No context is used after it was freed, or freed twice, unless a connect *)
(* has failed or resetRefcount was called (redis_client.cpp:4-31).         *)
THEOREM ContextFreedOnce == redis!Spec => []redis!FreedOnce
BY RedisInductive, PTL DEF RedisInv

==============================================================================
