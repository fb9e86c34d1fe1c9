---------------------------- MODULE MCRouteTable ----------------------------
(* The table that the twelve calls of regist_service (service.c:55-69) leave, *)
(* computed with the siphash of the repository and its seed of zeros.         *)
EXTENDS RouteTable, TLC

CONSTANTS w1, w2

TwoWorkers == {w1, w2}

\* The hashes, as far as sixteen buckets look at them
RouteHashes ==
  "verifyBefore" :> 6 @@ "verifyAfter" :> 13 @@ "userRegister" :> 14 @@ "userLogin" :> 13
  @@ "userStatus" :> 0 @@ "userLogout" :> 8 @@ "userModify" :> 12 @@ "userDelete" :> 15
  @@ "noticeGet" :> 7 @@ "appVer" :> 11 @@ "sayhello" :> 15 @@ "r_31501" :> 15

AllRoutes == DOMAIN RouteHashes

OldTable == [i \in 0..7 |->
  CASE i = 6 -> <<"verifyBefore", "userRegister">> [] i = 7 -> <<"userDelete">> [] OTHER -> <<>>]

NewTable == [i \in 0..15 |->
  CASE i = 0  -> <<"userStatus">> [] i = 7  -> <<"noticeGet">>
    [] i = 8  -> <<"userLogout">> [] i = 11 -> <<"appVer">>
    [] i = 12 -> <<"userModify">> [] i = 13 -> <<"userLogin", "verifyAfter">>
    [] i = 15 -> <<"r_31501", "sayhello">> [] OTHER -> <<>>]

RouteChains == [t \in 0..1 |-> IF t = 0 THEN OldTable ELSE NewTable]
=============================================================================
