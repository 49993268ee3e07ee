------------------------------ MODULE MCGuilds ------------------------------
EXTENDS Guilds
CONSTANTS master, officer, newcomer
MCFirstRanks == master :> 0 @@ officer :> 1
MCFirstRights == <<Rights \cup RightEmpty, {"base", "invite", "remove", "promote", "public"}, RightEmpty>>
MCRightSets == {{}}
MCPlays ==
  {<<master, "invite", newcomer>>, <<master, "kick", officer>>, <<master, "promote", newcomer>>, <<master, "demote", officer>>, <<master, "officer", officer>>,
   <<master, "motd", master>>, <<master, "info", master>>, <<master, "rank", 1>>, <<master, "addRank", master>>, <<master, "delRank", master>>,
   <<officer, "accept", officer>>, <<officer, "leave", officer>>, <<officer, "promote", master>>, <<officer, "public", newcomer>>,
   <<officer, "motd", officer>>, <<officer, "logout", officer>>, <<newcomer, "accept", newcomer>>}
=============================================================================
