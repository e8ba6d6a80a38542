\* Three messages through two numbers, every setting of the bot.
SPECIFICATION FairSpec
CONSTANTS
    Messages <- MCMessages
    Numbers = {"one", "two"}
    To <- MCTo
    FromMe = {"bye"}
    Triggers = {"hello", "again"}
    Finish = {"bye"}
INVARIANTS TypeOK 
 
CHECK_DEADLOCK FALSE
