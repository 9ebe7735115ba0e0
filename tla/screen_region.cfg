SPECIFICATION Spec
CONSTANTS
  ScreenWidth = 1920
  ScreenHeight = 1080
  Lefts <- MCLefts
  Tops <- MCTops
  Widths = {800, 1920}
  Heights = {600, 1017, 1018}
  Margin = 60
  Xs = {740, 800, 1500}
  Ys = {600, 640}
PROPERTY RegionIsNear
